------------------------------- MODULE Equium -------------------------------
(***************************************************************************)
(* The Equium on-chain program (src/programs/equium): one global config    *)
(* account, the vault that custodies the mineable supply, and the six      *)
(* instructions that change them.  A transaction is atomic, so each        *)
(* instruction is one action whose conjuncts are the account constraints,  *)
(* the require! checks and the checked arithmetic of its handler; a        *)
(* transaction that fails one of them changes nothing.                     *)
(*                                                                         *)
(* Data abstractions.                                                      *)
(*  - A SHA-256 digest is what was hashed: a challenge is the sequence of  *)
(*    (winner, slot) pairs folded into it, so that it is collision-free.   *)
(*  - A 256-bit target or solution hash is a number in 0..MAX_TARGET.      *)
(*  - A solution is the I-block it solves and the hash it has; finding one *)
(*    is the miners' business, so anybody may present any solution of any  *)
(*    I-block of a round that has opened, as often as they like.           *)
(*  - The most recent entry of SlotHashes is determined by the slot.       *)
(***************************************************************************)
EXTENDS Difficulty, Sequences, FiniteSets, Functions

CONSTANTS
    Miners,       \* wallets that mine
    Admin,        \* EXPECTED_ADMIN, the key that may initialize
    Vault,        \* the token account owned by the config PDA
    Nobody        \* Pubkey::default() and the all-zero winner of an empty round

CONSTANTS
    TOTAL_SUPPLY_BASE, PREMINE_BASE, INITIAL_BLOCK_REWARD_BASE,
    HALVING_INTERVAL_BLOCKS, RETARGET_INTERVAL_BLOCKS,
    ROUND_TIMEOUT_SLOTS,
    U64_MAX       \* the largest u64, where checked_add fails

CONSTANTS
    Targets,      \* targets the admin may ask for
    Hashes,       \* solution hashes that miners come up with
    Transfers,    \* amounts that holders move among themselves
    TsSteps,      \* how far the unix clock may move in one slot
    MaxSlot       \* horizon: the cluster clock stops here

MINEABLE_BASE == TOTAL_SUPPLY_BASE - PREMINE_BASE

(* 1 << k                                                                  *)
Pow2[k \in Nat] == IF k = 0 THEN 1 ELSE 2 * Pow2[k - 1]

Wallets == Miners \union {Admin}
Holders == Wallets \union {Vault}

ASSUME KeysAssumption ==
    /\ IsFiniteSet(Miners)
    /\ Vault \notin Wallets
    /\ Nobody \notin Holders

ASSUME ScheduleAssumption ==
    /\ TOTAL_SUPPLY_BASE \in Nat /\ PREMINE_BASE \in Nat
    /\ PREMINE_BASE <= TOTAL_SUPPLY_BASE
    /\ INITIAL_BLOCK_REWARD_BASE \in Nat
    /\ HALVING_INTERVAL_BLOCKS \in Nat \ {0}
    /\ RETARGET_INTERVAL_BLOCKS \in Nat \ {0}
    /\ ROUND_TIMEOUT_SLOTS \in Nat
    /\ U64_MAX \in Nat
    /\ MINEABLE_BASE <= U64_MAX
    /\ \E bits \in 0..64 : U64_MAX < Pow2[bits]

ASSUME EnvironmentAssumption ==
    /\ Targets \subseteq 0..MAX_TARGET
    /\ Hashes \subseteq 0..MAX_TARGET
    /\ Transfers \subseteq Nat
    /\ TsSteps \subseteq Int
    /\ MaxSlot \in Nat

(* The supply curve fits in the vault: HALVING_INTERVAL_BLOCKS rounds at   *)
(* the initial reward, then as many at half of it, and so on, never sum to *)
(* more than twice the first epoch.  The program's constants meet it with  *)
(* equality: 2 * 378_000 * 25 EQM = 18_900_000 EQM.                        *)
ASSUME SupplyAssumption ==
    2 * HALVING_INTERVAL_BLOCKS * INITIAL_BLOCK_REWARD_BASE <= MINEABLE_BASE

-----------------------------------------------------------------------------

VARIABLES
    slot, unix_timestamp,          \* the Clock sysvar
    initialized,                   \* the config PDA exists
    mining_open, admin, admin_renounced,
    block_height, current_challenge, current_target,
    current_round_open_slot, current_round_open_unix_ts, last_winner,
    current_epoch_reward, next_halving_block,
    next_retarget_block, last_retarget_unix_ts,
    cumulative_mined, empty_rounds,
    balance,                       \* token balance of every holder
    opened_slot,                   \* the slot in the MiningOpened event
    blocks                         \* the BlockMined and BlockSkipped events

clock    == <<slot, unix_timestamp>>
launch   == <<initialized, mining_open, admin, admin_renounced, opened_slot>>
round    == <<block_height, current_challenge, current_round_open_slot,
              current_round_open_unix_ts, last_winner, empty_rounds>>
schedule == <<current_epoch_reward, next_halving_block,
              next_retarget_block, last_retarget_unix_ts>>
vars     == <<clock, launch, round, schedule, current_target,
              cumulative_mined, balance, blocks>>

-----------------------------------------------------------------------------
(* Pure helpers: challenge.rs, verify.rs, schedule.rs; the target's are in *)
(* Difficulty.                                                             *)

derive_next_challenge(prev, winner, entropy) == Append(prev, <<winner, entropy>>)

build_input(challenge, miner, height) ==
    [challenge |-> challenge, miner |-> miner, height |-> height]

(* Mutant: the epoch ends one round early.                                 *)
is_halving_boundary_early(height) ==
    height > 0 /\ (height + 1) % HALVING_INTERVAL_BLOCKS = 0

is_halving_boundary(height) == height > 0 /\ height % HALVING_INTERVAL_BLOCKS = 0

is_retarget_boundary(height) == height > 0 /\ height % RETARGET_INTERVAL_BLOCKS = 0

(* What reward_at_height promises: the initial reward shifted right once   *)
(* per halving, and 0 from the 64th on.                                    *)
reward_at_height(height) ==
    LET halvings == height \div HALVING_INTERVAL_BLOCKS
    IN  IF halvings >= 64 THEN 0 ELSE INITIAL_BLOCK_REWARD_BASE \div Pow2[halvings]

(* Mutant: the I-block does not bind the signer.                           *)
verify_submission_any_miner(miner, solution) ==
    /\ \E m \in Miners :
          solution.input = build_input(current_challenge, m, block_height)
    /\ hash_under_target(solution.hash, current_target)

(* Equihash verification: a solution is valid for the one I-block it was   *)
(* solved for.  The program rebuilds that block from the config and the    *)
(* signer and never sees the solver's copy.                                *)
verify_submission(miner, solution) ==
    /\ solution.input = build_input(current_challenge, miner, block_height)
    /\ hash_under_target(solution.hash, current_target)

(* Every solution somebody could hold: of an I-block of this round or of   *)
(* an earlier one, by any miner, at any height.                            *)
Challenges == {SubSeq(current_challenge, 1, i) : i \in 1..Len(current_challenge)}
Solutions ==
    [input : {build_input(c, m, h) : c \in Challenges, m \in Miners,
                                     h \in 0..block_height},
     hash : Hashes]

NoSolution == "none"

-----------------------------------------------------------------------------

Init ==
    /\ slot = 0 /\ unix_timestamp = 0
    /\ initialized = FALSE /\ mining_open = FALSE
    /\ admin = Nobody /\ admin_renounced = FALSE
    /\ block_height = 0 /\ current_challenge = <<>> /\ current_target = 0
    /\ current_round_open_slot = 0 /\ current_round_open_unix_ts = 0
    /\ last_winner = Nobody
    /\ current_epoch_reward = 0 /\ next_halving_block = 0
    /\ next_retarget_block = 0 /\ last_retarget_unix_ts = 0
    /\ cumulative_mined = 0 /\ empty_rounds = 0
    /\ balance = [h \in Holders |-> IF h = Admin THEN TOTAL_SUPPLY_BASE ELSE 0]
    /\ opened_slot = 0
    /\ blocks = <<>>

(* spl transfer_checked: fails when the source holds less than the amount. *)
transfer_checked(from, to, amount) ==
    /\ balance[from] >= amount
    /\ LET debit(h)  == IF h = from THEN amount ELSE 0
           credit(h) == IF h = to THEN amount ELSE 0
       IN  balance' = [h \in Holders |-> balance[h] - debit(h) + credit(h)]

(* initialize: `init` on the config PDA makes it succeed once only.        *)
Initialize(signer, initial_target) ==
    /\ ~initialized
    /\ signer = Admin
    /\ initialized' = TRUE
    /\ current_target' = initial_target
    /\ block_height' = 0
    /\ current_challenge' = <<<<Nobody, slot>>>>
    /\ current_round_open_slot' = slot
    /\ current_round_open_unix_ts' = unix_timestamp
    /\ last_winner' = Nobody
    /\ current_epoch_reward' = INITIAL_BLOCK_REWARD_BASE
    /\ next_halving_block' = HALVING_INTERVAL_BLOCKS
    /\ next_retarget_block' = RETARGET_INTERVAL_BLOCKS
    /\ last_retarget_unix_ts' = unix_timestamp
    /\ cumulative_mined' = 0
    /\ empty_rounds' = 0
    /\ mining_open' = FALSE
    /\ admin' = signer
    /\ admin_renounced' = FALSE
    /\ UNCHANGED <<clock, balance, opened_slot, blocks>>

(* fund_vault: deposits the whole mineable supply, re-anchors the round    *)
(* timeout and the first retarget window to now, and opens mining.         *)
FundVault(signer) ==
    /\ initialized
    /\ signer = admin
    /\ ~mining_open
    /\ transfer_checked(signer, Vault, MINEABLE_BASE)
    /\ current_round_open_slot' = slot
    /\ current_round_open_unix_ts' = unix_timestamp
    /\ last_retarget_unix_ts' = unix_timestamp
    /\ mining_open' = TRUE
    /\ opened_slot' = slot
    /\ UNCHANGED <<clock, initialized, admin, admin_renounced, block_height,
                   current_challenge, last_winner, empty_rounds,
                   current_epoch_reward, next_halving_block, next_retarget_block,
                   current_target, cumulative_mined, blocks>>

(* The halving and the retarget that advance_round applies when the new    *)
(* height is a boundary; checked_add on the next boundary can fail.        *)
Retarget(new_height) ==
    IF is_retarget_boundary(new_height)
    THEN LET window == unix_timestamp - last_retarget_unix_ts
             actual_seconds == IF window < 0 THEN 0 ELSE window
         IN  /\ new_height + RETARGET_INTERVAL_BLOCKS <= U64_MAX
             /\ current_target' = next_target(current_target, actual_seconds)
             /\ last_retarget_unix_ts' = unix_timestamp
             /\ next_retarget_block' = new_height + RETARGET_INTERVAL_BLOCKS
    ELSE UNCHANGED <<current_target, last_retarget_unix_ts, next_retarget_block>>

(* Mutants: no halving; halving that rounds up.                            *)
Halve_never(new_height) == UNCHANGED <<current_epoch_reward, next_halving_block>>
Halve_rounding_up(new_height) ==
    IF is_halving_boundary(new_height)
    THEN /\ current_epoch_reward' = (current_epoch_reward + 1) \div 2
         /\ next_halving_block' = new_height + HALVING_INTERVAL_BLOCKS
    ELSE UNCHANGED <<current_epoch_reward, next_halving_block>>

Halve(new_height) ==
    IF is_halving_boundary(new_height)
    THEN /\ new_height + HALVING_INTERVAL_BLOCKS <= U64_MAX
         /\ current_epoch_reward' = current_epoch_reward \div 2
         /\ next_halving_block' = new_height + HALVING_INTERVAL_BLOCKS
    ELSE UNCHANGED <<current_epoch_reward, next_halving_block>>

(* Mutant: every round counts as empty.                                    *)
RecordOutcome_miscounting(winner) ==
    /\ last_winner' = IF winner = Nobody THEN last_winner ELSE winner
    /\ empty_rounds' = empty_rounds + 1

(* The transition's winner, Nobody for an empty round.                     *)
RecordOutcome(winner) ==
    \/ winner # Nobody /\ last_winner' = winner /\ UNCHANGED empty_rounds
    \/ winner = Nobody /\ empty_rounds' = empty_rounds + 1 /\ UNCHANGED last_winner

(* advance_round: closes the current round and opens the next.             *)
advance_round(winner) ==
    LET new_height == block_height + 1
    IN  /\ new_height <= U64_MAX
        /\ block_height' = new_height
        /\ current_challenge' =
              derive_next_challenge(current_challenge, winner, slot)
        /\ current_round_open_slot' = slot
        /\ current_round_open_unix_ts' = unix_timestamp
        /\ RecordOutcome(winner)
        /\ Retarget(new_height)
        /\ Halve(new_height)

(* mine: the winner is paid the reward of the epoch the round opened in;   *)
(* a halving at the new height counts for the next round.                  *)
Mine(miner, solution) ==
    LET reward == current_epoch_reward
    IN  /\ initialized
        /\ mining_open
        /\ verify_submission(miner, solution)
        /\ reward > 0
        /\ cumulative_mined + reward <= MINEABLE_BASE
        /\ transfer_checked(Vault, miner, reward)
        /\ cumulative_mined' = cumulative_mined + reward
        /\ advance_round(miner)
        /\ blocks' = Append(blocks, [winner |-> miner, reward |-> reward,
                                     solution |-> solution])
        /\ UNCHANGED <<clock, launch>>

(* Mutant: the timeout is counted from the opening of mining.              *)
RoundStalled_since_opening == slot - opened_slot >= ROUND_TIMEOUT_SLOTS

RoundStalled ==
    /\ slot >= current_round_open_slot
    /\ slot - current_round_open_slot >= ROUND_TIMEOUT_SLOTS

(* advance_empty_round: anybody may close a round that is stalled.  The    *)
(* reward is not paid and stays in the vault.                              *)
AdvanceEmptyRound ==
    /\ initialized
    /\ mining_open
    /\ RoundStalled
    /\ advance_round(Nobody)
    /\ blocks' = Append(blocks, [winner |-> Nobody, reward |-> 0,
                                 solution |-> NoSolution])
    /\ UNCHANGED <<clock, launch, cumulative_mined, balance>>

RenounceAdmin(signer) ==
    /\ initialized
    /\ signer = admin
    /\ ~admin_renounced
    /\ admin_renounced' = TRUE
    /\ admin' = Nobody
    /\ UNCHANGED <<clock, initialized, mining_open, opened_slot, round, schedule,
                   current_target, cumulative_mined, balance, blocks>>

SetTarget(signer, new_target) ==
    /\ initialized
    /\ signer = admin
    /\ ~admin_renounced
    /\ current_target' = new_target
    /\ UNCHANGED <<clock, launch, round, schedule, cumulative_mined, balance, blocks>>

(* The environment: the token program lets a holder move its own tokens    *)
(* anywhere, the vault included; the cluster produces slots, and its unix  *)
(* clock is an estimate that TsSteps may let stand still or step back.     *)
SplTransfer(from, to, amount) ==
    /\ transfer_checked(from, to, amount)
    /\ UNCHANGED <<clock, launch, round, schedule, current_target,
                   cumulative_mined, blocks>>

Tick(seconds) ==
    /\ slot < MaxSlot
    /\ slot' = slot + 1
    /\ unix_timestamp' = unix_timestamp + seconds
    /\ UNCHANGED <<launch, round, schedule, current_target, cumulative_mined,
                   balance, blocks>>

Next ==
    \/ \E w \in Wallets, t \in Targets : Initialize(w, t)
    \/ \E w \in Wallets : FundVault(w)
    \/ \E m \in Miners : \E s \in Solutions : Mine(m, s)
    \/ AdvanceEmptyRound
    \/ \E w \in Wallets : RenounceAdmin(w)
    \/ \E w \in Wallets, t \in Targets : SetTarget(w, t)
    \/ \E w \in Wallets, h \in Holders, n \in Transfers : SplTransfer(w, h, n)
    \/ \E d \in TsSteps : Tick(d)

Spec == Init /\ [][Next]_vars

-----------------------------------------------------------------------------
(* Type invariant.                                                         *)

Block == [winner : Miners, reward : Nat,
          solution : [input : [challenge : Seq((Wallets \union {Nobody}) \X Nat),
                               miner : Miners, height : Nat],
                      hash : Hashes]]
         \union [winner : {Nobody}, reward : {0}, solution : {NoSolution}]

TypeOK ==
    /\ slot \in Nat /\ unix_timestamp \in Int
    /\ initialized \in BOOLEAN /\ mining_open \in BOOLEAN
    /\ admin \in {Admin, Nobody} /\ admin_renounced \in BOOLEAN
    /\ block_height \in Nat /\ current_target \in 0..MAX_TARGET
    /\ current_challenge \in Seq((Wallets \union {Nobody}) \X Nat)
    /\ current_round_open_slot \in Nat /\ current_round_open_unix_ts \in Int
    /\ last_winner \in Miners \union {Nobody}
    /\ current_epoch_reward \in Nat /\ next_halving_block \in Nat
    /\ next_retarget_block \in Nat /\ last_retarget_unix_ts \in Int
    /\ cumulative_mined \in Nat /\ empty_rounds \in Nat
    /\ balance \in [Holders -> Nat]
    /\ opened_slot \in Nat
    /\ blocks \in Seq(Block)

-----------------------------------------------------------------------------
(* Supply.                                                                 *)

(* Once mining is open the vault covers everything the cap still allows to *)
(* be mined: rewards and gifts only ever keep the sum at MINEABLE_BASE or  *)
(* above it (fund_vault, mine, and advance_empty_round which must not pay).*)
VaultCoversCap ==
    mining_open => balance[Vault] + cumulative_mined >= MINEABLE_BASE

(* The schedule can always be paid in full: what has been mined, the rest  *)
(* of this epoch at today's reward, and one more such epoch for all those  *)
(* that follow, fit under the cap.                                         *)
ScheduleFitsCap ==
    initialized =>
      cumulative_mined
        + current_epoch_reward * (next_halving_block - block_height)
        + current_epoch_reward * HALVING_INTERVAL_BLOCKS <= MINEABLE_BASE

(* A miner with a valid solution is never turned away for lack of supply   *)
(* while the schedule still has a reward: SupplyExhausted and the token    *)
(* program's insufficient-funds error cannot occur in mine.                *)
NeverExhausted ==
    mining_open /\ current_epoch_reward > 0 =>
      /\ cumulative_mined + current_epoch_reward <= MINEABLE_BASE
      /\ balance[Vault] >= current_epoch_reward

(* What each mined round paid is the reward that schedule.rs's             *)
(* reward_at_height gives for its height, and the open round will too:     *)
(* repeated >>= 1 at the boundaries agrees with the closed form.           *)
PaysSchedule ==
    initialized =>
      /\ current_epoch_reward = reward_at_height(block_height)
      /\ \A i \in DOMAIN blocks :
            blocks[i].winner # Nobody => blocks[i].reward = reward_at_height(i - 1)

(* The books agree: every closed round is a mined block or an empty one,   *)
(* cumulative_mined is what the BlockMined events paid, and no token is    *)
(* made or lost.                                                           *)
BooksBalance ==
    /\ Len(blocks) = block_height
    /\ empty_rounds = SumFunction([i \in DOMAIN blocks |->
                          IF blocks[i].winner = Nobody THEN 1 ELSE 0])
    /\ cumulative_mined = SumFunction([i \in DOMAIN blocks |-> blocks[i].reward])
    /\ SumFunction(balance) = TOTAL_SUPPLY_BASE

(* The halving and retarget countdowns that the clients show point at the  *)
(* first boundary above the current height, also right after a boundary    *)
(* and on one that both intervals share.                                   *)
NextBoundaries ==
    initialized =>
      /\ is_halving_boundary(next_halving_block)
      /\ is_retarget_boundary(next_retarget_block)
      /\ next_halving_block - block_height \in 1..HALVING_INTERVAL_BLOCKS
      /\ next_retarget_block - block_height \in 1..RETARGET_INTERVAL_BLOCKS

-----------------------------------------------------------------------------
(* Rounds.                                                                 *)

(* Every round is won with work done for that very round, by the winner:   *)
(* the I-block the paid solution solves carries the winner, the height and *)
(* the challenge the round opened with, which the next challenge extends.  *)
(* So neither a copyist nor a solution kept from an earlier round is ever  *)
(* paid (mine, build_input, derive_next_challenge).                        *)
WonByFreshOwnWork ==
    \A i \in DOMAIN blocks :
      LET b == blocks[i]
      IN  b.winner # Nobody =>
            /\ b.solution.input.miner = b.winner
            /\ b.solution.input.height = i - 1
            /\ b.solution.input.challenge = SubSeq(current_challenge, 1, i)
            /\ current_challenge[i + 1][1] = b.winner

(* No I-block is paid for twice, whatever is resubmitted and whenever.     *)
PaidOnce ==
    \A i, j \in DOMAIN blocks :
      /\ blocks[i].winner # Nobody /\ blocks[j].winner # Nobody
      /\ blocks[i].solution.input = blocks[j].solution.input
      => i = j

(* Each empty round waited out its full timeout, and the waits do not      *)
(* overlap: the open round started at least that many timeouts after       *)
(* mining opened (fund_vault's re-anchoring, advance_empty_round's guard), *)
(* and never in the future, so its checked_sub cannot fail.                *)
EmptyRoundsPaced ==
    mining_open =>
      /\ empty_rounds * ROUND_TIMEOUT_SLOTS <= current_round_open_slot - opened_slot
      /\ current_round_open_slot <= slot

(* last_winner is the winner of the most recent mined block, however many  *)
(* empty rounds followed it.                                               *)
LastWinnerIsLatest ==
    \A i \in DOMAIN blocks :
      (/\ blocks[i].winner # Nobody
       /\ \A j \in DOMAIN blocks : j > i => blocks[j].winner = Nobody)
      => last_winner = blocks[i].winner

(* Nothing happens to the schedule or to the books before the vault is     *)
(* funded, and the admin key is in place exactly while it is not renounced.*)
ClosedIsGenesis ==
    /\ mining_open => initialized
    /\ ~mining_open => /\ block_height = 0 /\ empty_rounds = 0
                        /\ cumulative_mined = 0
    /\ admin = Admin <=> initialized /\ ~admin_renounced
    /\ admin_renounced => initialized

-----------------------------------------------------------------------------
(* Difficulty.                                                             *)

(* A retarget window starts when its first round opens: on a boundary the  *)
(* retarget clock and the round clock agree, from the opening of mining on.*)
WindowAnchored ==
    initialized /\ block_height % RETARGET_INTERVAL_BLOCKS = 0
      => last_retarget_unix_ts = current_round_open_unix_ts

(* Closing a round changes the target only on a retarget boundary, never   *)
(* to more than twice or less than half of it, and in the direction that   *)
(* the window's duration calls for.                                        *)
RetargetStep ==
    LET window == unix_timestamp - last_retarget_unix_ts
    IN  block_height' # block_height =>
          /\ ~is_retarget_boundary(block_height') => current_target' = current_target
          /\ current_target \div 2 <= current_target'
          /\ current_target' <= 2 * current_target
          /\ window <= RETARGET_TARGET_SECONDS => current_target' <= current_target
          /\ window >= RETARGET_TARGET_SECONDS => current_target' >= current_target
RetargetDamped == [][initialized => RetargetStep]_vars

(* Once the admin has renounced, the target moves only when a round closes *)
(* on a retarget boundary: nobody can set it any more.                     *)
RenouncedStep ==
    admin_renounced /\ current_target' # current_target =>
      block_height' = block_height + 1 /\ is_retarget_boundary(block_height')
RenouncedTarget == [][RenouncedStep]_vars

(* Renouncing before fund_vault is final: mining can never open, and the   *)
(* vault never pays anybody.                                               *)
UnfundedStep ==
    admin_renounced /\ ~mining_open =>
      /\ ~mining_open'
      /\ cumulative_mined' = cumulative_mined
      /\ block_height' = block_height
RenouncedUnfunded == [][UnfundedStep]_vars

(* Parts that are inductive together.                                      *)
IInv == /\ ClosedIsGenesis /\ NextBoundaries /\ VaultCoversCap
        /\ EmptyRoundsPaced /\ WindowAnchored

-----------------------------------------------------------------------------
(* The program implements the issuance promise.                            *)

Issuance == INSTANCE Emission WITH
    Reward <- INITIAL_BLOCK_REWARD_BASE,
    Epoch <- HALVING_INTERVAL_BLOCKS,
    height <- block_height,
    reward <- IF initialized THEN current_epoch_reward
                             ELSE INITIAL_BLOCK_REWARD_BASE,
    roundsLeft <- IF initialized THEN next_halving_block - block_height
                                 ELSE HALVING_INTERVAL_BLOCKS,
    issued <- cumulative_mined

(* Seen through heights, rewards and cumulative_mined alone, every         *)
(* behaviour of the program is one of the issuance specification.          *)
ImplementsIssuance == Issuance!ESpec

=============================================================================
