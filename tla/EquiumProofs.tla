---------------------------- MODULE EquiumProofs ----------------------------
(***************************************************************************)
(* Proofs about the Equium program for every value of its constants, and   *)
(* about the bytes in which it stores and computes its target (Target).    *)
(***************************************************************************)
EXTENDS Target, SumProofs, SequenceTheorems

-----------------------------------------------------------------------------
(* What a retarget can do to the difficulty, for every target and window.  *)

(* What scale_target returns, and how it compares with the old target.     *)
LEMMA ScaleTarget ==
    ASSUME NEW t \in 0..MAX_TARGET, NEW a \in Nat, NEW e \in Nat \ {0}
    PROVE  /\ scale_target(t, a, e) \in 0..MAX_TARGET
           /\ a <= e => scale_target(t, a, e) <= t
           /\ a >= e => scale_target(t, a, e) >= t
           /\ a <= 2 * e => scale_target(t, a, e) <= 2 * t
           /\ 2 * a >= e => scale_target(t, a, e) >= t \div 2
<1> DEFINE s == (t * a) \div e
<1>1. MAX_TARGET \in Nat
  BY DifficultyAssumption
<1>2. t \in Nat /\ t <= MAX_TARGET /\ t \div 2 <= t
  BY <1>1
<1>3. /\ s \in Nat
      /\ a <= e => s <= t
      /\ a >= e => s >= t
      /\ a <= 2 * e => s <= 2 * t
      /\ 2 * a >= e => s >= t \div 2
  BY <1>2
<1>. HIDE DEF s
<1>. QED BY <1>1, <1>2, <1>3 DEF scale_target, s

(* next_target's clamps: at most doubled, at least halved (rounding down), *)
(* and moved in the direction of the window's duration.                    *)
THEOREM NextTargetDamped ==
    ASSUME NEW t \in 0..MAX_TARGET, NEW s \in Nat
    PROVE  /\ next_target(t, s) \in 0..MAX_TARGET
           /\ next_target(t, s) <= 2 * t
           /\ next_target(t, s) >= t \div 2
           /\ s <= RETARGET_TARGET_SECONDS => next_target(t, s) <= t
           /\ s >= RETARGET_TARGET_SECONDS => next_target(t, s) >= t
<1> USE DEF RETARGET_MIN_NUM, RETARGET_MIN_DEN, RETARGET_MAX_NUM, RETARGET_MAX_DEN
<1> DEFINE e == RETARGET_TARGET_SECONDS
<1>1. e \in Nat \ {0} /\ MAX_TARGET \in Nat
  BY DifficultyAssumption
<1>2. CASE s = 0 \/ s * 2 < e * 1
  <2>1. next_target(t, s) = scale_target(t, 1, 2)
    BY <1>2 DEF next_target
  <2>. QED BY <1>1, <1>2, <2>1, ScaleTarget
<1>3. CASE ~(s = 0 \/ s * 2 < e * 1) /\ s * 1 > e * 2
  <2>1. next_target(t, s) = scale_target(t, 2, 1)
    BY <1>3 DEF next_target
  <2>. QED BY <1>1, <1>3, <2>1, ScaleTarget
<1>4. CASE ~(s = 0 \/ s * 2 < e * 1) /\ ~(s * 1 > e * 2)
  <2>1. next_target(t, s) = scale_target(t, s, e)
    BY <1>4 DEF next_target
  <2>2. s <= 2 * e /\ 2 * s >= e
    BY <1>1, <1>4
  <2>3. /\ scale_target(t, s, e) \in 0..MAX_TARGET
        /\ s <= e => scale_target(t, s, e) <= t
        /\ s >= e => scale_target(t, s, e) >= t
        /\ scale_target(t, s, e) <= 2 * t
        /\ scale_target(t, s, e) >= t \div 2
    BY <1>1, <2>2, ScaleTarget
  <2>. QED BY <2>1, <2>3
<1>. QED BY <1>2, <1>3, <1>4

-----------------------------------------------------------------------------
(* Arithmetic.                                                             *)

(* Two multiples of n that are less than n apart are the same.             *)
LEMMA MultipleUnique ==
    ASSUME NEW n \in Nat \ {0}, NEW p \in Nat, NEW q \in Nat,
           n * p - n * q \in 0..(n - 1)
    PROVE  p = q
<1>1. CASE p > q
  <2>1. p - q >= 1
    BY <1>1
  <2>2. n * (p - q) >= n * 1
    BY <2>1
  <2>3. n * (p - q) = n * p - n * q
    OBVIOUS
  <2>. QED BY <2>2, <2>3
<1>2. CASE p < q
  <2>1. q - p >= 1
    BY <1>2
  <2>2. n * (q - p) >= n * 1
    BY <2>1
  <2>3. n * (q - p) = n * q - n * p
    OBVIOUS
  <2>. QED BY <2>2, <2>3
<1>. QED BY <1>1, <1>2

(* A counter that steps towards the next multiple of n meets a multiple    *)
(* exactly when it gets there, and the one after it is n further.          *)
LEMMA NextMultiple ==
    ASSUME NEW n \in Nat \ {0}, NEW h \in Nat, NEW b \in Nat,
           b % n = 0, b - h \in 1..n
    PROVE  /\ (h + 1) % n = 0 <=> h + 1 = b
           /\ (b + n) % n = 0
<1> DEFINE p == b \div n
           x == h + 1
           q == x \div n
<1>. x \in Nat
  OBVIOUS
<1>1. p \in Nat /\ b = n * p
  BY DivModFacts
<1>2. q \in Nat /\ x % n \in 0..(n - 1) /\ x = n * q + (x % n)
  BY DivModFacts
<1>3. ASSUME x % n = 0 PROVE x = b
  <2>1. n * p - n * q \in 0..(n - 1)
    BY <1>1, <1>2, <1>3
  <2>2. p = q
    BY <1>1, <1>2, <2>1, MultipleUnique
  <2>. QED BY <1>1, <1>2, <1>3, <2>2
<1>4. (b + n) % n = 0
  <2> DEFINE y == b + n
             r == y \div n
  <2>. y \in Nat
    OBVIOUS
  <2>1. r \in Nat /\ y % n \in 0..(n - 1) /\ y = n * r + (y % n)
    BY DivModFacts
  <2>2. y = n * (p + 1)
    BY <1>1
  <2>3. n * (p + 1) - n * r \in 0..(n - 1)
    BY <2>1, <2>2
  <2>4. p + 1 = r
    BY <1>1, <2>1, <2>3, MultipleUnique
  <2>. QED BY <2>1, <2>2, <2>4
<1>. QED BY <1>3, <1>4

(* Halving and then doubling never yields more than one started with, so   *)
(* an epoch at half the reward costs at most half as much.                 *)
LEMMA HalfEpoch ==
    ASSUME NEW r \in Nat, NEW n \in Nat
    PROVE  r \div 2 \in Nat /\ (r \div 2) * n + (r \div 2) * n <= r * n
<1> DEFINE h == r \div 2
<1>1. h \in Nat /\ h + h <= r
  OBVIOUS
<1>2. (h + h) * n <= r * n
  BY <1>1
<1>3. (h + h) * n = h * n + h * n
  BY <1>1
<1>. QED BY <1>1, <1>2, <1>3

(* The budget of the issuance specification, as arithmetic: a round that   *)
(* pays at most the reward r, with l rounds left of an epoch of n, is      *)
(* followed by a rest of the schedule that still fits under the cap.       *)
LEMMA BudgetArithmetic ==
    ASSUME NEW n \in Nat \ {0}, NEW cap \in Nat, NEW i \in Nat, NEW j \in Nat,
           NEW r \in Nat, NEW l \in 1..n, NEW s, NEW k,
           j <= i + r, i + r * l + r * n <= cap,
           IF l = 1 THEN s = r \div 2 /\ k = n ELSE s = r /\ k = l - 1
    PROVE  j + s * k + s * n <= cap
<1>1. CASE l = 1
  <2>1. s \in Nat /\ s * n + s * n <= r * n
    BY <1>1, HalfEpoch
  <2>2. k = n
    BY <1>1
  <2>. DEFINE e == s * n
              f == r * n
  <2>3. e \in Nat /\ f \in Nat
    BY <2>1
  <2>4. i + r + f <= cap
    BY <1>1
  <2>5. j + e + e <= cap
    <3>. HIDE DEF e, f
    <3>. QED BY <2>1, <2>3, <2>4 DEF e, f
  <2>. QED BY <2>2, <2>5
<1>2. CASE l # 1
  <2>1. s = r /\ k = l - 1
    BY <1>2
  <2>2. s * k = r * l - r
    BY <2>1
  <2>. DEFINE p == r * l
              f == r * n
  <2>3. p \in Nat /\ f \in Nat
    OBVIOUS
  <2>4. i + p + f <= cap
    OBVIOUS
  <2>5. j + (p - r) + f <= cap
    <3>1. i \in Nat /\ r \in Nat /\ j \in Nat /\ cap \in Nat /\ j <= i + r
      OBVIOUS
    <3>. QED BY ONLY <2>3, <2>4, <3>1
  <2>. QED BY <2>1, <2>2, <2>5
<1>. QED BY <1>1, <1>2

-----------------------------------------------------------------------------
(* Type correctness.                                                       *)

Challenge == Seq((Wallets \union {Nobody}) \X Nat)

(* The constants, as the assumptions give them.                            *)
LEMMA ConstantTypes ==
    /\ TOTAL_SUPPLY_BASE \in Nat /\ MINEABLE_BASE \in Nat
    /\ MAX_TARGET \in Nat /\ INITIAL_BLOCK_REWARD_BASE \in Nat
    /\ HALVING_INTERVAL_BLOCKS \in Nat \ {0}
    /\ RETARGET_INTERVAL_BLOCKS \in Nat \ {0}
    /\ Targets \subseteq 0..MAX_TARGET
BY ScheduleAssumption, DifficultyAssumption, EnvironmentAssumption DEF MINEABLE_BASE

(* Whatever a miner can present is a well-formed solution.                 *)
LEMMA SolutionsTyped ==
    ASSUME TypeOK, NEW s \in Solutions
    PROVE  s \in [input : [challenge : Challenge, miner : Miners, height : Nat],
                  hash : Hashes]
<1>1. current_challenge \in Challenge /\ block_height \in Nat
  BY DEF TypeOK, Challenge
<1>2. ASSUME NEW c \in Challenges PROVE c \in Challenge
  <2>1. PICK i \in 1..Len(current_challenge) :
              c = SubSeq(current_challenge, 1, i)
    BY DEF Challenges
  <2>2. \A j \in 1..i : current_challenge[j] \in (Wallets \union {Nobody}) \X Nat
    BY <1>1 DEF Challenge
  <2>. QED BY <2>1, <2>2, SubSeqProperties DEF Challenge
<1>3. PICK c \in Challenges, m \in Miners, h \in 0..block_height :
            s.input = build_input(c, m, h)
  BY DEF Solutions
<1>4. s.hash \in Hashes /\ s = [input |-> s.input, hash |-> s.hash]
  BY DEF Solutions
<1>. QED BY <1>1, <1>2, <1>3, <1>4 DEF build_input

(* A transfer that succeeds leaves no negative balance.                    *)
LEMMA TransferTyped ==
    ASSUME balance \in [Holders -> Nat], NEW a \in Holders, NEW b \in Holders,
           NEW n \in Nat, transfer_checked(a, b, n)
    PROVE  balance' \in [Holders -> Nat]
BY DEF transfer_checked

(* advance_round keeps every field it writes in its type.                  *)
LEMMA AdvanceRoundTyped ==
    ASSUME TypeOK, NEW w \in Miners \union {Nobody}, advance_round(w)
    PROVE  /\ block_height' \in Nat /\ current_target' \in 0..MAX_TARGET
           /\ current_challenge' \in Challenge
           /\ current_round_open_slot' \in Nat
           /\ current_round_open_unix_ts' \in Int
           /\ last_winner' \in Miners \union {Nobody}
           /\ current_epoch_reward' \in Nat /\ next_halving_block' \in Nat
           /\ next_retarget_block' \in Nat /\ last_retarget_unix_ts' \in Int
           /\ empty_rounds' \in Nat
<1> USE ConstantTypes DEF TypeOK
<1>1. block_height' \in Nat /\ block_height' = block_height + 1
  BY DEF advance_round
<1>2. current_challenge' \in Challenge
  BY DEF advance_round, derive_next_challenge, Challenge, Wallets
<1>3. /\ current_round_open_slot' \in Nat /\ current_round_open_unix_ts' \in Int
      /\ last_winner' \in Miners \union {Nobody} /\ empty_rounds' \in Nat
  BY DEF advance_round, RecordOutcome
<1>4. current_epoch_reward' \in Nat /\ next_halving_block' \in Nat
  BY DEF advance_round, Halve
<1>5. /\ current_target' \in 0..MAX_TARGET
      /\ next_retarget_block' \in Nat /\ last_retarget_unix_ts' \in Int
  <2>1. Retarget(block_height + 1)
    BY DEF advance_round
  <2>2. CASE is_retarget_boundary(block_height + 1)
    <3>1. PICK sec \in Nat : current_target' = next_target(current_target, sec)
      BY <2>1, <2>2 DEF Retarget
    <3>. QED BY <2>1, <2>2, <3>1, NextTargetDamped DEF Retarget
  <2>3. CASE ~is_retarget_boundary(block_height + 1)
    BY <2>1, <2>3 DEF Retarget
  <2>. QED BY <2>2, <2>3
<1>. QED BY <1>1, <1>2, <1>3, <1>4, <1>5

(* One step per instruction, and one for the environment.                  *)
LEMMA TypeStep == TypeOK /\ [Next]_vars => TypeOK'
<1> SUFFICES ASSUME TypeOK, [Next]_vars PROVE TypeOK'
  OBVIOUS
<1> USE ConstantTypes
<1>1. ASSUME NEW w \in Wallets, NEW t \in Targets, Initialize(w, t) PROVE TypeOK'
  <2>1. <<Nobody, slot>> \in (Wallets \union {Nobody}) \X Nat
    BY DEF TypeOK
  <2>2. current_challenge' \in Seq((Wallets \union {Nobody}) \X Nat)
    BY <1>1, <2>1 DEF Initialize
  <2>. QED BY <1>1, <2>2 DEF TypeOK, Initialize, clock
<1>2. ASSUME NEW w \in Wallets, FundVault(w) PROVE TypeOK'
  <2>1. balance' \in [Holders -> Nat]
    BY <1>2, TransferTyped DEF FundVault, TypeOK, Holders
  <2>. QED BY <1>2, <2>1 DEF TypeOK, FundVault, clock
<1>3. ASSUME NEW m \in Miners, NEW s \in Solutions, Mine(m, s) PROVE TypeOK'
  <2>1. advance_round(m) /\ m \in Miners \union {Nobody}
    BY <1>3 DEF Mine
  <2>2. balance' \in [Holders -> Nat]
    BY <1>3, TransferTyped DEF Mine, TypeOK, Holders, Wallets
  <2>3. cumulative_mined' \in Nat
    BY <1>3 DEF Mine, TypeOK
  <2>4. [winner |-> m, reward |-> current_epoch_reward, solution |-> s] \in Block
    BY SolutionsTyped DEF Block, TypeOK, Challenge
  <2>5. blocks' \in Seq(Block)
    BY <1>3, <2>4 DEF Mine, TypeOK
  <2>. QED BY <1>3, <2>1, <2>2, <2>3, <2>5, AdvanceRoundTyped
           DEF TypeOK, Challenge, Mine, clock, launch
<1>4. CASE AdvanceEmptyRound
  <2>1. advance_round(Nobody) /\ Nobody \in Miners \union {Nobody}
    BY <1>4 DEF AdvanceEmptyRound
  <2>2. blocks' \in Seq(Block)
    BY <1>4 DEF AdvanceEmptyRound, TypeOK, Block
  <2>. QED BY <1>4, <2>1, <2>2, AdvanceRoundTyped
           DEF TypeOK, Challenge, AdvanceEmptyRound, clock, launch
<1>5. ASSUME NEW w \in Wallets, RenounceAdmin(w) PROVE TypeOK'
  BY <1>5 DEF TypeOK, RenounceAdmin, clock, round, schedule
<1>6. ASSUME NEW w \in Wallets, NEW t \in Targets, SetTarget(w, t) PROVE TypeOK'
  BY <1>6 DEF TypeOK, SetTarget, clock, launch, round, schedule
<1>7. ASSUME NEW w \in Wallets, NEW h \in Holders, NEW n \in Transfers,
             SplTransfer(w, h, n)
      PROVE  TypeOK'
  <2>1. balance' \in [Holders -> Nat]
    BY <1>7, TransferTyped, EnvironmentAssumption DEF SplTransfer, TypeOK, Holders
  <2>. QED BY <1>7, <2>1 DEF TypeOK, SplTransfer, clock, launch, round, schedule
<1>8. ASSUME NEW d \in TsSteps, Tick(d) PROVE TypeOK'
  BY <1>8, EnvironmentAssumption DEF TypeOK, Tick, launch, round, schedule
<1>9. CASE UNCHANGED vars
  BY <1>9 DEF TypeOK, vars, clock, launch, round, schedule
<1>. QED BY <1>1, <1>2, <1>3, <1>4, <1>5, <1>6, <1>7, <1>8, <1>9 DEF Next

LEMMA TypeStart == Init => TypeOK
<1>. SUFFICES ASSUME Init PROVE TypeOK
  OBVIOUS
<1>1. current_challenge \in Seq((Wallets \union {Nobody}) \X Nat)
  BY DEF Init
<1>2. blocks \in Seq(Block)
  BY DEF Init
<1>3. balance \in [Holders -> Nat]
  BY ConstantTypes DEF Init
<1>4. current_target \in 0..MAX_TARGET
  BY ConstantTypes DEF Init
<1>5. /\ initialized \in BOOLEAN /\ mining_open \in BOOLEAN
      /\ admin_renounced \in BOOLEAN /\ admin \in {Admin, Nobody}
      /\ last_winner \in Miners \union {Nobody}
  BY DEF Init
<1>6. /\ slot \in Nat /\ block_height \in Nat /\ current_round_open_slot \in Nat
      /\ current_epoch_reward \in Nat /\ next_halving_block \in Nat
      /\ next_retarget_block \in Nat /\ cumulative_mined \in Nat
      /\ empty_rounds \in Nat /\ opened_slot \in Nat
      /\ unix_timestamp \in Int /\ current_round_open_unix_ts \in Int
      /\ last_retarget_unix_ts \in Int
  BY DEF Init
<1>. QED BY <1>1, <1>2, <1>3, <1>4, <1>5, <1>6 DEF TypeOK

(* Every field of the config account and every balance keeps its type      *)
(* under every instruction: no checked subtraction of the handlers can     *)
(* underflow and no target leaves the 256-bit range.                       *)
THEOREM TypeCorrect == Spec => []TypeOK
<1>. QED BY TypeStart, TypeStep, PTL DEF Spec

-----------------------------------------------------------------------------
(* The inductive invariant.                                                *)

(* Closing a round moves the epoch's countdown and its reward the way the  *)
(* issuance specification does, and keeps both countdowns on a boundary.   *)
LEMMA RoundClosed ==
    ASSUME TypeOK, NextBoundaries, initialized, initialized',
           NEW w \in Miners \union {Nobody}, advance_round(w)
    PROVE  /\ NextBoundaries'
           /\ block_height' = block_height + 1
           /\ next_halving_block - block_height = 1 =>
                /\ current_epoch_reward' = current_epoch_reward \div 2
                /\ next_halving_block' - block_height' = HALVING_INTERVAL_BLOCKS
           /\ next_halving_block - block_height # 1 =>
                /\ current_epoch_reward' = current_epoch_reward
                /\ next_halving_block' - block_height'
                     = next_halving_block - block_height - 1
<1> USE ConstantTypes
<1> DEFINE h == block_height + 1
<1>1. /\ block_height \in Nat /\ next_halving_block \in Nat
      /\ next_retarget_block \in Nat /\ h \in Nat /\ h > 0
  BY DEF TypeOK
<1>2. block_height' = h /\ Retarget(h) /\ Halve(h)
  BY DEF advance_round
<1>3. /\ next_halving_block % HALVING_INTERVAL_BLOCKS = 0
      /\ next_halving_block - block_height \in 1..HALVING_INTERVAL_BLOCKS
      /\ next_retarget_block % RETARGET_INTERVAL_BLOCKS = 0
      /\ next_retarget_block - block_height \in 1..RETARGET_INTERVAL_BLOCKS
  BY DEF NextBoundaries, is_halving_boundary, is_retarget_boundary
<1>4. /\ is_halving_boundary(h) <=> h = next_halving_block
      /\ (next_halving_block + HALVING_INTERVAL_BLOCKS) % HALVING_INTERVAL_BLOCKS = 0
  BY <1>1, <1>3, NextMultiple DEF is_halving_boundary
<1>5. /\ is_retarget_boundary(h) <=> h = next_retarget_block
      /\ (next_retarget_block + RETARGET_INTERVAL_BLOCKS) % RETARGET_INTERVAL_BLOCKS = 0
  BY <1>1, <1>3, NextMultiple DEF is_retarget_boundary
<1>6. /\ next_halving_block' % HALVING_INTERVAL_BLOCKS = 0
      /\ next_halving_block' - h \in 1..HALVING_INTERVAL_BLOCKS
      /\ next_halving_block' > 0
  BY <1>1, <1>2, <1>3, <1>4 DEF Halve
<1>7. /\ next_retarget_block' % RETARGET_INTERVAL_BLOCKS = 0
      /\ next_retarget_block' - h \in 1..RETARGET_INTERVAL_BLOCKS
      /\ next_retarget_block' > 0
  BY <1>1, <1>2, <1>3, <1>5 DEF Retarget
<1>8. NextBoundaries'
  BY <1>2, <1>6, <1>7 DEF NextBoundaries, is_halving_boundary, is_retarget_boundary
<1>9. CASE next_halving_block - block_height = 1
  BY <1>1, <1>2, <1>4, <1>8, <1>9 DEF Halve
<1>10. CASE next_halving_block - block_height # 1
  BY <1>1, <1>2, <1>4, <1>8, <1>10 DEF Halve
<1>. QED BY <1>2, <1>8, <1>9, <1>10

(* The timeout of one more empty round fits behind those before it.        *)
LEMMA OneMoreTimeout ==
    ASSUME NEW n \in Nat, NEW a \in Int, NEW b \in Int,
           n * ROUND_TIMEOUT_SLOTS <= a, b - a >= ROUND_TIMEOUT_SLOTS
    PROVE  (n + 1) * ROUND_TIMEOUT_SLOTS <= b
<1>1. ROUND_TIMEOUT_SLOTS \in Nat
  BY ScheduleAssumption
<1>2. (n + 1) * ROUND_TIMEOUT_SLOTS = n * ROUND_TIMEOUT_SLOTS + ROUND_TIMEOUT_SLOTS
  BY <1>1
<1>3. n * ROUND_TIMEOUT_SLOTS \in Nat
  BY <1>1
<1>. QED BY <1>1, <1>2, <1>3

(* Closing a round on a boundary starts a window together with the round.  *)
LEMMA BoundaryMod ==
    ASSUME TypeOK, NEW w \in Miners \union {Nobody}, advance_round(w),
           block_height' % RETARGET_INTERVAL_BLOCKS = 0
    PROVE  last_retarget_unix_ts' = current_round_open_unix_ts'
<1>1. block_height' = block_height + 1 /\ block_height + 1 > 0
  BY DEF advance_round, TypeOK
<1>2. is_retarget_boundary(block_height + 1)
  BY <1>1 DEF is_retarget_boundary
<1>. QED BY <1>2 DEF advance_round, Retarget

(* The induction step: each instruction, and under it the parts it can     *)
(* disturb.                                                                *)
LEMMA InvariantStep == TypeOK /\ IInv /\ [Next]_vars => IInv'
<1> SUFFICES ASSUME TypeOK, IInv, [Next]_vars PROVE IInv'
  OBVIOUS
<1> USE ConstantTypes
<1>1. ASSUME NEW w \in Wallets, NEW t \in Targets, Initialize(w, t) PROVE IInv'
  <2>1. /\ initialized' /\ ~mining_open' /\ block_height' = 0 /\ empty_rounds' = 0
        /\ cumulative_mined' = 0 /\ admin' = Admin /\ ~admin_renounced'
    BY <1>1 DEF Initialize
  <2>2. ClosedIsGenesis' /\ VaultCoversCap' /\ EmptyRoundsPaced' /\ WindowAnchored'
    BY <1>1, <2>1 DEF ClosedIsGenesis, VaultCoversCap, EmptyRoundsPaced,
                      WindowAnchored, Initialize
  <2>3. NextBoundaries'
    <3>1. \A n \in Nat \ {0} : n % n = 0
      OBVIOUS
    <3>. QED BY <1>1, <2>1, <3>1 DEF NextBoundaries, Initialize,
                is_halving_boundary, is_retarget_boundary
  <2>. QED BY <2>2, <2>3 DEF IInv
<1>2. ASSUME NEW w \in Wallets, FundVault(w) PROVE IInv'
  <2>1. /\ block_height = 0 /\ empty_rounds = 0 /\ cumulative_mined = 0
    BY <1>2 DEF IInv, ClosedIsGenesis, FundVault
  <2>2. ClosedIsGenesis'
    BY <1>2 DEF IInv, ClosedIsGenesis, FundVault
  <2>3. NextBoundaries'
    BY <1>2 DEF IInv, NextBoundaries, FundVault
  <2>4. VaultCoversCap'
    <3>1. w # Vault
      BY KeysAssumption
    <3>2. balance'[Vault] = balance[Vault] + MINEABLE_BASE /\ balance[Vault] \in Nat
      BY <1>2, <3>1 DEF FundVault, transfer_checked, TypeOK, Holders
    <3>. QED BY <1>2, <2>1, <3>2 DEF VaultCoversCap, FundVault
  <2>5. EmptyRoundsPaced'
    <3>1. 0 * ROUND_TIMEOUT_SLOTS = 0 /\ slot \in Nat
      BY ScheduleAssumption DEF TypeOK
    <3>. QED BY <1>2, <2>1, <3>1 DEF EmptyRoundsPaced, FundVault, clock
  <2>6. WindowAnchored'
    BY <1>2 DEF WindowAnchored, FundVault
  <2>. QED BY <2>2, <2>3, <2>4, <2>5, <2>6 DEF IInv
<1>3. ASSUME NEW m \in Miners, NEW s \in Solutions, Mine(m, s) PROVE IInv'
  <2>1. /\ advance_round(m) /\ m \in Miners \union {Nobody} /\ m # Nobody
        /\ initialized /\ initialized' /\ mining_open
    BY <1>3, KeysAssumption DEF Mine, launch, Holders, Wallets
  <2>2. ClosedIsGenesis'
    BY <1>3 DEF IInv, ClosedIsGenesis, Mine, launch
  <2>3. NextBoundaries'
    BY <2>1, RoundClosed DEF IInv
  <2>4. VaultCoversCap'
    <3>1. m # Vault /\ m \in Holders /\ Vault \in Holders
      BY KeysAssumption DEF Wallets, Holders
    <3>2. balance'[Vault] = balance[Vault] - current_epoch_reward
      BY <1>3, <3>1 DEF Mine, transfer_checked, TypeOK
    <3>3. cumulative_mined' = cumulative_mined + current_epoch_reward
      BY <1>3 DEF Mine
    <3>4. balance[Vault] \in Nat
      BY <3>1 DEF TypeOK
    <3>. QED BY <2>1, <3>2, <3>3, <3>4 DEF IInv, VaultCoversCap, TypeOK
  <2>5. EmptyRoundsPaced'
    <3>1. empty_rounds' = empty_rounds /\ current_round_open_slot' = slot
      BY <2>1 DEF advance_round, RecordOutcome
    <3>2. opened_slot' = opened_slot /\ slot' = slot
      BY <1>3 DEF Mine, launch, clock
    <3>3. /\ empty_rounds * ROUND_TIMEOUT_SLOTS <= current_round_open_slot - opened_slot
          /\ current_round_open_slot <= slot
      BY <2>1 DEF IInv, EmptyRoundsPaced
    <3>4. empty_rounds * ROUND_TIMEOUT_SLOTS \in Nat
      BY ScheduleAssumption DEF TypeOK
    <3>. QED BY <3>1, <3>2, <3>3, <3>4 DEF EmptyRoundsPaced, TypeOK
  <2>6. WindowAnchored'
    BY <2>1, BoundaryMod DEF WindowAnchored
  <2>. QED BY <2>2, <2>3, <2>4, <2>5, <2>6 DEF IInv
<1>4. CASE AdvanceEmptyRound
  <2>1. /\ advance_round(Nobody) /\ Nobody \in Miners \union {Nobody}
        /\ initialized /\ initialized' /\ mining_open
    BY <1>4 DEF AdvanceEmptyRound, launch
  <2>2. ClosedIsGenesis'
    BY <1>4 DEF IInv, ClosedIsGenesis, AdvanceEmptyRound, launch
  <2>3. NextBoundaries'
    BY <2>1, RoundClosed DEF IInv
  <2>4. VaultCoversCap'
    BY <1>4 DEF IInv, VaultCoversCap, AdvanceEmptyRound, launch
  <2>5. EmptyRoundsPaced'
    <3>1. empty_rounds' = empty_rounds + 1 /\ current_round_open_slot' = slot
      BY <2>1 DEF advance_round, RecordOutcome
    <3>2. opened_slot' = opened_slot /\ slot' = slot
      BY <1>4 DEF AdvanceEmptyRound, launch, clock
    <3>3. empty_rounds * ROUND_TIMEOUT_SLOTS <= current_round_open_slot - opened_slot
      BY <2>1 DEF IInv, EmptyRoundsPaced
    <3>4. slot - current_round_open_slot >= ROUND_TIMEOUT_SLOTS
      BY <1>4 DEF AdvanceEmptyRound, RoundStalled
    <3>5. /\ empty_rounds \in Nat /\ slot \in Nat /\ slot - opened_slot \in Int
          /\ current_round_open_slot - opened_slot \in Int
          /\ (slot - opened_slot) - (current_round_open_slot - opened_slot)
                >= ROUND_TIMEOUT_SLOTS
      BY <3>4, ScheduleAssumption DEF TypeOK
    <3>6. (empty_rounds + 1) * ROUND_TIMEOUT_SLOTS <= slot - opened_slot
      BY <3>3, <3>5, OneMoreTimeout
    <3>. QED BY <3>1, <3>2, <3>5, <3>6 DEF EmptyRoundsPaced
  <2>6. WindowAnchored'
    BY <2>1, BoundaryMod DEF WindowAnchored
  <2>. QED BY <2>2, <2>3, <2>4, <2>5, <2>6 DEF IInv
<1>5. ASSUME NEW w \in Wallets, RenounceAdmin(w) PROVE IInv'
  <2>1. ClosedIsGenesis'
    BY <1>5, KeysAssumption DEF IInv, ClosedIsGenesis, RenounceAdmin, round,
                                Holders, Wallets
  <2>. QED BY <1>5, <2>1 DEF IInv, NextBoundaries, VaultCoversCap, EmptyRoundsPaced,
              WindowAnchored, RenounceAdmin, clock, round, schedule
<1>6. ASSUME NEW w \in Wallets, NEW t \in Targets, SetTarget(w, t) PROVE IInv'
  BY <1>6 DEF IInv, ClosedIsGenesis, NextBoundaries, VaultCoversCap,
     EmptyRoundsPaced, WindowAnchored, SetTarget, clock, launch, round, schedule
<1>7. ASSUME NEW w \in Wallets, NEW h \in Holders, NEW n \in Transfers,
             SplTransfer(w, h, n)
      PROVE  IInv'
  <2>1. balance'[Vault] >= balance[Vault] /\ balance[Vault] \in Nat
    <3>1. w # Vault /\ Vault \in Holders /\ n \in Nat /\ balance[Vault] \in Nat
      BY KeysAssumption, EnvironmentAssumption DEF TypeOK, Holders
    <3>2. balance'[Vault] = balance[Vault] - 0 + (IF Vault = h THEN n ELSE 0)
      BY <1>7, <3>1 DEF SplTransfer, transfer_checked
    <3>. QED BY <3>1, <3>2
  <2>2. VaultCoversCap'
    <3>1. balance'[Vault] \in Nat
      BY <1>7, TypeStep DEF TypeOK, Next, Holders
    <3>. QED BY <1>7, <2>1, <3>1 DEF IInv, VaultCoversCap, SplTransfer, launch, TypeOK
  <2>. QED BY <1>7, <2>2 DEF IInv, ClosedIsGenesis, NextBoundaries, EmptyRoundsPaced,
              WindowAnchored, SplTransfer, clock, launch, round, schedule
<1>8. ASSUME NEW d \in TsSteps, Tick(d) PROVE IInv'
  <2>1. EmptyRoundsPaced'
    BY <1>8 DEF IInv, EmptyRoundsPaced, Tick, launch, round, TypeOK
  <2>. QED BY <1>8, <2>1 DEF IInv, ClosedIsGenesis, NextBoundaries, VaultCoversCap,
              WindowAnchored, Tick, launch, round, schedule
<1>9. CASE UNCHANGED vars
  BY <1>9 DEF IInv, ClosedIsGenesis, NextBoundaries, VaultCoversCap, EmptyRoundsPaced,
     WindowAnchored, vars, clock, launch, round, schedule
<1>. QED BY <1>1, <1>2, <1>3, <1>4, <1>5, <1>6, <1>7, <1>8, <1>9 DEF Next

LEMMA InvariantStart == Init => IInv
BY KeysAssumption DEF Init, IInv, ClosedIsGenesis, NextBoundaries, VaultCoversCap,
   EmptyRoundsPaced, WindowAnchored, Holders, Wallets

(* The vault covers the rest of the cap, the countdowns point at the next  *)
(* boundary, empty rounds waited their timeouts, windows are anchored, and *)
(* nothing precedes funding: for every schedule, clock and set of miners.  *)
THEOREM InvariantHolds == Spec => []IInv
<1>. QED BY InvariantStart, InvariantStep, TypeCorrect, PTL DEF Spec

(* The vault always covers what may still be mined: no gift, payment or    *)
(* empty round leaves the schedule without tokens.                         *)
THEOREM VaultAlwaysCovers == Spec => []VaultCoversCap
<1>1. IInv => VaultCoversCap
  BY DEF IInv
<1>. QED BY <1>1, InvariantHolds, PTL

(* However many callers see the same stalled round, each empty round takes *)
(* a whole timeout of its own.                                             *)
THEOREM EmptyRoundsTakeTime == Spec => []EmptyRoundsPaced
<1>1. IInv => EmptyRoundsPaced
  BY DEF IInv
<1>. QED BY <1>1, InvariantHolds, PTL

-----------------------------------------------------------------------------
(* The program implements the issuance specification.                      *)

(* The reward and the countdown as the issuance specification sees them.   *)
openReward == IF initialized THEN current_epoch_reward ELSE INITIAL_BLOCK_REWARD_BASE
roundsLeft == IF initialized THEN next_halving_block - block_height
                             ELSE HALVING_INTERVAL_BLOCKS
wholeSupply == 2 * HALVING_INTERVAL_BLOCKS * INITIAL_BLOCK_REWARD_BASE

(* Heights, rewards and issuance are naturals; the countdown stays within  *)
(* an epoch.                                                               *)
LEMMA IssuanceType == Issuance!ESpec => []Issuance!ETypeOK
<1> USE ConstantTypes
<1>1. Issuance!EInit => Issuance!ETypeOK
  BY DEF Issuance!EInit, Issuance!ETypeOK
<1>2. Issuance!ETypeOK /\ [Issuance!ENext]_(Issuance!evars) => Issuance!ETypeOK'
  <2> SUFFICES ASSUME Issuance!ETypeOK, [Issuance!ENext]_(Issuance!evars)
               PROVE  Issuance!ETypeOK'
    OBVIOUS
  <2>1. /\ block_height \in Nat /\ openReward \in Nat /\ cumulative_mined \in Nat
        /\ roundsLeft \in 1..HALVING_INTERVAL_BLOCKS
    BY DEF Issuance!ETypeOK, openReward, roundsLeft
  <2>2. CASE UNCHANGED Issuance!evars
    BY <2>1, <2>2 DEF Issuance!evars, Issuance!ETypeOK, openReward, roundsLeft
  <2>3. CASE Issuance!ENext
    <3>1. /\ block_height' = block_height + 1
          /\ IF roundsLeft = 1
             THEN openReward' = openReward \div 2 /\ roundsLeft' = HALVING_INTERVAL_BLOCKS
             ELSE openReward' = openReward /\ roundsLeft' = roundsLeft - 1
          /\ cumulative_mined' \in {cumulative_mined, cumulative_mined + openReward}
      BY <2>3 DEF Issuance!ENext, Issuance!PayRound, Issuance!SkipRound,
                  Issuance!CloseRound, openReward, roundsLeft
    <3>2. /\ block_height' \in Nat /\ openReward' \in Nat /\ cumulative_mined' \in Nat
          /\ roundsLeft' \in 1..HALVING_INTERVAL_BLOCKS
      BY <2>1, <3>1
    <3>. QED BY <3>2 DEF Issuance!ETypeOK, openReward, roundsLeft
  <2>. QED BY <2>2, <2>3
<1>. QED BY <1>1, <1>2, PTL DEF Issuance!ESpec

(* The inductive invariant of the issuance specification: the whole        *)
(* remaining schedule stays affordable, whether rounds pay or not.         *)
THEOREM BudgetInvariant == Issuance!ESpec => []Issuance!Budget
<1> USE ConstantTypes
<1>0. wholeSupply \in Nat
  BY DEF wholeSupply
<1>1. Issuance!EInit => Issuance!Budget
  <2> SUFFICES ASSUME Issuance!EInit PROVE Issuance!Budget
    OBVIOUS
  <2>1. /\ openReward = INITIAL_BLOCK_REWARD_BASE
        /\ roundsLeft = HALVING_INTERVAL_BLOCKS /\ cumulative_mined = 0
    BY DEF Issuance!EInit, openReward, roundsLeft
  <2>2. cumulative_mined + openReward * roundsLeft + openReward * HALVING_INTERVAL_BLOCKS
          <= 2 * HALVING_INTERVAL_BLOCKS * INITIAL_BLOCK_REWARD_BASE
    BY <2>1
  <2>. QED BY <2>2 DEF Issuance!Budget, openReward, roundsLeft
<1>2. Issuance!ETypeOK /\ Issuance!Budget /\ [Issuance!ENext]_(Issuance!evars)
        => Issuance!Budget'
  <2> SUFFICES ASSUME Issuance!ETypeOK, Issuance!Budget,
                      [Issuance!ENext]_(Issuance!evars)
               PROVE  Issuance!Budget'
    OBVIOUS
  <2>1. CASE UNCHANGED Issuance!evars
    BY <2>1 DEF Issuance!evars, Issuance!Budget
  <2>2. CASE Issuance!ENext
    <3>1. /\ openReward \in Nat /\ cumulative_mined \in Nat
          /\ roundsLeft \in 1..HALVING_INTERVAL_BLOCKS
          /\ cumulative_mined + openReward * roundsLeft
               + openReward * HALVING_INTERVAL_BLOCKS <= wholeSupply
      BY DEF Issuance!ETypeOK, Issuance!Budget, openReward, roundsLeft, wholeSupply
    <3>2. /\ IF roundsLeft = 1
             THEN openReward' = openReward \div 2 /\ roundsLeft' = HALVING_INTERVAL_BLOCKS
             ELSE openReward' = openReward /\ roundsLeft' = roundsLeft - 1
          /\ cumulative_mined' \in {cumulative_mined, cumulative_mined + openReward}
      BY <2>2 DEF Issuance!ENext, Issuance!PayRound, Issuance!SkipRound,
                  Issuance!CloseRound, openReward, roundsLeft
    <3>3. cumulative_mined' \in Nat /\ cumulative_mined' <= cumulative_mined + openReward
      BY <3>1, <3>2
    <3>4. cumulative_mined' + openReward' * roundsLeft'
            + openReward' * HALVING_INTERVAL_BLOCKS <= wholeSupply
      BY <1>0, <3>1, <3>2, <3>3, BudgetArithmetic
    <3>. QED BY <3>4 DEF Issuance!Budget, openReward, roundsLeft, wholeSupply
  <2>. QED BY <2>1, <2>2
<1>. QED BY <1>1, <1>2, IssuanceType, PTL DEF Issuance!ESpec

(* However many rounds are paid or skipped, what has been issued stays     *)
(* within the cap, for every reward and epoch length (MINEABLE_BASE).      *)
THEOREM IssuanceCapped == Issuance!ESpec => []Issuance!IssuedBounded
<1>1. Issuance!ETypeOK /\ Issuance!Budget => Issuance!IssuedBounded
  <2>. SUFFICES ASSUME Issuance!ETypeOK, Issuance!Budget PROVE Issuance!IssuedBounded
    OBVIOUS
  <2>1. /\ openReward \in Nat /\ cumulative_mined \in Nat
        /\ roundsLeft \in 1..HALVING_INTERVAL_BLOCKS
        /\ cumulative_mined + openReward * roundsLeft
             + openReward * HALVING_INTERVAL_BLOCKS <= wholeSupply
    BY DEF Issuance!ETypeOK, Issuance!Budget, openReward, roundsLeft, wholeSupply
  <2>2. /\ openReward * roundsLeft \in Nat /\ openReward * HALVING_INTERVAL_BLOCKS \in Nat
        /\ wholeSupply \in Nat
    BY <2>1, ConstantTypes DEF wholeSupply
  <2>3. cumulative_mined <= wholeSupply
    BY <2>1, <2>2
  <2>. QED BY <2>3 DEF Issuance!IssuedBounded, wholeSupply
<1>. QED BY <1>1, BudgetInvariant, IssuanceType, PTL

(* A closed round is one step of the issuance specification, a paid one    *)
(* when cumulative_mined grew by the reward and a skipped one otherwise.   *)
LEMMA RoundIsIssuanceStep ==
    ASSUME TypeOK, IInv, initialized, initialized',
           NEW w \in Miners \union {Nobody}, advance_round(w)
    PROVE  Issuance!CloseRound
<1>1. NextBoundaries
  BY DEF IInv
<1>. QED BY <1>1, RoundClosed DEF Issuance!CloseRound

(* Every transaction is an issuance step or invisible to it: initialize    *)
(* fills in the genesis values, mine pays, advance_empty_round skips.      *)
LEMMA IssuanceStep ==
    TypeOK /\ IInv /\ [Next]_vars => [Issuance!ENext]_(Issuance!evars)
<1> SUFFICES ASSUME TypeOK, IInv, [Next]_vars
             PROVE  [Issuance!ENext]_(Issuance!evars)
  OBVIOUS
<1>1. ASSUME NEW w \in Wallets, NEW t \in Targets, Initialize(w, t)
      PROVE  UNCHANGED Issuance!evars
  <2>1. block_height = 0 /\ cumulative_mined = 0
    BY <1>1 DEF IInv, ClosedIsGenesis, Initialize
  <2>2. HALVING_INTERVAL_BLOCKS - 0 = HALVING_INTERVAL_BLOCKS
    BY ConstantTypes
  <2>. QED BY <1>1, <2>1, <2>2 DEF Initialize, Issuance!evars
<1>2. ASSUME NEW m \in Miners, NEW s \in Solutions, Mine(m, s)
      PROVE  Issuance!ENext
  <2>1. initialized /\ initialized' /\ advance_round(m) /\ m \in Miners \union {Nobody}
    BY <1>2 DEF Mine, launch
  <2>2. Issuance!CloseRound
    BY <2>1, RoundIsIssuanceStep
  <2>. QED BY <1>2, <2>1, <2>2 DEF Mine, Issuance!ENext, Issuance!PayRound
<1>3. CASE AdvanceEmptyRound
  <2>1. /\ initialized /\ initialized' /\ advance_round(Nobody)
        /\ Nobody \in Miners \union {Nobody} /\ cumulative_mined' = cumulative_mined
    BY <1>3 DEF AdvanceEmptyRound, launch
  <2>2. Issuance!CloseRound
    BY <2>1, RoundIsIssuanceStep
  <2>. QED BY <2>1, <2>2 DEF Issuance!ENext, Issuance!SkipRound
<1>4. ASSUME NEW w \in Wallets,
             \/ FundVault(w)
             \/ RenounceAdmin(w)
             \/ \E t \in Targets : SetTarget(w, t)
             \/ \E h \in Holders, n \in Transfers : SplTransfer(w, h, n)
      PROVE  UNCHANGED Issuance!evars
  BY <1>4 DEF FundVault, RenounceAdmin, SetTarget, SplTransfer, launch, round,
     schedule, Issuance!evars
<1>5. ASSUME NEW d \in TsSteps, Tick(d) PROVE UNCHANGED Issuance!evars
  BY <1>5 DEF Tick, launch, round, schedule, Issuance!evars
<1>6. CASE UNCHANGED vars
  BY <1>6 DEF vars, launch, round, schedule, Issuance!evars
<1>. QED BY <1>1, <1>2, <1>3, <1>4, <1>5, <1>6 DEF Next

(* Whatever miners, admin and clock do, heights, rewards and               *)
(* cumulative_mined evolve as the issuance specification allows.           *)
THEOREM ProgramImplementsIssuance == Spec => ImplementsIssuance
<1>1. Init => Issuance!EInit
  BY DEF Init, Issuance!EInit
<1>. QED BY <1>1, IssuanceStep, TypeCorrect, InvariantHolds, PTL
         DEF Spec, ImplementsIssuance, Issuance!ESpec

(* Lifted from the issuance specification: what is mined plus the whole    *)
(* remaining schedule never exceeds the cap, whoever mines when.           *)
THEOREM ScheduleAlwaysFits == Spec => []ScheduleFitsCap
<1>1. Spec => []Issuance!Budget
  BY ProgramImplementsIssuance, BudgetInvariant, PTL DEF ImplementsIssuance
<1>2. TypeOK /\ Issuance!Budget => ScheduleFitsCap
  <2>. SUFFICES ASSUME TypeOK, Issuance!Budget, initialized
                PROVE  cumulative_mined
                         + current_epoch_reward * (next_halving_block - block_height)
                         + current_epoch_reward * HALVING_INTERVAL_BLOCKS <= MINEABLE_BASE
    BY DEF ScheduleFitsCap
  <2>. DEFINE spent == cumulative_mined
                       + current_epoch_reward * (next_halving_block - block_height)
                       + current_epoch_reward * HALVING_INTERVAL_BLOCKS
  <2>1. spent <= 2 * HALVING_INTERVAL_BLOCKS * INITIAL_BLOCK_REWARD_BASE
    BY DEF Issuance!Budget
  <2>2. spent \in Int /\ 2 * HALVING_INTERVAL_BLOCKS * INITIAL_BLOCK_REWARD_BASE \in Int
    BY ConstantTypes DEF TypeOK
  <2>. HIDE DEF spent
  <2>3. spent <= MINEABLE_BASE
    BY <2>1, <2>2, ConstantTypes, SupplyAssumption
  <2>. QED BY <2>3 DEF spent
<1>. QED BY <1>1, <1>2, TypeCorrect, PTL

(* The supply cap is never what stops a miner: while the schedule has a    *)
(* reward, mine's SupplyExhausted check passes and the vault can pay.      *)
THEOREM SupplyNeverExhausted == Spec => []NeverExhausted
<1>1. TypeOK /\ IInv /\ ScheduleFitsCap => NeverExhausted
  <2>. SUFFICES ASSUME TypeOK, IInv, ScheduleFitsCap,
                       mining_open, current_epoch_reward > 0
                PROVE  /\ cumulative_mined + current_epoch_reward <= MINEABLE_BASE
                       /\ balance[Vault] >= current_epoch_reward
    BY DEF NeverExhausted
  <2>. DEFINE r == current_epoch_reward
              left == next_halving_block - block_height
  <2>1. initialized /\ left \in 1..HALVING_INTERVAL_BLOCKS /\ r \in Nat
    BY DEF IInv, ClosedIsGenesis, NextBoundaries, TypeOK
  <2>2. r * left >= r * 1 /\ r * left \in Nat /\ r * HALVING_INTERVAL_BLOCKS \in Nat
    BY <2>1, ConstantTypes
  <2>3. cumulative_mined + r * left + r * HALVING_INTERVAL_BLOCKS <= MINEABLE_BASE
    BY <2>1 DEF ScheduleFitsCap
  <2>4. cumulative_mined \in Nat /\ balance[Vault] \in Nat
    BY DEF TypeOK, Holders
  <2>5. cumulative_mined + r <= MINEABLE_BASE
    BY <2>1, <2>2, <2>3, <2>4, ConstantTypes
  <2>6. balance[Vault] + cumulative_mined >= MINEABLE_BASE
    BY DEF IInv, VaultCoversCap
  <2>. QED BY <2>1, <2>4, <2>5, <2>6, ConstantTypes
<1>. QED BY <1>1, TypeCorrect, InvariantHolds, ScheduleAlwaysFits, PTL

-----------------------------------------------------------------------------
(* What a step may never do.                                               *)

(* Closing a round obeys RetargetStep, on a boundary and off it.           *)
LEMMA RoundRetargets ==
    ASSUME TypeOK, NEW w \in Miners \union {Nobody}, advance_round(w)
    PROVE  RetargetStep
<1> USE ConstantTypes
<1> DEFINE window == unix_timestamp - last_retarget_unix_ts
           h == block_height + 1
           t == current_target
           sec == IF window < 0 THEN 0 ELSE window
<1>1. block_height' = h /\ Retarget(h)
  BY DEF advance_round
<1>2. t \in 0..MAX_TARGET /\ t \in Nat /\ window \in Int /\ sec \in Nat
  BY DEF TypeOK
<1>3. CASE is_retarget_boundary(h)
  <2>1. current_target' = next_target(t, sec)
    BY <1>1, <1>3 DEF Retarget
  <2>2. /\ current_target' <= 2 * t /\ current_target' >= t \div 2
        /\ sec <= RETARGET_TARGET_SECONDS => current_target' <= t
        /\ sec >= RETARGET_TARGET_SECONDS => current_target' >= t
    BY <1>2, <2>1, NextTargetDamped
  <2>3. /\ window <= RETARGET_TARGET_SECONDS => sec <= RETARGET_TARGET_SECONDS
        /\ window >= RETARGET_TARGET_SECONDS => sec >= RETARGET_TARGET_SECONDS
    BY <1>2, DifficultyAssumption
  <2>4. current_target' \in 0..MAX_TARGET
    BY <1>2, <2>1, NextTargetDamped
  <2>. QED BY <1>1, <1>2, <1>3, <2>2, <2>3, <2>4 DEF RetargetStep
<1>4. CASE ~is_retarget_boundary(h)
  <2>1. current_target' = t
    BY <1>1, <1>4 DEF Retarget
  <2>2. t \div 2 <= t /\ t <= 2 * t
    BY <1>2
  <2>. QED BY <1>2, <2>1, <2>2 DEF RetargetStep
<1>. QED BY <1>3, <1>4

(* However rounds close and however the clock behaves, one window never    *)
(* moves the target past the damping clamp or against its own duration.    *)
THEOREM RetargetsDamped == Spec => RetargetDamped
<1>1. TypeOK /\ IInv /\ [Next]_vars => [initialized => RetargetStep]_vars
  <2>. SUFFICES ASSUME TypeOK, IInv, Next, initialized PROVE RetargetStep
    OBVIOUS
  <2>1. ASSUME NEW m \in Miners, NEW s \in Solutions, Mine(m, s) PROVE RetargetStep
    BY <2>1, RoundRetargets DEF Mine
  <2>2. CASE AdvanceEmptyRound
    BY <2>2, RoundRetargets DEF AdvanceEmptyRound
  <2>3. ASSUME NEW w \in Wallets,
               \/ \E t \in Targets : Initialize(w, t)
               \/ FundVault(w)
               \/ RenounceAdmin(w)
               \/ \E t \in Targets : SetTarget(w, t)
               \/ \E h \in Holders, n \in Transfers : SplTransfer(w, h, n)
        PROVE  RetargetStep
    BY <2>3 DEF Initialize, FundVault, RenounceAdmin, SetTarget, SplTransfer, round,
       RetargetStep
  <2>4. ASSUME NEW d \in TsSteps, Tick(d) PROVE RetargetStep
    BY <2>4 DEF Tick, round, RetargetStep
  <2>. QED BY <2>1, <2>2, <2>3, <2>4 DEF Next
<1>. QED BY <1>1, TypeCorrect, InvariantHolds, PTL DEF Spec, RetargetDamped

(* After renounce_admin only a retarget moves the target, and a program    *)
(* that was never funded stays closed for good.                            *)
THEOREM RenouncingIsFinal == Spec => RenouncedTarget /\ RenouncedUnfunded
<1>1. TypeOK /\ IInv /\ [Next]_vars => [RenouncedStep]_vars /\ [UnfundedStep]_vars
  <2>. SUFFICES ASSUME TypeOK, IInv, Next, admin_renounced
                PROVE  RenouncedStep /\ UnfundedStep
    BY DEF RenouncedStep, UnfundedStep
  <2>0. initialized /\ admin # Admin /\ \A w \in Wallets : w # admin
    BY KeysAssumption DEF IInv, ClosedIsGenesis, TypeOK, Holders
  <2>1. ASSUME NEW m \in Miners, NEW s \in Solutions, Mine(m, s)
        PROVE  RenouncedStep /\ UnfundedStep
    BY <2>1 DEF Mine, advance_round, Retarget, RenouncedStep, UnfundedStep
  <2>2. CASE AdvanceEmptyRound
    BY <2>2 DEF AdvanceEmptyRound, advance_round, Retarget, RenouncedStep, UnfundedStep
  <2>3. ASSUME NEW w \in Wallets,
               \/ \E t \in Targets : Initialize(w, t)
               \/ FundVault(w)
               \/ RenounceAdmin(w)
               \/ \E t \in Targets : SetTarget(w, t)
        PROVE  FALSE
    BY <2>0, <2>3 DEF Initialize, FundVault, RenounceAdmin, SetTarget
  <2>4. ASSUME NEW w \in Wallets, NEW h \in Holders, NEW n \in Transfers,
               SplTransfer(w, h, n)
        PROVE  RenouncedStep /\ UnfundedStep
    BY <2>4 DEF SplTransfer, launch, round, RenouncedStep, UnfundedStep
  <2>5. ASSUME NEW d \in TsSteps, Tick(d) PROVE RenouncedStep /\ UnfundedStep
    BY <2>5 DEF Tick, launch, round, RenouncedStep, UnfundedStep
  <2>. QED BY <2>1, <2>2, <2>3, <2>4, <2>5 DEF Next
<1>. QED BY <1>1, TypeCorrect, InvariantHolds, PTL
         DEF Spec, RenouncedTarget, RenouncedUnfunded

-----------------------------------------------------------------------------
(* The target in bytes.  First what digits write, and limbs of them.       *)

LEMMA TargetTypes ==
    /\ Byte \in Nat \ {0} /\ Byte >= 2
    /\ WordBytes \in Nat \ {0} /\ Bytes \in Nat \ {0} /\ Bytes = 4 * WordBytes
    /\ MAX_TARGET \in Nat /\ RETARGET_TARGET_SECONDS \in Nat \ {0}
BY TargetAssumption, DifficultyAssumption DEF Bytes

LEMMA PowerFacts ==
    /\ Power[0] = 1
    /\ \A k \in Nat : Power[k] \in Nat \ {0} /\ Power[k + 1] = Byte * Power[k]
<1>1. Power = CHOOSE f : PowersOf(Byte, f)
  BY DEF Power, PowersOf
<1>2. Byte \in Int
  BY TargetTypes
<1> DEFINE f == Power
<1> HIDE DEF f
<1>3. f = CHOOSE g : PowersOf(Byte, g)
  BY <1>1 DEF f
<1>4. f[0] = 1 /\ \A k \in Nat : f[k + 1] = Byte * f[k]
  BY <1>2, <1>3, Powers
<1> DEFINE N == {k \in Nat : f[k] \in Nat \ {0}}
<1>5. 0 \in N
  BY <1>4
<1>6. ASSUME NEW k \in Nat, k \in N PROVE k + 1 \in N
  <2>1. f[k + 1] = Byte * f[k] /\ f[k] \in Nat \ {0} /\ Byte \in Nat \ {0}
    BY <1>4, <1>6, TargetTypes
  <2>. QED BY <2>1
<1> HIDE DEF N
<1>7. \A k \in Nat : k \in N
  BY <1>5, <1>6, NatSetInduction
<1>. QED BY <1>4, <1>7 DEF N, f

(* A number grows by a digit at its end.                                   *)
LEMMA NumberUnfolds ==
    ASSUME NEW x, NEW n \in Nat
    PROVE  \E g : /\ LinearUpTo(Byte, 0, x, g, n)
                  /\ \A m \in 0 .. n : Number(x, m) = g[m]
<1> DEFINE Equation(f, m) == f = [i \in 0 .. m |-> IF i = 0 THEN 0
                                                   ELSE Byte * f[i - 1] + x[i - 1]]
           F(m) == CHOOSE f : Equation(f, m)
<1>1. ASSUME NEW m \in Nat PROVE LinearUpTo(Byte, 0, x, F(m), m)
  <2>1. PICK g : LinearUpTo(Byte, 0, x, g, m)
    BY LinearExists
  <2> DEFINE h == [i \in 0 .. m |-> g[i]]
  <2>2. \A i \in 0 .. m : g[i] = IF i = 0 THEN 0 ELSE Byte * g[i - 1] + x[i - 1]
    <3> SUFFICES ASSUME NEW i \in 0 .. m, i # 0 PROVE g[i] = Byte * g[i - 1] + x[i - 1]
      BY <2>1 DEF LinearUpTo
    <3>1. i - 1 \in 0 .. m - 1 /\ (i - 1) + 1 = i
      OBVIOUS
    <3>. QED BY <2>1, <3>1 DEF LinearUpTo
  <2>3. \A i \in 0 .. m : /\ h[i] = g[i]
                          /\ i # 0 => h[i - 1] = g[i - 1]
    OBVIOUS
  <2>4. Equation(h, m)
    BY <2>2, <2>3
  <2> HIDE DEF h
  <2>5. Equation(F(m), m)
    <3> HIDE DEF Equation
    <3>. QED BY <2>4
  <2> HIDE DEF F
  <2> DEFINE f == F(m)
  <2> HIDE DEF f
  <2>6. f = [i \in 0 .. m |-> IF i = 0 THEN 0 ELSE Byte * f[i - 1] + x[i - 1]]
    BY <2>5 DEF f
  <2>7. f[0] = 0
    BY <2>6
  <2>8. ASSUME NEW k \in 0 .. m - 1 PROVE f[k + 1] = Byte * f[k] + x[k]
    <3>1. k + 1 \in 0 .. m /\ k + 1 # 0 /\ (k + 1) - 1 = k
      OBVIOUS
    <3>. QED BY <2>6, <3>1
  <2>. QED BY <2>7, <2>8 DEF LinearUpTo, f
<1>2. \A m \in Nat : Number(x, m) = F(m)[m]
  BY DEF Number
<1> HIDE DEF F
<1>3. ASSUME NEW m \in 0 .. n PROVE Number(x, m) = F(n)[m]
  <2>1. LinearUpTo(Byte, 0, x, F(n), m)
    <3>1. \A k \in 0 .. m - 1 : k \in 0 .. n - 1
      OBVIOUS
    <3>2. LinearUpTo(Byte, 0, x, F(n), n)
      BY <1>1
    <3>. QED BY <3>1, <3>2 DEF LinearUpTo
  <2>2. LinearUpTo(Byte, 0, x, F(m), m) /\ m \in Nat /\ m \in 0 .. m
    BY <1>1
  <2>3. F(n)[m] = F(m)[m]
    <3> DEFINE zero == 0
    <3>1. LinearUpTo(Byte, zero, x, F(n), m) /\ LinearUpTo(Byte, zero, x, F(m), m)
      BY <2>1, <2>2
    <3> HIDE DEF zero
    <3>. QED BY <2>2, <3>1, LinearAgrees
  <2>. QED BY <1>2, <2>2, <2>3
<1>. QED BY <1>1, <1>3

LEMMA NumberFacts ==
    ASSUME NEW x, NEW n \in Nat, \A i \in 0 .. n - 1 : x[i] \in Nat
    PROVE  /\ Number(x, 0) = 0
           /\ \A m \in 0 .. n : Number(x, m) \in Nat
           /\ \A m \in 0 .. n - 1 : Number(x, m + 1) = Byte * Number(x, m) + x[m]
<1>1. PICK g : /\ LinearUpTo(Byte, 0, x, g, n)
               /\ \A m \in 0 .. n : Number(x, m) = g[m]
  BY NumberUnfolds
<1>2. /\ 0 \in 0 .. n
      /\ \A m \in 0 .. n - 1 : m \in 0 .. n /\ m + 1 \in 0 .. n
  OBVIOUS
<1>3. g[0] = 0 /\ \A m \in 0 .. n - 1 : g[m + 1] = Byte * g[m] + x[m]
  BY <1>1 DEF LinearUpTo
<1> DEFINE N == {m \in Nat : m <= n => g[m] \in Nat}
<1>4. 0 \in N
  BY <1>3
<1>5. ASSUME NEW m \in Nat, m \in N PROVE m + 1 \in N
  <2> SUFFICES ASSUME m + 1 <= n PROVE g[m + 1] \in Nat
    OBVIOUS
  <2>1. m \in 0 .. n - 1 /\ g[m] \in Nat /\ Byte \in Nat
    BY <1>5, TargetTypes
  <2>2. g[m + 1] = Byte * g[m] + x[m] /\ x[m] \in Nat
    BY <1>3, <2>1
  <2>. QED BY <2>1, <2>2
<1> HIDE DEF N
<1>6. \A m \in Nat : m \in N
  BY <1>4, <1>5, NatSetInduction
<1>7. \A m \in 0 .. n : g[m] \in Nat
  BY <1>6 DEF N
<1>. QED BY <1>1, <1>2, <1>3, <1>7

(* The digits from place a on, read by themselves.                         *)
LEMMA NumberSplits ==
    ASSUME NEW x, NEW y, NEW a \in Nat, NEW n \in Nat,
           \A i \in 0 .. (a + n) - 1 : x[i] \in Nat,
           \A j \in 0 .. n - 1 : y[j] = x[a + j]
    PROVE  /\ Number(x, a + n) = Power[n] * Number(x, a) + Number(y, n)
           /\ Number(x, a) \in Nat /\ Number(y, n) \in Nat
<1>1. \A j \in 0 .. n - 1 : y[j] \in Nat
  OBVIOUS
<1>2. Number(x, a) \in Nat
  <2>1. a + n \in Nat /\ a \in 0 .. (a + n)
    OBVIOUS
  <2>. QED BY <2>1, NumberFacts
<1>3. Number(y, n) \in Nat
  <2>1. n \in 0 .. n
    OBVIOUS
  <2>. QED BY <1>1, <2>1, NumberFacts
<1> DEFINE X == Number(x, a)
           N == {m \in Nat : m <= n => Number(x, a + m) = Power[m] * X + Number(y, m)}
<1> HIDE DEF X
<1>4. 0 \in N
  <2>1. Number(y, 0) = 0 /\ a + 0 = a /\ Power[0] = 1
    BY <1>1, NumberFacts, PowerFacts
  <2>2. X \in Nat
    BY <1>2 DEF X
  <2>3. 1 * X + 0 = X
    BY <2>2
  <2>. QED BY <2>1, <2>3 DEF X
<1>5. ASSUME NEW m \in Nat, m \in N PROVE m + 1 \in N
  <2> SUFFICES ASSUME m + 1 <= n
               PROVE  Number(x, a + (m + 1)) = Power[m + 1] * X + Number(y, m + 1)
    OBVIOUS
  <2>1. /\ a + n \in Nat /\ a + m \in 0 .. (a + n) - 1 /\ m \in 0 .. n - 1 /\ m \in 0 .. n
        /\ a + (m + 1) = (a + m) + 1
    OBVIOUS
  <2>2. Number(x, (a + m) + 1) = Byte * Number(x, a + m) + x[a + m]
    BY <2>1, NumberFacts
  <2>3. Number(y, m + 1) = Byte * Number(y, m) + y[m] /\ Number(y, m) \in Nat
    BY <1>1, <2>1, NumberFacts
  <2>4. Number(x, a + m) = Power[m] * X + Number(y, m)
    BY <1>5
  <2>5. Power[m + 1] = Byte * Power[m] /\ Power[m] \in Nat
    BY PowerFacts
  <2>6. X \in Nat /\ Byte \in Nat /\ y[m] = x[a + m] /\ y[m] \in Nat
    BY <1>1, <1>2, <2>1, TargetTypes DEF X
  <2>7. Byte * (Power[m] * X + Number(y, m)) = (Byte * Power[m]) * X + Byte * Number(y, m)
    BY <2>3, <2>5, <2>6, Regroup
  <2> DEFINE Q == (Byte * Power[m]) * X
             Z == Byte * Number(y, m)
  <2>8. Q \in Nat /\ Z \in Nat
    BY <2>3, <2>5, <2>6
  <2> HIDE DEF Q, Z
  <2>9. Number(x, a + (m + 1)) = (Q + Z) + y[m]
    BY <2>1, <2>2, <2>4, <2>6, <2>7 DEF Q, Z
  <2>10. Number(y, m + 1) = Z + y[m] /\ Power[m + 1] * X = Q
    BY <2>3, <2>5 DEF Q, Z
  <2>. QED BY <2>6, <2>8, <2>9, <2>10
<1> HIDE DEF N
<1>6. \A m \in Nat : m \in N
  BY <1>4, <1>5, NatSetInduction
<1>7. Number(x, a + n) = Power[n] * X + Number(y, n)
  BY <1>6 DEF N
<1>. QED BY <1>2, <1>3, <1>7 DEF X

LEMMA NumberAgrees ==
    ASSUME NEW x, NEW y, NEW n \in Nat, \A i \in 0 .. n - 1 : x[i] \in Nat /\ y[i] = x[i]
    PROVE  Number(x, n) = Number(y, n)
<1>1. (\A i \in 0 .. n - 1 : x[i] \in Nat) /\ (\A i \in 0 .. n - 1 : y[i] \in Nat)
  OBVIOUS
<1> DEFINE N == {m \in Nat : m <= n => Number(x, m) = Number(y, m)}
<1>2. 0 \in N
  BY <1>1, NumberFacts
<1>3. ASSUME NEW m \in Nat, m \in N PROVE m + 1 \in N
  <2> SUFFICES ASSUME m + 1 <= n PROVE Number(x, m + 1) = Number(y, m + 1)
    OBVIOUS
  <2>1. m \in 0 .. n - 1
    OBVIOUS
  <2>2. /\ Number(x, m + 1) = Byte * Number(x, m) + x[m]
        /\ Number(y, m + 1) = Byte * Number(y, m) + y[m]
    BY <1>1, <2>1, NumberFacts
  <2>. QED BY <1>3, <2>1, <2>2
<1> HIDE DEF N
<1>4. \A m \in Nat : m \in N
  BY <1>2, <1>3, NatSetInduction
<1>. QED BY <1>4 DEF N

LEMMA NumberBounded ==
    ASSUME NEW x, NEW n \in Nat, \A i \in 0 .. n - 1 : x[i] \in 0 .. Byte - 1
    PROVE  Number(x, n) \in 0 .. Power[n] - 1
<1>1. \A i \in 0 .. n - 1 : x[i] \in Nat
  BY TargetTypes
<1> DEFINE N == {m \in Nat : m <= n => Number(x, m) < Power[m]}
<1>2. 0 \in N
  <2>1. Number(x, 0) = 0 /\ Power[0] = 1
    BY <1>1, NumberFacts, PowerFacts
  <2>. QED BY <2>1
<1>3. ASSUME NEW m \in Nat, m \in N PROVE m + 1 \in N
  <2> SUFFICES ASSUME m + 1 <= n PROVE Number(x, m + 1) < Power[m + 1]
    OBVIOUS
  <2>1. m \in 0 .. n - 1 /\ m \in 0 .. n
    OBVIOUS
  <2>2. /\ Number(x, m + 1) = Byte * Number(x, m) + x[m]
        /\ Number(x, m) \in Nat /\ Number(x, m) < Power[m]
    BY <1>1, <1>3, <2>1, NumberFacts
  <2>3. Power[m + 1] = Byte * Power[m] /\ Power[m] \in Nat
    BY PowerFacts
  <2>4. Byte \in Nat \ {0} /\ x[m] \in 0 .. Byte - 1
    BY <2>1, TargetTypes
  <2>5. Byte * Number(x, m) + x[m] < Byte * Power[m]
    BY <2>2, <2>3, <2>4, DigitOrder
  <2>. QED BY <2>2, <2>3, <2>5
<1> HIDE DEF N
<1>4. \A m \in Nat : m \in N
  BY <1>2, <1>3, NatSetInduction
<1>5. n \in 0 .. n /\ Number(x, n) < Power[n]
  BY <1>4 DEF N
<1>6. Number(x, n) \in Nat /\ Power[n] \in Nat
  BY <1>1, <1>5, NumberFacts, PowerFacts
<1>. QED BY <1>5, <1>6

(* Bytes are compared like the numbers they write, at any length.          *)
LessUpTo(x, y, n) == \E i \in 0 .. n - 1 : x[i] < y[i] /\ \A j \in 0 .. i - 1 : x[j] = y[j]

LEMMA LexicographicOrder ==
    ASSUME NEW x, NEW y, NEW n \in Nat,
           \A i \in 0 .. n - 1 : x[i] \in 0 .. Byte - 1 /\ y[i] \in 0 .. Byte - 1
    PROVE  LessUpTo(x, y, n) <=> Number(x, n) < Number(y, n)
<1>1. /\ \A i \in 0 .. n - 1 : x[i] \in Nat
      /\ \A i \in 0 .. n - 1 : y[i] \in Nat
  BY TargetTypes
<1> DEFINE Same(m) == \A j \in 0 .. m - 1 : x[j] = y[j]
           N == {m \in Nat : m <= n => /\ LessUpTo(x, y, m) <=> Number(x, m) < Number(y, m)
                                       /\ Same(m) <=> Number(x, m) = Number(y, m)}
<1>2. 0 \in N
  <2>1. Number(x, 0) = 0 /\ Number(y, 0) = 0
    BY <1>1, NumberFacts
  <2>2. ~LessUpTo(x, y, 0) /\ Same(0)
    BY DEF LessUpTo
  <2>. QED BY <2>1, <2>2
<1>3. ASSUME NEW m \in Nat, m \in N PROVE m + 1 \in N
  <2> SUFFICES ASSUME m + 1 <= n
               PROVE  /\ LessUpTo(x, y, m + 1) <=> Number(x, m + 1) < Number(y, m + 1)
                      /\ Same(m + 1) <=> Number(x, m + 1) = Number(y, m + 1)
    OBVIOUS
  <2>1. m \in 0 .. n - 1 /\ m \in 0 .. n
    OBVIOUS
  <2>2. /\ Number(x, m + 1) = Byte * Number(x, m) + x[m] /\ Number(x, m) \in Nat
        /\ Number(y, m + 1) = Byte * Number(y, m) + y[m] /\ Number(y, m) \in Nat
    BY <1>1, <2>1, NumberFacts
  <2>3. x[m] \in 0 .. Byte - 1 /\ y[m] \in 0 .. Byte - 1 /\ Byte \in Nat \ {0}
    BY <2>1, TargetTypes
  <2>4. /\ Number(x, m + 1) < Number(y, m + 1) <=>
               \/ Number(x, m) < Number(y, m)
               \/ Number(x, m) = Number(y, m) /\ x[m] < y[m]
        /\ Number(x, m + 1) = Number(y, m + 1) <=> Number(x, m) = Number(y, m) /\ x[m] = y[m]
    <3> DEFINE X == Number(x, m)
               Y == Number(y, m)
               c == x[m]
               d == y[m]
    <3> HIDE DEF X, Y, c, d
    <3>1. X \in Nat /\ Y \in Nat /\ c \in 0 .. Byte - 1 /\ d \in 0 .. Byte - 1
      BY <2>2, <2>3 DEF X, Y, c, d
    <3>2. /\ Byte * X + c < Byte * Y + d <=> X < Y \/ (X = Y /\ c < d)
          /\ Byte * X + c = Byte * Y + d <=> X = Y /\ c = d
      BY <2>3, <3>1, DigitOrder
    <3>3. Number(x, m + 1) = Byte * X + c /\ Number(y, m + 1) = Byte * Y + d
      BY <2>2 DEF X, Y, c, d
    <3>. QED BY <3>2, <3>3 DEF X, Y, c, d
  <2>5. /\ LessUpTo(x, y, m) <=> Number(x, m) < Number(y, m)
        /\ Same(m) <=> Number(x, m) = Number(y, m)
    BY <1>3
  <2>6. Same(m + 1) <=> Same(m) /\ x[m] = y[m]
    OBVIOUS
  <2>7. LessUpTo(x, y, m + 1) <=> LessUpTo(x, y, m) \/ (Same(m) /\ x[m] < y[m])
    <3>1. \A i : i \in 0 .. (m + 1) - 1 <=> i \in 0 .. m - 1 \/ i = m
      OBVIOUS
    <3>. QED BY <3>1 DEF LessUpTo
  <2> HIDE DEF Same
  <2>. QED BY <2>4, <2>5, <2>6, <2>7
<1> HIDE DEF N
<1>4. \A m \in Nat : m \in N
  BY <1>2, <1>3, NatSetInduction
<1>. QED BY <1>4 DEF N

LEMMA BytesOf ==
    ASSUME NEW s \in ByteStrings
    PROVE  /\ \A i \in 0 .. Bytes - 1 : s[i] \in 0 .. Byte - 1 /\ s[i] \in Nat
           /\ Number(s, Bytes) \in 0 .. MAX_TARGET
<1>1. \A i \in 0 .. Bytes - 1 : s[i] \in 0 .. Byte - 1 /\ s[i] \in Nat
  BY TargetTypes DEF ByteStrings
<1>2. Number(s, Bytes) \in 0 .. Power[Bytes] - 1
  BY <1>1, TargetTypes, NumberBounded
<1>. QED BY <1>1, <1>2, TargetAssumption

THEOREM OrderOfBytes ==
    ASSUME NEW hash \in ByteStrings, NEW target \in ByteStrings
    PROVE  hash_under_bytes(hash, target)
             <=> hash_under_target(Number(hash, Bytes), Number(target, Bytes))
<1>1. \A i \in 0 .. Bytes - 1 : hash[i] \in 0 .. Byte - 1 /\ target[i] \in 0 .. Byte - 1
  BY BytesOf
<1>2. LessUpTo(hash, target, Bytes) <=> Number(hash, Bytes) < Number(target, Bytes)
  BY <1>1, TargetTypes, LexicographicOrder
<1>. QED BY <1>2 DEF LessUpTo, hash_under_bytes, hash_under_target

(* Four limbs.                                                             *)
InWords(l) == \A i \in 0 .. 3 : l[i] \in Words

Joined(l) == Word * (Word * (Word * l[0] + l[1]) + l[2]) + l[3]

LEMMA WordTypes ==
    /\ Word \in Nat \ {0} /\ Word > 2
    /\ RETARGET_TARGET_SECONDS \in Words
    /\ \A w : w \in Words <=> w \in Nat /\ w < Word
BY TargetTypes, TargetAssumption, PowerFacts
   DEF Word, Words, RETARGET_MIN_DEN, RETARGET_MAX_NUM

LEMMA LimbsOf ==
    ASSUME NEW s, NEW l,
           \A i \in 0 .. Bytes - 1 : s[i] \in 0 .. Byte - 1,
           \A i \in 0 .. 3 : l[i] = from_be_bytes(s, i)
    PROVE  InWords(l) /\ Number(s, Bytes) = Joined(l)
<1>1. /\ Byte \in Nat \ {0} /\ WordBytes \in Nat \ {0} /\ Bytes = 4 * WordBytes
      /\ \A i \in 0 .. Bytes - 1 : s[i] \in Nat
  BY TargetTypes
<1> DEFINE N(i) == Number(s, i * WordBytes)
<1>2. ASSUME NEW i \in 0 .. 3
      PROVE  l[i] \in Words /\ N(i + 1) = Word * N(i) + l[i]
  <2> DEFINE a == i * WordBytes
             y == [j \in 0 .. WordBytes - 1 |-> s[a + j]]
  <2>1. a \in Nat /\ a + WordBytes \in Nat /\ (i + 1) * WordBytes = a + WordBytes
    BY <1>1
  <2>2. a + WordBytes <= Bytes
    BY <1>1
  <2>3. l[i] = Number(y, WordBytes)
    BY DEF from_be_bytes
  <2>4. \A j \in 0 .. WordBytes - 1 : y[j] = s[a + j]
    OBVIOUS
  <2> HIDE DEF a, y
  <2>5. \A j \in 0 .. (a + WordBytes) - 1 : s[j] \in Nat
    BY <1>1, <2>1, <2>2
  <2>6. \A j \in 0 .. WordBytes - 1 : y[j] \in 0 .. Byte - 1
    BY <1>1, <2>1, <2>2, <2>4
  <2>7. Number(s, a + WordBytes) = Power[WordBytes] * Number(s, a) + Number(y, WordBytes)
    BY <1>1, <2>1, <2>4, <2>5, NumberSplits
  <2>8. Number(y, WordBytes) \in 0 .. Power[WordBytes] - 1
    BY <1>1, <2>6, NumberBounded
  <2>. QED BY <2>1, <2>3, <2>7, <2>8 DEF Word, Words, a
<1>3. N(0) = 0
  <2>1. 0 * WordBytes = 0
    BY <1>1
  <2>. QED BY <1>1, <2>1, NumberFacts
<1>4. N(4) = Number(s, Bytes)
  BY <1>1
<1> HIDE DEF N
<1>5. /\ N(1) = Word * N(0) + l[0] /\ N(2) = Word * N(1) + l[1]
      /\ N(3) = Word * N(2) + l[2] /\ N(4) = Word * N(3) + l[3]
  <2>1. N(0 + 1) = Word * N(0) + l[0] /\ N(1 + 1) = Word * N(1) + l[1]
        /\ N(2 + 1) = Word * N(2) + l[2] /\ N(3 + 1) = Word * N(3) + l[3]
    BY <1>2
  <2>. QED BY <2>1
<1>6. Word * N(0) + l[0] = l[0]
  <2>1. l[0] \in Words
    BY <1>2
  <2>. QED BY <1>3, <2>1, WordTypes
<1>. QED BY <1>2, <1>4, <1>5, <1>6 DEF Joined, InWords

(* to_be_bytes writes the digits of what from_be_bytes reads.              *)
LEMMA WordWritten ==
    ASSUME NEW w \in Words
    PROVE  /\ \A j \in 0 .. WordBytes - 1 : to_be_bytes(w)[j] \in 0 .. Byte - 1
           /\ Number(to_be_bytes(w), WordBytes) = w
<1> DEFINE y == to_be_bytes(w)
           W == WordBytes
<1>1. W \in Nat \ {0} /\ Byte \in Nat \ {0} /\ w \in Nat /\ w < Power[W]
  BY TargetTypes, WordTypes DEF Word
<1>2. \A j \in 0 .. W - 1 : y[j] = (w \div Power[W - 1 - j]) % Byte
  BY DEF to_be_bytes
<1> HIDE DEF y, W
<1>3. ASSUME NEW j \in 0 .. W - 1
      PROVE  /\ y[j] \in 0 .. Byte - 1
             /\ w \div Power[W - 1 - j] = Byte * (w \div Power[W - j]) + y[j]
  <2> DEFINE P == Power[W - 1 - j]
             t == w \div P
  <2>1. W - 1 - j \in Nat /\ W - j = (W - 1 - j) + 1
    BY <1>1
  <2>2. P \in Nat \ {0} /\ Power[W - j] = Byte * P
    BY <2>1, PowerFacts
  <2> HIDE DEF P
  <2>3. t \in Nat
    BY <1>1, <2>2, DivModFacts
  <2>4. t \div Byte = w \div (Byte * P)
    BY <1>1, <2>2, QuotientOfQuotient
  <2> HIDE DEF t
  <2>5. t % Byte \in 0 .. Byte - 1 /\ t = Byte * (t \div Byte) + (t % Byte)
    BY <1>1, <2>3, DivModFacts
  <2>. QED BY <1>2, <2>2, <2>4, <2>5 DEF t, P
<1>4. \A j \in 0 .. W - 1 : y[j] \in Nat
  BY <1>1, <1>3
<1> DEFINE N == {m \in Nat : m <= W => Number(y, m) = w \div Power[W - m]}
<1>5. 0 \in N
  <2>1. Number(y, 0) = 0 /\ W - 0 = W
    BY <1>1, <1>4, NumberFacts
  <2>2. Power[W] \in Nat \ {0}
    BY <1>1, PowerFacts
  <2>3. w \div Power[W] = 0
    BY <1>1, <2>2
  <2>. QED BY <2>1, <2>3
<1>6. ASSUME NEW m \in Nat, m \in N PROVE m + 1 \in N
  <2> SUFFICES ASSUME m + 1 <= W PROVE Number(y, m + 1) = w \div Power[W - (m + 1)]
    OBVIOUS
  <2>1. m \in 0 .. W - 1 /\ W - (m + 1) = W - 1 - m
    BY <1>1
  <2>2. Number(y, m + 1) = Byte * Number(y, m) + y[m]
    BY <1>1, <1>4, <2>1, NumberFacts
  <2>3. Number(y, m) = w \div Power[W - m]
    BY <1>1, <1>6, <2>1
  <2>. QED BY <1>3, <2>1, <2>2, <2>3
<1> HIDE DEF N
<1>7. \A m \in Nat : m \in N
  BY <1>5, <1>6, NatSetInduction
<1>8. Number(y, W) = w \div Power[0]
  <2>1. W - W = 0 /\ W \in N /\ W \in Nat
    BY <1>1, <1>7
  <2>. QED BY <2>1 DEF N
<1>9. w \div 1 = w
  BY <1>1
<1>. QED BY <1>3, <1>8, <1>9, PowerFacts DEF y, W

(* What is written of the lower four places of a quotient.                 *)
LEMMA WrittenLimbs ==
    ASSUME NEW q, \A i \in 1 .. 4 : q[i] \in Words
    PROVE  /\ Written(q) \in ByteStrings
           /\ Number(Written(q), Bytes) = Joined([i \in 0 .. 3 |-> q[1 + i]])
<1> DEFINE s == Written(q)
           l == [i \in 0 .. 3 |-> q[1 + i]]
           W == WordBytes
<1>1. W \in Nat \ {0} /\ Byte \in Nat \ {0} /\ Bytes = 4 * W
  BY TargetTypes
<1>2. \A i \in 1 .. 4 : Low(q[i]) = q[i]
  BY WordTypes DEF Low
<1>3. ASSUME NEW i \in 0 .. 3, NEW j \in 0 .. W - 1
      PROVE  i * W + j \in 0 .. Bytes - 1 /\ s[i * W + j] = to_be_bytes(q[1 + i])[j]
  <2> DEFINE k == i * W + j
  <2>1. i * W \in Nat /\ i * W <= 3 * W
    BY <1>1
  <2>2. k \in 0 .. Bytes - 1
    BY <1>1, <2>1
  <2>3. i * W = W * i
    BY <1>1
  <2>4. k = W * i + j /\ k \in Nat
    BY <2>1, <2>3
  <2> HIDE DEF k
  <2>5. k \div W = i
    BY <1>1, <2>4, QuotientIs
  <2>6. k % W = j
    <3>1. k = W * (k \div W) + (k % W) /\ k % W \in 0 .. W - 1
      BY <1>1, <2>4, DivModFacts
    <3>. QED BY <1>1, <2>4, <2>5, <3>1
  <2>7. 1 + i \in 1 .. 4
    OBVIOUS
  <2>8. s[k] = to_be_bytes(Low(q[1 + k \div W]))[k % W]
    BY <2>2 DEF Written
  <2>. QED BY <1>2, <2>2, <2>5, <2>6, <2>7, <2>8 DEF k
<1>4. ASSUME NEW k \in 0 .. Bytes - 1 PROVE s[k] \in 0 .. Byte - 1
  <2> DEFINE i == k \div W
             j == k % W
  <2>. k \in Nat
    BY <1>1
  <2>1. k = W * i + j /\ j \in 0 .. W - 1 /\ i \in Nat
    BY <1>1, DivModFacts
  <2>2. s[k] = to_be_bytes(Low(q[1 + i]))[j]
    BY DEF Written
  <2> HIDE DEF i, j
  <2>3. i <= 3
    <3> SUFFICES ASSUME i >= 4 PROVE FALSE
      BY <2>1
    <3>1. W * i >= W * 4
      BY <1>1, <2>1
    <3>. QED BY <1>1, <2>1, <3>1
  <2>4. 1 + i \in 1 .. 4
    BY <2>1, <2>3
  <2>5. s[k] = to_be_bytes(q[1 + i])[j] /\ q[1 + i] \in Words
    BY <1>2, <2>2, <2>4
  <2> HIDE DEF s
  <2>. QED BY <2>1, <2>5, WordWritten DEF W
<1>5. s \in ByteStrings
  BY <1>4 DEF ByteStrings, Written
<1>6. ASSUME NEW i \in 0 .. 3 PROVE l[i] = from_be_bytes(s, i)
  <2> DEFINE x == [j \in 0 .. W - 1 |-> s[i * W + j]]
             y == to_be_bytes(q[1 + i])
  <2>1. 1 + i \in 1 .. 4 /\ l[i] = q[1 + i]
    OBVIOUS
  <2>2. \A j \in 0 .. W - 1 : y[j] \in 0 .. Byte - 1
    BY <2>1, WordWritten
  <2>3. Number(y, W) = q[1 + i]
    BY <2>1, WordWritten
  <2>4. \A j \in 0 .. W - 1 : x[j] = y[j]
    BY <1>3
  <2>5. from_be_bytes(s, i) = Number(x, W)
    BY DEF from_be_bytes
  <2> HIDE DEF x, y
  <2>6. \A j \in 0 .. W - 1 : x[j] \in Nat /\ y[j] = x[j]
    BY <1>1, <2>2, <2>4
  <2>7. Number(x, W) = Number(y, W)
    BY <1>1, <2>6, NumberAgrees
  <2>. QED BY <2>1, <2>3, <2>5, <2>7
<1> HIDE DEF s, l
<1>7. Number(s, Bytes) = Joined(l)
  BY <1>4, <1>6, LimbsOf
<1>. QED BY <1>5, <1>7 DEF s, l

-----------------------------------------------------------------------------
(* The multiplication and the long division.                               *)

(* The carry chain.  The recursions are over five places.                  *)
LEMMA SumsUnfold ==
    ASSUME NEW a
    PROVE  /\ sums(a)[4] = a[4] + 0
           /\ \A i \in 0 .. 3 : sums(a)[i] = a[i] + High(sums(a)[i + 1])
<1> DEFINE Equation(f) ==
              f = [i \in 0 .. 4 |-> a[i] + (IF i = 4 THEN 0 ELSE High(f[i + 1]))]
           v4 == a[4] + 0
           v3 == a[3] + High(v4)
           v2 == a[2] + High(v3)
           v1 == a[1] + High(v2)
           v0 == a[0] + High(v1)
           g == [i \in 0 .. 4 |-> IF i = 4 THEN v4 ELSE IF i = 3 THEN v3
                                  ELSE IF i = 2 THEN v2 ELSE IF i = 1 THEN v1 ELSE v0]
<1>1. Equation(g)
  <2> HIDE DEF v0, v1, v2, v3, v4
  <2>1. g[4] = v4 /\ g[3] = v3 /\ g[2] = v2 /\ g[1] = v1 /\ g[0] = v0
    OBVIOUS
  <2>2. \A i \in 0 .. 4 : i = 0 \/ i = 1 \/ i = 2 \/ i = 3 \/ i = 4
    OBVIOUS
  <2> DEFINE e(i) == a[i] + (IF i = 4 THEN 0 ELSE High(g[i + 1]))
  <2> HIDE DEF g
  <2>3. e(4) = v4 /\ e(3) = v3 /\ e(2) = v2 /\ e(1) = v1 /\ e(0) = v0
    BY <2>1 DEF v0, v1, v2, v3, v4
  <2> HIDE DEF e
  <2>4. \A i \in 0 .. 4 : g[i] = e(i)
    BY <2>1, <2>2, <2>3
  <2>. QED BY <2>4 DEF e, g
<1>2. Equation(sums(a))
  <2>1. sums(a) = CHOOSE f : Equation(f)
    BY DEF sums
  <2> HIDE DEF Equation, g
  <2>. QED BY <1>1, <2>1
<1> DEFINE s == sums(a)
<1> HIDE DEF s
<1>3. s = [i \in 0 .. 4 |-> a[i] + (IF i = 4 THEN 0 ELSE High(s[i + 1]))]
  BY <1>2 DEF s
<1>4. s[4] = a[4] + 0
  BY <1>3
<1>5. ASSUME NEW i \in 0 .. 3 PROVE s[i] = a[i] + High(s[i + 1])
  <2>1. i \in 0 .. 4 /\ i # 4
    OBVIOUS
  <2>. QED BY <1>3, <2>1
<1>. QED BY <1>4, <1>5 DEF s

LEMMA RemaindersUnfold ==
    ASSUME NEW acc, NEW den
    PROVE  LET r == remainders(acc, den)
           IN  /\ r[0] = 0
               /\ \A i \in 0 .. 4 : r[i + 1] = (r[i] * Word + acc[i]) % den
<1> DEFINE Equation(f) ==
              f = [i \in 0 .. 5 |-> IF i = 0 THEN 0 ELSE (f[i - 1] * Word + acc[i - 1]) % den]
           v0 == 0
           v1 == (v0 * Word + acc[0]) % den
           v2 == (v1 * Word + acc[1]) % den
           v3 == (v2 * Word + acc[2]) % den
           v4 == (v3 * Word + acc[3]) % den
           v5 == (v4 * Word + acc[4]) % den
           g == [i \in 0 .. 5 |-> IF i = 5 THEN v5 ELSE IF i = 4 THEN v4
                                  ELSE IF i = 3 THEN v3 ELSE IF i = 2 THEN v2
                                  ELSE IF i = 1 THEN v1 ELSE v0]
<1>1. Equation(g)
  <2> HIDE DEF v0, v1, v2, v3, v4, v5
  <2>1. g[5] = v5 /\ g[4] = v4 /\ g[3] = v3 /\ g[2] = v2 /\ g[1] = v1 /\ g[0] = v0
    OBVIOUS
  <2>2. \A i \in 0 .. 5 : i = 0 \/ i = 1 \/ i = 2 \/ i = 3 \/ i = 4 \/ i = 5
    OBVIOUS
  <2> DEFINE e(i) == IF i = 0 THEN 0 ELSE (g[i - 1] * Word + acc[i - 1]) % den
  <2> HIDE DEF g
  <2>3. /\ e(5) = v5 /\ e(4) = v4 /\ e(3) = v3 /\ e(2) = v2 /\ e(1) = v1 /\ e(0) = v0
    BY <2>1 DEF v0, v1, v2, v3, v4, v5
  <2> HIDE DEF e
  <2>4. \A i \in 0 .. 5 : g[i] = e(i)
    BY <2>1, <2>2, <2>3
  <2>. QED BY <2>4 DEF e, g
<1>2. Equation(remainders(acc, den))
  <2>1. remainders(acc, den) = CHOOSE f : Equation(f)
    BY DEF remainders
  <2> HIDE DEF Equation, g
  <2>. QED BY <1>1, <2>1
<1> DEFINE r == remainders(acc, den)
<1> HIDE DEF r
<1>3. r = [i \in 0 .. 5 |-> IF i = 0 THEN 0 ELSE (r[i - 1] * Word + acc[i - 1]) % den]
  BY <1>2 DEF r
<1>4. r[0] = 0
  BY <1>3
<1>5. ASSUME NEW i \in 0 .. 4 PROVE r[i + 1] = (r[i] * Word + acc[i]) % den
  <2>1. i + 1 \in 0 .. 5 /\ i + 1 # 0 /\ (i + 1) - 1 = i
    OBVIOUS
  <2>. QED BY <1>3, <2>1
<1>. QED BY <1>4, <1>5 DEF r

LEMMA HalvesOf ==
    ASSUME NEW x \in Nat
    PROVE  /\ High(x) \in Nat /\ Low(x) \in 0 .. Word - 1
           /\ x = Word * High(x) + Low(x)
           /\ \A k \in Nat : x < Word * (k + 1) => High(x) <= k
<1>1. Word \in Nat \ {0}
  BY WordTypes
<1>2. /\ High(x) \in Nat /\ Low(x) \in 0 .. Word - 1
      /\ x = Word * High(x) + Low(x)
  BY <1>1, DivModFacts DEF High, Low
<1>3. ASSUME NEW k \in Nat, x < Word * (k + 1) PROVE High(x) <= k
  <2> DEFINE h == High(x)
  <2> SUFFICES ASSUME h >= k + 1 PROVE FALSE
    BY <1>2
  <2>1. Word * h >= Word * (k + 1)
    BY <1>1, <1>2
  <2> DEFINE A == Word * h
             C == Word * (k + 1)
  <2>2. A \in Nat /\ C \in Nat
    BY <1>1, <1>2
  <2>. QED BY <1>2, <1>3, <2>1, <2>2
<1>. QED BY <1>2, <1>3

(* A product of two words is below Word * (Word - 1).                      *)
LEMMA ProductHalves ==
    ASSUME NEW x \in Words, NEW y \in Words
    PROVE  /\ x * y \in Nat
           /\ High(x * y) \in 0 .. Word - 2
<1>1. x \in Nat /\ y \in Nat /\ x <= Word - 1 /\ y <= Word - 1 /\ Word \in Nat \ {0} /\ Word > 2
  BY WordTypes
<1>2. x * y \in Nat /\ x * y <= (Word - 1) * y /\ (Word - 1) * y <= (Word - 1) * (Word - 1)
  BY <1>1
<1>3. (Word - 1) * (Word - 1) < Word * ((Word - 2) + 1)
  <2>1. (Word - 1) * (Word - 1) = Word * (Word - 1) - (Word - 1)
    BY <1>1
  <2>2. (Word - 2) + 1 = Word - 1
    BY <1>1
  <2> DEFINE Z == Word * (Word - 1)
  <2>3. Z \in Int
    BY <1>1
  <2>. QED BY <1>1, <2>1, <2>2, <2>3
<1> DEFINE p == x * y
           m == (Word - 1) * y
           n == (Word - 1) * (Word - 1)
           c == Word * ((Word - 2) + 1)
<1>4. p \in Nat /\ m \in Int /\ n \in Int /\ c \in Int /\ p <= m /\ m <= n /\ n < c
  BY <1>1, <1>2, <1>3
<1> HIDE DEF m, n
<1>5. p < c
  BY <1>4
<1> HIDE DEF p
<1>6. High(p) <= Word - 2 /\ High(p) \in Nat
  <2> DEFINE k == Word - 2
  <2>1. k \in Nat /\ p < Word * (k + 1) /\ p \in Nat
    BY <1>1, <1>4, <1>5
  <2> HIDE DEF k
  <2>2. High(p) <= k /\ High(p) \in Nat
    BY <2>1, HalvesOf
  <2>. QED BY <2>2 DEF k
<1>. QED BY <1>1, <1>2, <1>6 DEF p

(* What the products, aligned and carried, are worth; and that they fit.   *)
Five(a) == Word * (Word * (Word * (Word * a[0] + a[1]) + a[2]) + a[3]) + a[4]

LEMMA CarriedSums ==
    ASSUME NEW l, InWords(l), NEW num \in Words
    PROVE  LET p == aligned([i \in 0 .. 3 |-> l[i] * num])
               acc == carried(p)
           IN  /\ \A i \in 0 .. 4 : /\ sums(p)[i] \in Nat /\ sums(p)[i] < Word * Word
                                    /\ acc[i] \in Words
               /\ Five(acc) = Word * (Word * (Word * (l[0] * num) + l[1] * num) + l[2] * num)
                                 + l[3] * num
<1> DEFINE t == [i \in 0 .. 3 |-> l[i] * num]
           p == aligned(t)
           acc == carried(p)
           s == sums(p)
           h(i) == High(t[i])
           w(i) == Low(t[i])
           c(i) == High(s[i])
<1>0. Word \in Nat \ {0} /\ Word > 2
  BY WordTypes
<1>1. ASSUME NEW i \in 0 .. 3
      PROVE  /\ t[i] = l[i] * num /\ t[i] \in Nat
             /\ h(i) \in 0 .. Word - 2 /\ w(i) \in 0 .. Word - 1
             /\ t[i] = Word * h(i) + w(i)
  <2>1. t[i] = l[i] * num /\ l[i] \in Words
    BY DEF InWords
  <2>2. l[i] * num \in Nat /\ High(l[i] * num) \in 0 .. Word - 2
    BY <2>1, ProductHalves
  <2> HIDE DEF t
  <2>3. t[i] \in Nat /\ h(i) \in 0 .. Word - 2
    BY <2>1, <2>2
  <2>. QED BY <2>1, <2>3, HalvesOf
<1>2. /\ p[0] = 0 + h(0) /\ p[1] = w(0) + h(1) /\ p[2] = w(1) + h(2)
      /\ p[3] = w(2) + h(3) /\ p[4] = w(3) + 0
  <2> HIDE DEF t
  <2>. QED BY DEF aligned
<1>3. /\ s[4] = p[4] + 0 /\ s[3] = p[3] + c(4) /\ s[2] = p[2] + c(3)
      /\ s[1] = p[1] + c(2) /\ s[0] = p[0] + c(1)
  <2> HIDE DEF p
  <2>1. \A i \in 0 .. 3 : s[i] = p[i] + High(s[i + 1])
    BY SumsUnfold
  <2>2. s[3] = p[3] + High(s[3 + 1]) /\ s[2] = p[2] + High(s[2 + 1])
        /\ s[1] = p[1] + High(s[1 + 1]) /\ s[0] = p[0] + High(s[0 + 1])
    BY <2>1
  <2>. QED BY <2>2, SumsUnfold
<1>4. /\ acc[0] = s[0] /\ acc[1] = Low(s[1]) /\ acc[2] = Low(s[2])
      /\ acc[3] = Low(s[3]) /\ acc[4] = Low(s[4])
  <2> HIDE DEF p
  <2>. QED BY DEF carried
<1>5. /\ h(0) \in 0 .. Word - 2 /\ w(0) \in 0 .. Word - 1
      /\ h(1) \in 0 .. Word - 2 /\ w(1) \in 0 .. Word - 1
      /\ h(2) \in 0 .. Word - 2 /\ w(2) \in 0 .. Word - 1
      /\ h(3) \in 0 .. Word - 2 /\ w(3) \in 0 .. Word - 1
  BY <1>1
<1> HIDE DEF t, p, s, acc, h, w
<1>6. ASSUME NEW i \in 1 .. 4, s[i] \in Nat, s[i] < Word * (1 + 1)
      PROVE  /\ c(i) \in 0 .. 1 /\ Low(s[i]) \in Words
             /\ s[i] = Word * c(i) + Low(s[i]) /\ s[i] < Word * Word
  <2>1. /\ c(i) \in Nat /\ Low(s[i]) \in 0 .. Word - 1
        /\ s[i] = Word * c(i) + Low(s[i])
    BY <1>6, HalvesOf
  <2>2. c(i) <= 1
    <3> DEFINE k == 1
    <3>1. k \in Nat /\ s[i] < Word * (k + 1)
      BY <1>6
    <3> HIDE DEF k
    <3>2. High(s[i]) <= k
      BY <1>6, <3>1, HalvesOf
    <3>. QED BY <3>2 DEF k
  <2>3. Word * (1 + 1) <= Word * Word /\ Word * Word \in Nat /\ Word * (1 + 1) \in Nat
    BY <1>0
  <2>. QED BY <1>6, <2>1, <2>2, <2>3, WordTypes
<1> HIDE DEF c
<1>7. s[4] = w(3) /\ s[4] \in Nat /\ s[4] < Word * (1 + 1)
  BY <1>0, <1>2, <1>3, <1>5
<1>8. c(4) \in 0 .. 1
  BY <1>6, <1>7
<1>9. s[3] = w(2) + h(3) + c(4) /\ s[3] \in Nat /\ s[3] < Word * (1 + 1)
  BY <1>0, <1>2, <1>3, <1>5, <1>8
<1>10. c(3) \in 0 .. 1
  BY <1>6, <1>9
<1>11. s[2] = w(1) + h(2) + c(3) /\ s[2] \in Nat /\ s[2] < Word * (1 + 1)
  BY <1>0, <1>2, <1>3, <1>5, <1>10
<1>12. c(2) \in 0 .. 1
  BY <1>6, <1>11
<1>13. s[1] = w(0) + h(1) + c(2) /\ s[1] \in Nat /\ s[1] < Word * (1 + 1)
  BY <1>0, <1>2, <1>3, <1>5, <1>12
<1>14. c(1) \in 0 .. 1
  BY <1>6, <1>13
<1>15. s[0] = h(0) + c(1) /\ s[0] \in Words
  BY <1>0, <1>2, <1>3, <1>5, <1>14, WordTypes
<1>16. s[0] < Word * Word
  <2>1. Word <= Word * Word /\ Word * Word \in Nat
    BY <1>0
  <2>. QED BY <1>15, <2>1, WordTypes
<1>17. /\ acc[1] \in Words /\ Word * c(1) + acc[1] = w(0) + h(1) + c(2)
       /\ acc[2] \in Words /\ Word * c(2) + acc[2] = w(1) + h(2) + c(3)
       /\ acc[3] \in Words /\ Word * c(3) + acc[3] = w(2) + h(3) + c(4)
       /\ acc[4] \in Words /\ Word * c(4) + acc[4] = w(3)
       /\ \A i \in 1 .. 4 : s[i] < Word * Word
  <2>1. /\ acc[1] \in Words /\ Word * c(1) + acc[1] = s[1] /\ s[1] < Word * Word
        /\ acc[2] \in Words /\ Word * c(2) + acc[2] = s[2] /\ s[2] < Word * Word
        /\ acc[3] \in Words /\ Word * c(3) + acc[3] = s[3] /\ s[3] < Word * Word
        /\ acc[4] \in Words /\ Word * c(4) + acc[4] = s[4] /\ s[4] < Word * Word
    BY <1>4, <1>6, <1>7, <1>9, <1>11, <1>13
  <2>2. \A i \in 1 .. 4 : i = 1 \/ i = 2 \/ i = 3 \/ i = 4
    OBVIOUS
  <2>. QED BY <2>1, <2>2, <1>7, <1>9, <1>11, <1>13
<1>18. \A i \in 0 .. 4 : s[i] \in Nat /\ s[i] < Word * Word /\ acc[i] \in Words
  <2>1. \A i \in 0 .. 4 : i = 0 \/ i = 1 \/ i = 2 \/ i = 3 \/ i = 4
    OBVIOUS
  <2>. QED BY <2>1, <1>4, <1>7, <1>9, <1>11, <1>13, <1>15, <1>16, <1>17, WordTypes
<1>19. Five(acc) = Word * (Word * (Word * t[0] + t[1]) + t[2]) + t[3]
  <2> DEFINE zero == 0
             T1 == Word * t[0] + t[1]
             T2 == Word * T1 + t[2]
             T3 == Word * T2 + t[3]
             A1 == Word * acc[0] + acc[1]
             A2 == Word * A1 + acc[2]
             A3 == Word * A2 + acc[3]
             A4 == Word * A3 + acc[4]
  <2>1. /\ \A i \in 0 .. 3 : /\ t[i] \in Int /\ h(i) \in Int /\ w(i) \in Int
                            /\ Word * h(i) + w(i) = t[i]
        /\ \A i \in 1 .. 4 : c(i) \in Int
        /\ \A i \in 0 .. 4 : acc[i] \in Int
        /\ Word \in Int /\ zero \in Int
    <3>1. \A i \in 1 .. 4 : i = 1 \/ i = 2 \/ i = 3 \/ i = 4
      OBVIOUS
    <3>. QED BY <1>0, <1>1, <1>8, <1>10, <1>12, <1>14, <1>18, <3>1, WordTypes
  <2>2. acc[0] = (zero + h(0)) + c(1)
    BY <1>4, <1>15, <2>1
  <2> HIDE DEF T1, T2, T3, A1, A2, A3, A4
  <2>3. A1 = t[0] + h(1) + c(2)
    <3>1. /\ Word * c(1) + acc[1] = w(0) + h(1) + c(2)
          /\ Word * h(0) + w(0) = t[0] /\ acc[0] = zero + h(0) + c(1)
      BY <1>17, <2>1, <2>2
    <3>2. Word * acc[0] + acc[1] = (Word * zero + t[0]) + h(1) + c(2)
      <4> HIDE DEF zero
      <4>. QED BY <2>1, <3>1, CarryStep
    <3>3. Word * zero + t[0] = t[0]
      BY <1>0, <2>1
    <3>. QED BY <3>2, <3>3 DEF A1
  <2> HIDE DEF zero
  <2>4. A2 = T1 + h(2) + c(3)
    <3>1. /\ Word * c(2) + acc[2] = w(1) + h(2) + c(3)
          /\ Word * h(1) + w(1) = t[1]
      BY <1>17, <2>1
    <3> DEFINE T0 == t[0]
    <3>2. T0 \in Int /\ A1 = T0 + h(1) + c(2)
      BY <2>1, <2>3
    <3> HIDE DEF T0
    <3>3. Word * A1 + acc[2] = (Word * T0 + t[1]) + h(2) + c(3)
      BY <2>1, <3>1, <3>2, CarryStep
    <3>. QED BY <3>3 DEF A2, T0, T1
  <2>5. T1 \in Int /\ T2 \in Int /\ T3 \in Int
    <3>1. T1 \in Int
      BY <2>1 DEF T1
    <3>2. T2 \in Int
      BY <2>1, <3>1 DEF T2
    <3>. QED BY <2>1, <3>1, <3>2 DEF T3
  <2>6. A3 = T2 + h(3) + c(4)
    <3>1. /\ Word * c(3) + acc[3] = w(2) + h(3) + c(4)
          /\ Word * h(2) + w(2) = t[2]
      BY <1>17, <2>1
    <3>2. Word * A2 + acc[3] = (Word * T1 + t[2]) + h(3) + c(4)
      BY <2>1, <2>4, <2>5, <3>1, CarryStep
    <3>. QED BY <3>2 DEF A3, T2
  <2>7. A4 = T3
    <3>1. /\ Word * c(4) + acc[4] = w(3) + zero + zero
          /\ Word * h(3) + w(3) = t[3]
      BY <1>17, <2>1 DEF zero
    <3>2. Word * A3 + acc[4] = (Word * T2 + t[3]) + zero + zero
      BY <2>1, <2>5, <2>6, <3>1, CarryStep
    <3>3. T3 + zero + zero = T3
      BY <2>5 DEF zero
    <3>. QED BY <3>2, <3>3 DEF A4, T3
  <2>. QED BY <2>7 DEF A1, A2, A3, A4, T1, T2, T3, Five
<1>20. t[0] = l[0] * num /\ t[1] = l[1] * num /\ t[2] = l[2] * num /\ t[3] = l[3] * num
  BY DEF t
<1>. QED BY <1>18, <1>19, <1>20 DEF t, p, acc, s

(* The long division divides, and its places fit.                          *)
LEMMA LongDivision ==
    ASSUME NEW acc, \A i \in 0 .. 4 : acc[i] \in Words, NEW den \in Words \ {0}
    PROVE  LET q == quotients(acc, den)
               r == remainders(acc, den)
           IN  /\ \A i \in 0 .. 4 : /\ q[i] \in Words
                                    /\ r[i] * Word + acc[i] < Word * Word
               /\ q[0] = acc[0] \div den
               /\ Five(acc) \in Nat /\ Five(q) = Five(acc) \div den
<1> DEFINE q == quotients(acc, den)
           r == remainders(acc, den)
<1>0. /\ Word \in Nat \ {0} /\ Word > 2 /\ den \in Nat \ {0} /\ den < Word
      /\ \A i \in 0 .. 4 : acc[i] \in Nat /\ acc[i] < Word
  BY WordTypes
<1>1. /\ r[0] = 0
      /\ \A i \in 0 .. 4 : r[i + 1] = (r[i] * Word + acc[i]) % den
  BY RemaindersUnfold
<1>2. \A i \in 0 .. 4 : q[i] = (r[i] * Word + acc[i]) \div den
  BY DEF quotients
<1> HIDE DEF q, r
<1>3. ASSUME NEW i \in 0 .. 4, r[i] \in 0 .. den - 1
      PROVE  /\ q[i] \in Words /\ r[i + 1] \in 0 .. den - 1
             /\ r[i] * Word + acc[i] = den * q[i] + r[i + 1]
             /\ r[i] * Word + acc[i] < Word * Word
  <2> DEFINE b == Word
             ri == r[i]
             ai == acc[i]
             x == ri * b + ai
  <2>1. /\ b \in Nat \ {0} /\ den \in 1 .. b /\ ri \in 0 .. den - 1 /\ ai \in 0 .. b - 1
    BY <1>0, <1>3
  <2>2. q[i] = x \div den /\ r[i + 1] = x % den
    BY <1>1, <1>2
  <2> HIDE DEF b, ri, ai
  <2>3. /\ x < b * b
        /\ x \div den \in 0 .. b - 1 /\ x % den \in 0 .. den - 1
        /\ x = den * (x \div den) + (x % den)
    BY <2>1, PlaceFits
  <2> HIDE DEF x
  <2>4. /\ q[i] \in 0 .. b - 1 /\ r[i + 1] \in 0 .. den - 1
        /\ x = den * q[i] + r[i + 1] /\ x < b * b
    BY <2>2, <2>3
  <2>. QED BY <2>4 DEF x, b, ri, ai, Words
<1>4. /\ r[0] \in 0 .. den - 1 /\ r[1] \in 0 .. den - 1 /\ r[2] \in 0 .. den - 1
      /\ r[3] \in 0 .. den - 1 /\ r[4] \in 0 .. den - 1 /\ r[5] \in 0 .. den - 1
  <2>1. r[0] \in 0 .. den - 1
    BY <1>0, <1>1
  <2>2. r[0 + 1] \in 0 .. den - 1
    BY <1>3, <2>1
  <2>3. r[1 + 1] \in 0 .. den - 1
    BY <1>3, <2>2
  <2>4. r[2 + 1] \in 0 .. den - 1
    BY <1>3, <2>3
  <2>5. r[3 + 1] \in 0 .. den - 1
    BY <1>3, <2>4
  <2>6. r[4 + 1] \in 0 .. den - 1
    BY <1>3, <2>5
  <2>. QED BY <2>1, <2>2, <2>3, <2>4, <2>5, <2>6
<1>5. \A i \in 0 .. 4 : r[i] \in 0 .. den - 1
  <2>1. \A i \in 0 .. 4 : i = 0 \/ i = 1 \/ i = 2 \/ i = 3 \/ i = 4
    OBVIOUS
  <2>. QED BY <1>4, <2>1
<1>6. \A i \in 0 .. 4 : /\ q[i] \in Words /\ r[i] * Word + acc[i] < Word * Word
                        /\ r[i] * Word + acc[i] = den * q[i] + r[i + 1]
  BY <1>3, <1>5
<1>7. Five(acc) \in Nat /\ Five(q) = Five(acc) \div den
  <2> DEFINE a0 == acc[0]
             a1 == acc[1]
             a2 == acc[2]
             a3 == acc[3]
             a4 == acc[4]
             q0 == q[0]
             q1 == q[1]
             q2 == q[2]
             q3 == q[3]
             q4 == q[4]
             r1 == r[1]
             r2 == r[2]
             r3 == r[3]
             r4 == r[4]
             r5 == r[5]
             b == Word
  <2>1. /\ a0 \in Nat /\ a1 \in Nat /\ a2 \in Nat /\ a3 \in Nat /\ a4 \in Nat
        /\ q0 \in Nat /\ q1 \in Nat /\ q2 \in Nat /\ q3 \in Nat /\ q4 \in Nat
        /\ r1 \in Nat /\ r2 \in Nat /\ r3 \in Nat /\ r4 \in Nat
        /\ r5 \in 0 .. den - 1 /\ b \in Nat
    BY <1>0, <1>4, <1>6, WordTypes
  <2>2. /\ r[0] * Word + acc[0] = den * q[0] + r[0 + 1]
        /\ r[1] * Word + acc[1] = den * q[1] + r[1 + 1]
        /\ r[2] * Word + acc[2] = den * q[2] + r[2 + 1]
        /\ r[3] * Word + acc[3] = den * q[3] + r[3 + 1]
        /\ r[4] * Word + acc[4] = den * q[4] + r[4 + 1]
    BY <1>6
  <2>3. r[0] * Word = 0
    BY <1>0, <1>1
  <2>4. r[0] * Word + acc[0] = a0
    BY <2>1, <2>3
  <2>5. /\ a0 = den * q0 + r1 /\ r1 * b + a1 = den * q1 + r2 /\ r2 * b + a2 = den * q2 + r3
        /\ r3 * b + a3 = den * q3 + r4 /\ r4 * b + a4 = den * q4 + r5
    BY <2>2, <2>4
  <2> HIDE DEF a0, a1, a2, a3, a4, q0, q1, q2, q3, q4, r1, r2, r3, r4, r5, b
  <2> DEFINE A == b * (b * (b * (b * a0 + a1) + a2) + a3) + a4
             Q == b * (b * (b * (b * q0 + q1) + q2) + q3) + q4
  <2>6. A \in Nat /\ Q \in Nat /\ Q = A \div den
    BY <1>0, <2>1, <2>5, FivePlaces
  <2>7. A = Five(acc) /\ Q = Five(q)
    BY DEF Five, a0, a1, a2, a3, a4, q0, q1, q2, q3, q4, b
  <2> HIDE DEF A, Q
  <2>. QED BY <2>6, <2>7
<1>9. q[0] = acc[0] \div den
  <2>1. q[0] = (r[0] * Word + acc[0]) \div den /\ acc[0] \in Nat
    BY <1>0, <1>2
  <2>2. r[0] * Word = 0
    BY <1>0, <1>1
  <2>3. r[0] * Word + acc[0] = acc[0]
    BY <2>1, <2>2
  <2>. QED BY <2>1, <2>3
<1>. QED BY <1>6, <1>7, <1>9 DEF q, r

(* The largest target.                                                     *)
LEMMA PowerOfSum ==
    ASSUME NEW a \in Nat PROVE \A n \in Nat : Power[a + n] = Power[a] * Power[n]
<1> DEFINE P == Power[a]
           N == {n \in Nat : Power[a + n] = P * Power[n]}
<1>1. P \in Nat /\ Byte \in Nat
  BY PowerFacts, TargetTypes
<1>2. 0 \in N
  <2>1. a + 0 = a /\ Power[0] = 1
    BY PowerFacts
  <2> HIDE DEF P
  <2>2. P * 1 = P
    BY <1>1
  <2>. QED BY <2>1, <2>2 DEF P
<1>3. ASSUME NEW n \in Nat, n \in N PROVE n + 1 \in N
  <2>1. a + (n + 1) = (a + n) + 1 /\ a + n \in Nat
    OBVIOUS
  <2>2. Power[a + (n + 1)] = Byte * Power[a + n]
    BY <2>1, PowerFacts
  <2>3. Power[n + 1] = Byte * Power[n] /\ Power[n] \in Nat
    BY PowerFacts
  <2>4. Power[a + n] = P * Power[n]
    BY <1>3
  <2> HIDE DEF P
  <2>5. Byte * (P * Power[n]) = P * (Byte * Power[n])
    BY <1>1, <2>3
  <2>6. Power[a + (n + 1)] = P * Power[n + 1]
    BY <2>2, <2>3, <2>4, <2>5
  <2>. QED BY <2>6
<1> HIDE DEF N
<1>4. \A n \in Nat : n \in N
  BY <1>2, <1>3, NatSetInduction
<1>. QED BY <1>4 DEF N

LEMMA LargestTarget == MAX_TARGET + 1 = Word * (Word * (Word * Word))
<1> DEFINE W == WordBytes
<1>1. W \in Nat /\ Bytes = W + (W + (W + W)) /\ W + W \in Nat /\ W + (W + W) \in Nat
  BY TargetTypes
<1> HIDE DEF W
<1>2. Power[W + W] = Power[W] * Power[W]
  BY <1>1, PowerOfSum
<1>3. Power[W + (W + W)] = Power[W] * Power[W + W]
  BY <1>1, PowerOfSum
<1>4. Power[W + (W + (W + W))] = Power[W] * Power[W + (W + W)]
  BY <1>1, PowerOfSum
<1>5. MAX_TARGET = Power[Bytes] - 1 /\ Power[Bytes] \in Nat
  BY TargetAssumption, TargetTypes, PowerFacts
<1>6. MAX_TARGET + 1 = Power[Bytes]
  BY <1>5
<1>. QED BY <1>1, <1>2, <1>3, <1>4, <1>6 DEF Word, W

LEMMA SaturatedIsLargest == Saturated \in ByteStrings /\ Number(Saturated, Bytes) = MAX_TARGET
<1> DEFINE s == Saturated
<1>1. Byte \in Nat \ {0} /\ Byte >= 2 /\ Bytes \in Nat
  BY TargetTypes
<1>2. \A i \in 0 .. Bytes - 1 : s[i] = Byte - 1
  BY DEF Saturated
<1>3. s \in ByteStrings
  BY <1>1 DEF Saturated, ByteStrings
<1> HIDE DEF s
<1>4. \A i \in 0 .. Bytes - 1 : s[i] \in Nat
  BY <1>1, <1>2
<1> DEFINE N == {m \in Nat : m <= Bytes => Number(s, m) = Power[m] - 1}
<1>5. 0 \in N
  <2>1. Number(s, 0) = 0 /\ Power[0] = 1
    BY <1>1, <1>4, NumberFacts, PowerFacts
  <2>. QED BY <2>1
<1>6. ASSUME NEW m \in Nat, m \in N PROVE m + 1 \in N
  <2> SUFFICES ASSUME m + 1 <= Bytes PROVE Number(s, m + 1) = Power[m + 1] - 1
    OBVIOUS
  <2>1. m \in 0 .. Bytes - 1
    BY <1>1
  <2>2. Number(s, m + 1) = Byte * Number(s, m) + (Byte - 1)
    BY <1>1, <1>2, <1>4, <2>1, NumberFacts
  <2>3. Number(s, m) = Power[m] - 1
    BY <1>1, <1>6, <2>1
  <2> DEFINE P == Power[m]
  <2>4. Power[m + 1] = Byte * P /\ P \in Nat
    BY PowerFacts
  <2> HIDE DEF P
  <2>5. Byte * (P - 1) = Byte * P - Byte /\ Byte * P \in Nat
    BY <1>1, <2>4
  <2>6. (Byte * P - Byte) + (Byte - 1) = Byte * P - 1
    BY <1>1, <2>5
  <2>. QED BY <2>2, <2>3, <2>4, <2>5, <2>6 DEF P
<1> HIDE DEF N
<1>7. \A m \in Nat : m \in N
  BY <1>5, <1>6, NatSetInduction
<1>8. Number(s, Bytes) = Power[Bytes] - 1
  BY <1>1, <1>7 DEF N
<1>. QED BY <1>3, <1>8, TargetAssumption DEF s

-----------------------------------------------------------------------------
(* What scale_target and next_target write.                                *)

(* Every place of the product and of its quotient fits in its word, and    *)
(* five places together are the product and its quotient.                  *)
LEMMA PlacesOfScale ==
    ASSUME NEW old \in ByteStrings, NEW num \in Words, NEW den \in Words \ {0}
    PROVE  LET p == aligned(products(old, num))
               acc == carried(p)
               q == quotients(acc, den)
           IN  /\ \A i \in 0 .. 4 : /\ sums(p)[i] < Word * Word
                                    /\ acc[i] \in Words
                                    /\ remainders(acc, den)[i] * Word + acc[i] < Word * Word
                                    /\ q[i] \in Words
               /\ Number(old, Bytes) * num \in Nat
               /\ Five(q) = (Number(old, Bytes) * num) \div den
<1> DEFINE l == [i \in 0 .. 3 |-> from_be_bytes(old, i)]
           p == aligned(products(old, num))
           acc == carried(p)
           q == quotients(acc, den)
           r == remainders(acc, den)
           s == sums(p)
<1>1. InWords(l) /\ Number(old, Bytes) = Joined(l)
  BY BytesOf, LimbsOf
<1>2. products(old, num) = [i \in 0 .. 3 |-> l[i] * num]
  BY DEF products
<1>3. /\ \A i \in 0 .. 4 : s[i] < Word * Word /\ acc[i] \in Words
      /\ Five(acc) = Word * (Word * (Word * (l[0] * num) + l[1] * num) + l[2] * num)
                        + l[3] * num
  <2> HIDE DEF l
  <2>. QED BY <1>1, <1>2, CarriedSums
<1>4. Five(acc) = Joined(l) * num
  <2> DEFINE l0 == l[0]
             l1 == l[1]
             l2 == l[2]
             l3 == l[3]
             b == Word
  <2>1. l0 \in Int /\ l1 \in Int /\ l2 \in Int /\ l3 \in Int /\ num \in Int /\ b \in Int
    <3> HIDE DEF l
    <3>. QED BY <1>1, WordTypes DEF InWords
  <2>2. /\ Joined(l) = b * (b * (b * l0 + l1) + l2) + l3
        /\ Five(acc) = b * (b * (b * (l0 * num) + l1 * num) + l2 * num) + l3 * num
    BY <1>3 DEF Joined
  <2> HIDE DEF l0, l1, l2, l3, b
  <2>. QED BY <2>1, <2>2, Distributed
<1> HIDE DEF acc
<1>5. /\ \A i \in 0 .. 4 : q[i] \in Words /\ r[i] * Word + acc[i] < Word * Word
      /\ Five(acc) \in Nat /\ Five(q) = Five(acc) \div den
  BY <1>3, LongDivision
<1>. QED BY <1>1, <1>3, <1>4, <1>5 DEF acc

(* What the bytes of a scaled target write.                                *)
THEOREM ScaleOfBytes ==
    ASSUME NEW old \in ByteStrings, NEW num \in Words, NEW den \in Words \ {0}
    PROVE  /\ scale_bytes(old, num, den) \in ByteStrings
           /\ Number(scale_bytes(old, num, den), Bytes)
                = scale_target(Number(old, Bytes), num, den)
<1> DEFINE acc == carried(aligned(products(old, num)))
           q == quotients(acc, den)
           V == Number(old, Bytes)
           Q == (V * num) \div den
           new == scale_bytes(old, num, den)
<1>1. /\ \A i \in 0 .. 4 : acc[i] \in Words /\ q[i] \in Words
      /\ V * num \in Nat /\ Five(q) = Q
  BY PlacesOfScale
<1>2. V \in 0 .. MAX_TARGET /\ MAX_TARGET \in Nat
  BY BytesOf, TargetTypes
<1>3. new = IF num = den THEN old
            ELSE IF acc[0] >= den * Word \/ Low(q[0]) # 0 THEN Saturated
            ELSE Written(q)
  BY DEF scale_bytes
<1> HIDE DEF acc, q
<1> DEFINE q0 == q[0]
           l == [i \in 0 .. 3 |-> q[1 + i]]
<1>4. q0 \in Words /\ Low(q0) = q0
  BY <1>1, WordTypes DEF Low
<1>5. ~ (acc[0] >= den * Word)
  <2> DEFINE a == acc[0]
  <2>1. a \in Nat /\ a < Word /\ den \in Nat \ {0} /\ Word \in Nat
    BY <1>1, WordTypes
  <2> HIDE DEF a
  <2>2. den * Word >= Word /\ den * Word \in Nat
    BY <2>1
  <2>3. ~ (a >= den * Word)
    BY <2>1, <2>2
  <2>. QED BY <2>3 DEF a
<1>6. /\ Word \in Nat /\ MAX_TARGET + 1 = Word * (Word * (Word * Word))
  BY WordTypes, LargestTarget
<1>7. CASE num = den
  <2>1. new = old
    BY <1>3, <1>7
  <2>2. V * num = den * V + 0 /\ den \in Nat \ {0} /\ V \in Int
    <3> HIDE DEF V
    <3>. QED BY <1>2, <1>7, WordTypes
  <2>3. V = Q
    <3> DEFINE x == V * num
    <3>1. x = den * V + 0 /\ x \in Int
      BY <1>1, <2>2
    <3> HIDE DEF x, V
    <3>2. V = x \div den
      BY <2>2, <3>1, QuotientIs
    <3>. QED BY <3>2 DEF x, V
  <2> HIDE DEF V, Q, new
  <2>4. scale_target(V, num, den) = V
    BY <1>2, <2>3 DEF scale_target, Q
  <2>. QED BY <2>1, <2>4 DEF V, new
<1>8. CASE num # den /\ q0 # 0
  <2>1. new = Saturated
    BY <1>3, <1>4, <1>8
  <2>2. Q > MAX_TARGET
    <3> DEFINE q1 == q[1]
               q2 == q[2]
               q3 == q[3]
               q4 == q[4]
               W == Word
    <3>1. /\ q0 \in Nat /\ q0 >= 1
          /\ q1 \in Nat /\ q2 \in Nat /\ q3 \in Nat /\ q4 \in Nat /\ W \in Nat
      BY <1>1, <1>4, <1>8, WordTypes
    <3>2. /\ Q = W * (W * (W * (W * q0 + q1) + q2) + q3) + q4
          /\ MAX_TARGET + 1 = W * (W * (W * W))
      BY <1>1, <1>6 DEF Five
    <3> HIDE DEF q0, q1, q2, q3, q4, W, Q
    <3> DEFINE x1 == W * q0 + q1
               x2 == W * x1 + q2
               x3 == W * x2 + q3
    <3>3. x1 \in Nat /\ x1 >= W
      <4>1. W * q0 >= W /\ W * q0 \in Nat
        BY <3>1
      <4>. QED BY <3>1, <4>1
    <3> HIDE DEF x1
    <3>4. x2 \in Nat /\ x2 >= W * W
      <4>1. W * x1 >= W * W /\ W * x1 \in Nat /\ W * W \in Nat
        BY <3>1, <3>3
      <4>. QED BY <3>1, <4>1
    <3> HIDE DEF x2
    <3>5. x3 \in Nat /\ x3 >= W * (W * W)
      <4> DEFINE w2 == W * W
      <4>0. w2 \in Nat /\ x2 >= w2
        BY <3>1, <3>4
      <4> HIDE DEF w2
      <4>1. W * x2 >= W * w2 /\ W * x2 \in Nat /\ W * w2 \in Nat
        BY <3>1, <3>4, <4>0
      <4>2. x3 \in Nat /\ x3 >= W * w2
        BY <3>1, <4>1
      <4>. QED BY <4>2 DEF w2
    <3> HIDE DEF x3
    <3>6. W * x3 + q4 >= W * (W * (W * W))
      <4> DEFINE w3 == W * (W * W)
      <4>0. w3 \in Nat /\ x3 >= w3
        BY <3>1, <3>5
      <4> HIDE DEF w3
      <4>1. W * x3 >= W * w3 /\ W * x3 \in Nat /\ W * w3 \in Nat
        BY <3>1, <3>5, <4>0
      <4>2. W * x3 + q4 >= W * w3
        BY <3>1, <4>1
      <4>. QED BY <4>2 DEF w3
    <3>7. Q = W * x3 + q4
      BY <3>2 DEF x1, x2, x3
    <3> DEFINE M == W * (W * (W * W))
               y == W * x3
    <3>8. y \in Nat /\ Q = y + q4 /\ y + q4 >= M /\ MAX_TARGET + 1 = M
      BY <3>1, <3>2, <3>5, <3>6, <3>7
    <3> HIDE DEF M, y
    <3>. QED BY <1>2, <3>1, <3>8
  <2> HIDE DEF V, Q, new
  <2>3. scale_target(V, num, den) = MAX_TARGET
    BY <2>2 DEF scale_target, Q
  <2>. QED BY <2>1, <2>3, SaturatedIsLargest DEF V, new
<1>9. CASE num # den /\ q0 = 0
  <2>1. new = Written(q)
    BY <1>3, <1>4, <1>5, <1>9
  <2>2. /\ Written(q) \in ByteStrings
        /\ Number(Written(q), Bytes) = Joined(l)
    <3>1. \A i \in 1 .. 4 : q[i] \in Words
      BY <1>1
    <3>. QED BY <3>1, WrittenLimbs
  <2>3. Joined(l) = Q
    <3> DEFINE q1 == q[1]
               q2 == q[2]
               q3 == q[3]
               q4 == q[4]
               W == Word
    <3>1. q1 \in Nat /\ q2 \in Nat /\ q3 \in Nat /\ q4 \in Nat /\ W \in Nat
      BY <1>1, WordTypes
    <3>2. Q = W * (W * (W * (W * q0 + q1) + q2) + q3) + q4
      BY <1>1 DEF Five
    <3>3. l[0] = q[1 + 0] /\ l[1] = q[1 + 1] /\ l[2] = q[1 + 2] /\ l[3] = q[1 + 3]
      OBVIOUS
    <3>4. Joined(l) = W * (W * (W * q1 + q2) + q3) + q4
      BY <3>3 DEF Joined
    <3> HIDE DEF q1, q2, q3, q4, W, l, Q
    <3>5. W * q0 + q1 = q1
      BY <1>9, <3>1
    <3>. QED BY <3>2, <3>4, <3>5
  <2>4. Joined(l) <= MAX_TARGET
    BY <2>2, BytesOf
  <2>5. Q \in Int /\ Q <= MAX_TARGET
    <3> DEFINE w == Written(q)
    <3>1. Number(w, Bytes) \in 0 .. MAX_TARGET
      BY <2>2, BytesOf
    <3> HIDE DEF l, w, Q
    <3>. QED BY <1>2, <2>2, <2>3, <3>1 DEF w
  <2> HIDE DEF V, Q, new, l
  <2>6. scale_target(V, num, den) = Q
    BY <1>2, <2>5 DEF scale_target, Q
  <2>. QED BY <2>1, <2>2, <2>3, <2>6 DEF V, new
<1>. QED BY <1>7, <1>8, <1>9

(* A saturated product compares with a word as the product does.           *)
LEMMA SaturatedProduct ==
    ASSUME NEW x \in Words, NEW y \in Words, NEW c \in Words
    PROVE  /\ saturating_mul(x, 1) = x
           /\ saturating_mul(x, y) < c <=> x * y < c
           /\ c > saturating_mul(x, y) <=> c > x * y
<1>1. x \in Nat /\ x < Word /\ y \in Nat /\ c \in Nat /\ c < Word /\ Word \in Nat \ {0}
  BY WordTypes
<1> DEFINE z == x * y
<1>2. z \in Nat /\ x * 1 = x
  BY <1>1
<1>3. saturating_mul(x, y) = IF z < Word THEN z ELSE Word - 1
  BY DEF saturating_mul
<1>4. saturating_mul(x, 1) = x
  BY <1>1, <1>2 DEF saturating_mul
<1> HIDE DEF z
<1>5. /\ saturating_mul(x, y) < c <=> z < c
      /\ c > saturating_mul(x, y) <=> c > z
  BY <1>1, <1>2, <1>3
<1>. QED BY <1>4, <1>5 DEF z

(* What a retarget in words writes.                                        *)
THEOREM RetargetOfBytes ==
    ASSUME NEW old \in ByteStrings, NEW actual_seconds \in Words
    PROVE  /\ next_bytes(old, actual_seconds) \in ByteStrings
           /\ Number(next_bytes(old, actual_seconds), Bytes)
                = next_target(Number(old, Bytes), actual_seconds)
<1> DEFINE V == Number(old, Bytes)
           T == RETARGET_TARGET_SECONDS
           a == actual_seconds
           new == next_bytes(old, actual_seconds)
           Fast == a = 0 \/ a * 2 < T * 1
           Slow == a * 1 > T * 2
<1>1. a \in Words /\ T \in Words \ {0} /\ 1 \in Words \ {0} /\ 2 \in Words \ {0}
  BY WordTypes, TargetTypes
<1>2. a \in Nat /\ T \in Nat /\ a * 1 = a /\ T * 1 = T
  BY WordTypes, TargetTypes
<1> HIDE DEF a, T
<1>3. /\ saturating_mul(T, 1) = T * 1 /\ saturating_mul(a, 1) = a * 1
      /\ saturating_mul(a, 2) < T * 1 <=> a * 2 < T * 1
      /\ a * 1 > saturating_mul(T, 2) <=> a * 1 > T * 2
  <2>1. saturating_mul(T, 1) = T /\ saturating_mul(a, 1) = a
    BY <1>1, SaturatedProduct
  <2> DEFINE two == 2
  <2>2. two \in Words /\ T \in Words
    BY <1>1
  <2> HIDE DEF two
  <2>3. saturating_mul(a, two) < T <=> a * two < T
    BY <1>1, <2>2, SaturatedProduct
  <2>4. a > saturating_mul(T, two) <=> a > T * two
    BY <1>1, <2>2, SaturatedProduct
  <2>. QED BY <1>2, <2>1, <2>3, <2>4 DEF two
<1>4. new = IF Fast THEN scale_bytes(old, 1, 2)
            ELSE IF Slow THEN scale_bytes(old, 2, 1)
            ELSE scale_bytes(old, a, T)
  BY <1>3 DEF next_bytes, a, T, RETARGET_MIN_NUM, RETARGET_MIN_DEN, RETARGET_MAX_NUM,
              RETARGET_MAX_DEN
<1>5. next_target(V, a) = IF Fast THEN scale_target(V, 1, 2)
                          ELSE IF Slow THEN scale_target(V, 2, 1)
                          ELSE scale_target(V, a, T)
  BY DEF next_target, T, RETARGET_MIN_NUM, RETARGET_MIN_DEN, RETARGET_MAX_NUM, RETARGET_MAX_DEN
<1> HIDE DEF V, new, Fast, Slow
<1>6. /\ scale_bytes(old, 1, 2) \in ByteStrings
      /\ Number(scale_bytes(old, 1, 2), Bytes) = scale_target(V, 1, 2)
  BY <1>1, ScaleOfBytes DEF V
<1>7. /\ scale_bytes(old, 2, 1) \in ByteStrings
      /\ Number(scale_bytes(old, 2, 1), Bytes) = scale_target(V, 2, 1)
  BY <1>1, ScaleOfBytes DEF V
<1>8. /\ scale_bytes(old, a, T) \in ByteStrings
      /\ Number(scale_bytes(old, a, T), Bytes) = scale_target(V, a, T)
  BY <1>1, ScaleOfBytes DEF V
<1>9. new \in ByteStrings /\ Number(new, Bytes) = next_target(V, a)
  BY <1>4, <1>5, <1>6, <1>7, <1>8
<1>. QED BY <1>9 DEF V, new, a

(* Some bytes write it, whatever the target.                               *)
LEMMA TargetIsWritten ==
    ASSUME NEW n \in 0 .. MAX_TARGET
    PROVE  \E s \in ByteStrings : Number(s, Bytes) = n
<1> DEFINE W == Word
           n1 == n \div W
           n2 == n1 \div W
           a == n2 \div W
           q == <<a, n2 % W, n1 % W, n % W>>
           l == [i \in 0 .. 3 |-> q[1 + i]]
<1>1. /\ W \in Nat \ {0} /\ W * W \in Nat /\ W * (W * W) \in Nat
      /\ n \in Nat /\ n < W * (W * (W * W))
  <2>1. MAX_TARGET \in Nat
    BY DifficultyAssumption
  <2>2. W \in Nat \ {0}
    BY WordTypes
  <2>. QED BY <2>1, <2>2, LargestTarget
<1>2. ASSUME NEW x \in Nat, NEW m \in Nat, x < W * m
      PROVE  /\ x \div W \in Nat /\ x \div W < m /\ x % W \in Words
             /\ x = W * (x \div W) + (x % W)
  <2>1. /\ x \div W \in Nat /\ x % W \in 0 .. W - 1
        /\ x = W * (x \div W) + (x % W)
    BY <1>1, DivModFacts
  <2>2. x \div W < m
    <3>1. SUFFICES ASSUME x \div W >= m PROVE FALSE
      BY <2>1, <1>2
    <3> DEFINE d == x \div W - m
    <3>2. d \in Nat /\ x \div W = m + d
      BY <2>1, <3>1
    <3> HIDE DEF d
    <3>3. W * (m + d) = W * m + W * d /\ W * d \in Nat /\ W * m \in Nat
      BY <1>1, <3>2
    <3>4. x % W >= 0 /\ x % W \in Int /\ W * (x \div W) = W * m + W * d
      BY <1>1, <2>1, <3>2, <3>3
    <3>. QED BY <1>2, <2>1, <3>3, <3>4
  <2>. QED BY <2>1, <2>2 DEF Words
<1>3. /\ n1 \in Nat /\ n1 < W * (W * W) /\ n % W \in Words /\ n = W * n1 + (n % W)
  BY <1>1, <1>2
<1>4. /\ n2 \in Nat /\ n2 < W * W /\ n1 % W \in Words /\ n1 = W * n2 + (n1 % W)
  BY <1>1, <1>2, <1>3
<1>5. /\ a \in Nat /\ a < W /\ n2 % W \in Words /\ n2 = W * a + (n2 % W)
  BY <1>1, <1>2, <1>4
<1>6. a \in Words
  BY <1>5, WordTypes
<1> HIDE DEF a, n2, n1
<1>7. \A i \in 1 .. 4 : q[i] \in Words
  BY <1>3, <1>4, <1>5, <1>6
<1>8. l[0] = a /\ l[1] = n2 % W /\ l[2] = n1 % W /\ l[3] = n % W
  OBVIOUS
<1>9. Joined(l) = n
  BY <1>3, <1>4, <1>5, <1>8 DEF Joined
<1>10. Written(q) \in ByteStrings /\ Number(Written(q), Bytes) = Joined(l)
  BY <1>7, WrittenLimbs
<1>. QED BY <1>9, <1>10

(* No bit of a target is lost in a retarget (target.rs:53-79).             *)
LEMMA NoBitOfBytesIsLost == NoBitIsLost
<1> SUFFICES ASSUME NEW old \in ByteStrings, NEW num \in Words, NEW den \in Words \ {0}
             PROVE  LET p == aligned(products(old, num))
                        acc == carried(p)
                    IN  \A i \in 0 .. 4 :
                           /\ sums(p)[i] < Word * Word
                           /\ acc[i] < Word
                           /\ remainders(acc, den)[i] * Word + acc[i] < Word * Word
                           /\ quotients(acc, den)[i] < Word
  BY DEF NoBitIsLost
<1>. QED BY PlacesOfScale, WordTypes

(* ScaleIsExact, for any width of the words: scale_target's carries, long  *)
(* division and overflow checks give old * num / den, and every place fits *)
(* on the way (target.rs:26-90).                                           *)
THEOREM ScaleStaysExact == Spec => []ScaleIsExact
<1>1. ScaleIsExact
  BY ScaleOfBytes, NoBitOfBytesIsLost DEF ScaleIsExact, BytesScale
<1>. QED BY <1>1, PTL

(* OrderIsNumeric: the first byte that differs decides (target.rs:8-18).   *)
THEOREM OrderStaysNumeric == Spec => []OrderIsNumeric
<1>1. OrderIsNumeric
  BY OrderOfBytes DEF OrderIsNumeric, BytesOrder
<1>. QED BY <1>1, PTL

LEMMA RoundRetargetsBytes ==
    ASSUME TypeOK, NEW w \in Miners \union {Nobody}, advance_round(w)
    PROVE  RetargetedBytes
<1> DEFINE window == unix_timestamp - last_retarget_unix_ts
           h == block_height + 1
           sec == IF window < 0 THEN 0 ELSE window
<1>1. block_height' = h /\ Retarget(h)
  BY DEF advance_round
<1> SUFFICES ASSUME is_retarget_boundary(h), sec \in Words
             PROVE  <<current_target, sec, current_target'>> \in Retargets
  BY <1>1 DEF RetargetedBytes
<1>2. current_target' = next_target(current_target, sec)
  BY <1>1 DEF Retarget
<1>3. PICK old \in ByteStrings : Number(old, Bytes) = current_target
  BY TargetIsWritten DEF TypeOK
<1>4. Number(next_bytes(old, sec), Bytes) = current_target'
  BY <1>2, <1>3, RetargetOfBytes
<1>. QED BY <1>3, <1>4 DEF Retargets

(* RetargetIsExact: Equium's target is a number, the program's bytes.  In  *)
(* every behaviour a retarget whose window a u64 holds stores what bytes,  *)
(* limbs and saturated comparisons compute (schedule.rs:34-67).            *)
THEOREM RetargetsStayExact == Spec => RetargetIsExact
<1>1. TypeOK /\ [Next]_vars => [initialized => RetargetedBytes]_vars
  <2>. SUFFICES ASSUME TypeOK, Next, initialized PROVE RetargetedBytes
    OBVIOUS
  <2>1. ASSUME NEW m \in Miners, NEW s \in Solutions, Mine(m, s) PROVE RetargetedBytes
    BY <2>1, RoundRetargetsBytes DEF Mine
  <2>2. CASE AdvanceEmptyRound
    BY <2>2, RoundRetargetsBytes DEF AdvanceEmptyRound
  <2>3. ASSUME NEW w \in Wallets,
               \/ \E t \in Targets : Initialize(w, t)
               \/ FundVault(w)
               \/ RenounceAdmin(w)
               \/ \E t \in Targets : SetTarget(w, t)
               \/ \E g \in Holders, n \in Transfers : SplTransfer(w, g, n)
        PROVE  RetargetedBytes
    BY <2>3 DEF Initialize, FundVault, RenounceAdmin, SetTarget, SplTransfer, round,
       RetargetedBytes
  <2>4. ASSUME NEW d \in TsSteps, Tick(d) PROVE RetargetedBytes
    BY <2>4 DEF Tick, round, RetargetedBytes
  <2>. QED BY <2>1, <2>2, <2>3, <2>4 DEF Next
<1>. QED BY <1>1, TypeCorrect, PTL DEF Spec, RetargetIsExact

=============================================================================
