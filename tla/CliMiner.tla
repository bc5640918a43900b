------------------------------ MODULE CliMiner ------------------------------
(***************************************************************************)
(* Command-line miners (src/clients/cli-miner/src/main.rs) and the program *)
(* they mine on.  A miner works from a copy of the config account: between *)
(* its fetch and the moment its transaction executes, other miners, the    *)
(* admin and time may have changed the round.                              *)
(*                                                                         *)
(* A transaction executes atomically at one moment or never, and its       *)
(* sender may fail to learn that it did.  The solver race is one step here *)
(* (SolverRace.tla has its threads).  The miners' watchdogs count seconds  *)
(* of their own clock and the program counts slots: the two pass at        *)
(* unrelated speeds, so that a watchdog may bark too early.                *)
(***************************************************************************)
EXTENDS Equium, FiniteSetsExt

CONSTANTS
    Clients,            \* the miners that run this program
    ROUND_STALL,        \* ROUND_STALL_SECS, 75 s
    ADVANCE_COOLDOWN,   \* ADVANCE_COOLDOWN_SECS, 30 s
    MaxBlocks,          \* --max-blocks, 0 for no limit
    None                \* no config, height, attempt, solution or outcome yet

ASSUME CliAssumption ==
    /\ Clients \subseteq Miners
    /\ ROUND_STALL \in Nat \ {0}
    /\ ADVANCE_COOLDOWN \in Nat /\ MaxBlocks \in Nat
    /\ None \notin Nat
    /\ None \notin {"stale challenge", "another miner beat us to it"}

VARIABLES
    phase,                    \* where each miner's loop is
    cfg,                      \* its copy of the config account
    current_height,           \* the height it last saw
    stall_for,                \* seconds since last_height_change_at
    rested,                   \* seconds since last_advance_attempt_at
    candidate,                \* the solution it is about to submit
    blocks_mined, total_reward_base,
    said,                     \* what it printed about its last transaction
    seen                      \* history: the slot it first saw the height in,
                              \* and the seconds since

watchdog == <<current_height, stall_for, rested, seen>>
earnings == <<blocks_mined, total_reward_base>>
local    == <<phase, cfg, watchdog, candidate, earnings, said>>
allVars  == <<vars, local>>

(* init-localnet.ts mints the whole supply to the admin before the rest.   *)
Premint == balance[Admin] = TOTAL_SUPPLY_BASE

CInit ==
    /\ Init /\ Premint
    /\ phase = [m \in Clients |-> "fetch"]
    /\ cfg = [m \in Clients |-> None]
    /\ current_height = [m \in Clients |-> None]
    /\ stall_for = [m \in Clients |-> 0]
    /\ rested = [m \in Clients |-> ADVANCE_COOLDOWN]
    /\ seen = [m \in Clients |-> [slot |-> slot, secs |-> 0]]
    /\ candidate = [m \in Clients |-> None]
    /\ blocks_mined = [m \in Clients |-> 0]
    /\ total_reward_base = [m \in Clients |-> 0]
    /\ said = [m \in Clients |-> None]

-----------------------------------------------------------------------------

Goto(m, to) == phase' = [phase EXCEPT ![m] = to]
Say(m, what) == said' = [said EXCEPT ![m] = what]

Snapshot == [challenge |-> current_challenge, height |-> block_height,
             target |-> current_target, reward |-> current_epoch_reward,
             admin_renounced |-> admin_renounced]

(* Mutant: a new height does not restart the watchdog.                     *)
ObserveHeight_keeping_clock(m) ==
    /\ current_height' = [current_height EXCEPT ![m] = block_height]
    /\ UNCHANGED <<stall_for, rested>>

(* A new height restarts the watchdog.                                     *)
ObserveHeight(m) ==
    IF current_height[m] # block_height
    THEN /\ current_height' = [current_height EXCEPT ![m] = block_height]
         /\ stall_for' = [stall_for EXCEPT ![m] = 0]
         /\ rested' = [rested EXCEPT ![m] = ADVANCE_COOLDOWN]
    ELSE UNCHANGED <<current_height, stall_for, rested>>

Stalled(m) ==
    /\ current_height[m] = block_height
    /\ stall_for[m] = ROUND_STALL /\ rested[m] = ADVANCE_COOLDOWN

FirstSight(m) ==
    seen' = IF current_height[m] # block_height
            THEN [seen EXCEPT ![m] = [slot |-> slot, secs |-> 0]] ELSE seen

(* fetch_config and the top of the loop: notice a new height; go and       *)
(* advance a stalled round, else solve.                                    *)
Fetch(m) ==
    /\ phase[m] = "fetch"
    /\ initialized
    /\ cfg' = [cfg EXCEPT ![m] = Snapshot]
    /\ IF Stalled(m)
       THEN /\ rested' = [rested EXCEPT ![m] = 0]
            /\ Goto(m, "advance")
            /\ UNCHANGED <<current_height, stall_for>>
       ELSE /\ ObserveHeight(m)
            /\ Goto(m, "solve")
    /\ FirstSight(m)
    /\ Say(m, None)
    /\ UNCHANGED <<vars, candidate, earnings>>

(* No config account yet, or an RPC error: main returns the error.         *)
FetchFails(m) ==
    /\ phase[m] = "fetch"
    /\ Goto(m, "exited")
    /\ Say(m, None)
    /\ UNCHANGED <<vars, cfg, watchdog, candidate, earnings>>

(* race_for_solution: a solution of this miner's own I-block that is under *)
(* the target of its config, or an exhausted budget.                       *)
Solve(m) ==
    /\ phase[m] = "solve"
    /\ \/ \E h \in Hashes :
            /\ hash_under_target(h, cfg[m].target)
            /\ candidate' = [candidate EXCEPT ![m] =
                  [input |-> build_input(cfg[m].challenge, m, cfg[m].height), hash |-> h]]
            /\ Goto(m, "submit")
       \/ Goto(m, "fetch") /\ UNCHANGED candidate
    /\ UNCHANGED <<vars, cfg, watchdog, earnings, said>>

-----------------------------------------------------------------------------
(* submit_mine.                                                            *)

(* The error mine fails with, in the order of its checks.                  *)
mine_error(m) ==
    LET fresh == candidate[m].input = build_input(current_challenge, m, block_height)
        under == hash_under_target(candidate[m].hash, current_target)
    IN  CASE ~mining_open -> "MiningNotOpen"
          [] mining_open /\ ~fresh -> "InvalidEquihash"
          [] mining_open /\ fresh /\ ~under -> "AboveTarget"
          [] OTHER -> "other"

classify_submit_err(error) ==
    CASE error = "AboveTarget" -> "above target"
      [] error = "InvalidEquihash" -> "stale challenge"
      [] OTHER -> "submit error"

(* The client's bookkeeping once mine is confirmed: the reward it adds is  *)
(* the one in its copy of the config.                                      *)
CountBlock(m) ==
    /\ blocks_mined' = [blocks_mined EXCEPT ![m] = @ + 1]
    /\ total_reward_base' = [total_reward_base EXCEPT ![m] = @ + cfg[m].reward]
    /\ Goto(m, IF MaxBlocks > 0 /\ blocks_mined[m] + 1 >= MaxBlocks
               THEN "exited" ELSE "fetch")
    /\ Say(m, "mined")

(* mine executes; its confirmation arrives or is lost.                     *)
MineLands(m) ==
    /\ phase[m] = "submit"
    /\ Mine(m, candidate[m])
    /\ \/ CountBlock(m)
       \/ Goto(m, "fetch") /\ Say(m, "submit error") /\ UNCHANGED earnings
    /\ candidate' = [candidate EXCEPT ![m] = None]
    /\ UNCHANGED <<cfg, watchdog>>

(* The program refuses.                                                    *)
MineRefused(m) ==
    /\ phase[m] = "submit"
    /\ mining_open => ~verify_submission(m, candidate[m]) \/ current_epoch_reward = 0
    /\ Goto(m, "fetch")
    /\ Say(m, classify_submit_err(mine_error(m)))
    /\ candidate' = [candidate EXCEPT ![m] = None]
    /\ UNCHANGED <<vars, cfg, watchdog, earnings>>

(* Mutant: a transaction that was sent counts as mined.                    *)
MineLost_counted(m) ==
    /\ phase[m] = "submit"
    /\ CountBlock(m)
    /\ candidate' = [candidate EXCEPT ![m] = None]
    /\ UNCHANGED <<vars, cfg, watchdog>>

(* The transaction never executes.                                         *)
MineLost(m) ==
    /\ phase[m] = "submit"
    /\ Goto(m, "fetch")
    /\ Say(m, "submit error")
    /\ candidate' = [candidate EXCEPT ![m] = None]
    /\ UNCHANGED <<vars, cfg, watchdog, earnings>>

(* submit_advance_empty_round.                                             *)
AdvanceLands(m) ==
    /\ phase[m] = "advance"
    /\ AdvanceEmptyRound
    /\ Goto(m, "fetch")
    /\ \E what \in {"advanced", "couldn't advance"} : Say(m, what)
    /\ UNCHANGED <<cfg, watchdog, candidate, earnings>>

AdvanceRefused(m) ==
    /\ phase[m] = "advance"
    /\ mining_open => ~RoundStalled
    /\ Goto(m, "fetch")
    /\ Say(m, IF mining_open THEN "another miner beat us to it" ELSE "couldn't advance")
    /\ UNCHANGED <<vars, cfg, watchdog, candidate, earnings>>

AdvanceLost(m) ==
    /\ phase[m] = "advance"
    /\ Goto(m, "fetch")
    /\ Say(m, "couldn't advance")
    /\ UNCHANGED <<vars, cfg, watchdog, candidate, earnings>>

Cli(m) ==
    \/ Fetch(m) \/ FetchFails(m) \/ Solve(m)
    \/ MineLands(m) \/ MineRefused(m) \/ MineLost(m)
    \/ AdvanceLands(m) \/ AdvanceRefused(m) \/ AdvanceLost(m)

(* The admin's scripts: init-localnet.ts sends its other two transactions  *)
(* one after the other; seed-target.ts moves the target, to its default or *)
(* to any other 32 bytes.                                                  *)
InitLocalnet == (\E t \in Targets : Initialize(Admin, t)) \/ FundVault(Admin)
parseTargetArg == Targets
SeedTarget == \E t \in parseTargetArg : SetTarget(Admin, t)

(* Everybody else: other miners with any program of their own, who copy    *)
(* and replay solutions; the admin, holders of tokens and the clock.       *)
Environment ==
    /\ \/ InitLocalnet \/ SeedTarget
       \/ RenounceAdmin(Admin)
       \/ \E m \in Miners \ Clients : \E s \in Solutions : Mine(m, s)
       \/ AdvanceEmptyRound
       \/ \E w \in Wallets, h \in Holders, n \in Transfers : SplTransfer(w, h, n)
       \/ \E d \in TsSteps : Tick(d)
    /\ UNCHANGED local

(* A second of the miners' clocks, which count up to what they are         *)
(* compared with.                                                          *)
Elapsed(n, limit) == IF n < limit THEN n + 1 ELSE limit

Second ==
    /\ stall_for' = [m \in Clients |-> Elapsed(stall_for[m], ROUND_STALL)]
    /\ rested' = [m \in Clients |-> Elapsed(rested[m], ADVANCE_COOLDOWN)]
    /\ seen' = [m \in Clients |-> [slot |-> seen[m].slot,
                                   secs |-> Elapsed(seen[m].secs, ROUND_STALL)]]
    /\ UNCHANGED <<vars, phase, cfg, current_height, candidate, earnings, said>>

CNext == Environment \/ Second \/ \E m \in Clients : Cli(m)

CSpec == CInit /\ [][CNext]_allVars

-----------------------------------------------------------------------------

(* The chain's view of what a miner won.                                   *)
Won(m) == {i \in DOMAIN blocks : blocks[i].winner = m}

(* What each round paid.                                                   *)
Paid == [i \in DOMAIN blocks |-> blocks[i].reward]

(* What a miner says it mined and earned never exceeds what the program    *)
(* paid it, although it adds up rewards from a copy of the config that may *)
(* be older than a halving: a solution from such a copy is refused.        *)
EarningsAreReal ==
    \A m \in Clients :
      /\ blocks_mined[m] <= Cardinality(Won(m))
      /\ total_reward_base[m] <= SumFunctionOnSet(Paid, Won(m))

(* What a miner can tell of a refusal: the round of its fetch was closed;  *)
(* fund_vault restarted the timeout of the first round while the miner was *)
(* watching it; or the slots are slower than the watchdog counts on: the   *)
(* chain made fewer than ROUND_TIMEOUT_SLOTS of them since the miner first *)
(* saw the height, in ROUND_STALL or more of its seconds.                  *)
Closed(m)    == block_height > cfg[m].height
Restarted(m) == cfg[m].height = 0 /\ seen[m].slot <= opened_slot
SlowSlots(m) == /\ seen[m].secs >= ROUND_STALL
                /\ slot - seen[m].slot < ROUND_TIMEOUT_SLOTS

Says(m, what) == said[m] # what /\ said'[m] = what

(* The reasons a miner prints, and when they are true.  "stale challenge", *)
(* which it makes of InvalidEquihash, is always said of a round that       *)
(* somebody closed since the fetch.  So is "another miner beat us to it",  *)
(* which it makes of RoundStillActive, except for the two refusals that    *)
(* nobody caused: the restarted first round, and an attempt that came too  *)
(* early because slots were slow.  In particular a miner never runs into a *)
(* round that it saw open less than ROUND_STALL seconds ago.               *)
ReasonsAreTrue ==
    [][\A m \in Clients :
        /\ Says(m, "stale challenge") => Closed(m)
        /\ Says(m, "another miner beat us to it") =>
              Closed(m) \/ Restarted(m) \/ SlowSlots(m)]_allVars

=============================================================================
