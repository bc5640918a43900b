------------------------------ MODULE Watchdog ------------------------------
(***************************************************************************)
(* How a stalled round gets closed.  The program lets anybody close it     *)
(* after ROUND_TIMEOUT_SLOTS; every miner runs a watchdog that does so     *)
(* (src/clients/cli-miner/src/main.rs:178-212, and the desktop miner's     *)
(* copy of it).  The promise is that rounds keep closing even when nobody  *)
(* finds a solution, transactions get lost, slots and seconds pass at      *)
(* unrelated speeds and all but one of the miners go away.                 *)
(*                                                                         *)
(* Only what the watchdog looks at is kept: clocks stop counting once they *)
(* have reached the limit they are compared with, and a height is known    *)
(* to a miner or not, since it never comes back.                           *)
(***************************************************************************)
EXTENDS Naturals

CONSTANTS
    Clients,         \* miners
    Steady,          \* those that never exit
    RoundTimeout,    \* ROUND_TIMEOUT_SLOTS
    RoundStall,      \* ROUND_STALL_SECS
    AdvanceCooldown  \* ADVANCE_COOLDOWN_SECS

ASSUME WatchdogAssumption ==
    /\ Steady \subseteq Clients
    /\ RoundTimeout \in Nat /\ RoundStall \in Nat \ {0} /\ AdvanceCooldown \in Nat

VARIABLES
    age,        \* slots since the round opened, up to RoundTimeout
    phase,      \* where each miner is
    knows,      \* the miners whose current_height is the chain's
    stall_for,  \* seconds since each last saw a new height
    rested      \* seconds since its last attempt; AdvanceCooldown if none

vars == <<age, phase, knows, stall_for, rested>>

Capped(n, limit) == IF n > limit THEN limit ELSE n

Init ==
    /\ age = 0
    /\ phase = [m \in Clients |-> "fetch"]
    /\ knows = {}
    /\ stall_for = [m \in Clients |-> 0]
    /\ rested = [m \in Clients |-> AdvanceCooldown]

Goto(m, from, to) == phase[m] = from /\ phase' = [phase EXCEPT ![m] = to]

-----------------------------------------------------------------------------

(* A round closes: the next one is new to everybody.                       *)
CloseRound == age' = 0 /\ knows' = {}

Slot ==
    /\ age' = Capped(age + 1, RoundTimeout)
    /\ UNCHANGED <<phase, knows, stall_for, rested>>

Second ==
    /\ stall_for' = [m \in Clients |-> Capped(stall_for[m] + 1, RoundStall)]
    /\ rested' = [m \in Clients |-> Capped(rested[m] + 1, AdvanceCooldown)]
    /\ UNCHANGED <<age, phase, knows>>

(* Mutant: every fetch restarts the watchdog, not only a new height.       *)
Fetch_restarting(m) ==
    /\ knows' = knows \union {m}
    /\ stall_for' = [stall_for EXCEPT ![m] = 0]
    /\ rested' = [rested EXCEPT ![m] = AdvanceCooldown]
    /\ Goto(m, "fetch", "solve")
    /\ UNCHANGED age

(* The loop's fetch: a new height restarts the watchdog; a height known    *)
(* for too long sends the miner to advance the round.                      *)
Fetch(m) ==
    /\ \/ /\ m \notin knows
          /\ knows' = knows \union {m}
          /\ stall_for' = [stall_for EXCEPT ![m] = 0]
          /\ rested' = [rested EXCEPT ![m] = AdvanceCooldown]
          /\ Goto(m, "fetch", "solve")
       \/ /\ m \in knows
          /\ stall_for[m] = RoundStall /\ rested[m] = AdvanceCooldown
          /\ rested' = [rested EXCEPT ![m] = 0]
          /\ Goto(m, "fetch", "advance")
          /\ UNCHANGED <<knows, stall_for>>
       \/ /\ m \in knows
          /\ stall_for[m] < RoundStall \/ rested[m] < AdvanceCooldown
          /\ Goto(m, "fetch", "solve")
          /\ UNCHANGED <<knows, stall_for, rested>>
    /\ UNCHANGED age

(* A miner that is not steady may meet an RPC error, which ends it.        *)
Exit(m) ==
    /\ m \notin Steady
    /\ Goto(m, "fetch", "exited")
    /\ UNCHANGED <<age, knows, stall_for, rested>>

(* The race ends without a solution, or with one that is not accepted.     *)
SolveInVain(m) ==
    /\ Goto(m, "solve", "fetch")
    /\ UNCHANGED <<age, knows, stall_for, rested>>

(* A solution that wins the round.                                         *)
Mine(m) ==
    /\ Goto(m, "solve", "fetch")
    /\ CloseRound
    /\ UNCHANGED <<stall_for, rested>>

(* advance_empty_round executes, whichever round it now meets.             *)
AdvanceLands(m) ==
    /\ age = RoundTimeout
    /\ Goto(m, "advance", "fetch")
    /\ CloseRound
    /\ UNCHANGED <<stall_for, rested>>

(* It is lost, or the program finds the round still active.                *)
AdvanceFails(m) ==
    /\ Goto(m, "advance", "fetch")
    /\ UNCHANGED <<age, knows, stall_for, rested>>

Client(m) ==
    \/ Fetch(m) \/ SolveInVain(m) \/ AdvanceLands(m) \/ AdvanceFails(m)

Next ==
    \/ Slot \/ Second
    \/ \E m \in Clients : Client(m) \/ Exit(m) \/ Mine(m)

(* Time passes on both clocks, steady miners keep going, and the network   *)
(* does not lose every transaction of a miner that sends again and again.  *)
(* Nobody is obliged to find a solution.                                   *)
Spec ==
    /\ Init /\ [][Next]_vars
    /\ WF_vars(Slot) /\ WF_vars(Second)
    /\ \A m \in Steady : WF_vars(Client(m)) /\ SF_vars(AdvanceLands(m))

-----------------------------------------------------------------------------

(* Rounds never stop closing: as long as one miner keeps running, the      *)
(* chain moves, although the seconds its watchdog counts say nothing about *)
(* the slots that the program counts.                                      *)
RoundsKeepClosing == []<><<CloseRound>>_<<age, knows>>

=============================================================================
