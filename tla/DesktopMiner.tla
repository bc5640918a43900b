---------------------------- MODULE DesktopMiner ----------------------------
(***************************************************************************)
(* The desktop miner's backend (src/clients/desktop-miner/src-tauri/src):  *)
(* the commands the user interface calls, the application state behind one *)
(* mutex, and the mining thread that each start_mining spawns.             *)
(*                                                                         *)
(* Commands are not async, so they run one at a time on the main thread;   *)
(* between two of their lock() calls a mining thread may take the lock.    *)
(* Each start makes a new stop flag, named here by the session it stops.   *)
(* What the RPC node answers and what the solver finds is left open; logs, *)
(* events and statistics are left out.                                     *)
(***************************************************************************)
EXTENDS Naturals, FiniteSets

CONSTANTS
    MaxSessions,   \* bound: how many times start_mining gets past its check
    None           \* Option::None

ASSUME DesktopAssumption ==
    /\ MaxSessions \in Nat \ {0}
    /\ None \notin Nat

Sessions == 1..MaxSessions

VARIABLES
    unlocked,      \* AppState.unlocked: the decrypted keypair is there
    running,       \* MinerHandle.running
    stop_flag,     \* MinerHandle.stop_flag: the session whose flag it is
    command,       \* what the main thread is in the middle of
    sessions,      \* sessions started so far
    stopped,       \* the sessions whose flag is set
    thread         \* where each session's thread is

vars == <<unlocked, running, stop_flag, command, sessions, stopped, thread>>
miner == <<running, stop_flag>>

Init ==
    /\ unlocked = FALSE
    /\ running = FALSE
    /\ stop_flag = None
    /\ command = "none"
    /\ sessions = 0
    /\ stopped = {}
    /\ thread = [s \in Sessions |-> "none"]

-----------------------------------------------------------------------------
(* Commands.                                                               *)

(* create_wallet, import_wallet and unlock_wallet put a keypair in place.  *)
UnlockWallet ==
    /\ command = "none"
    /\ unlocked' = TRUE
    /\ UNCHANGED <<miner, command, sessions, stopped, thread>>

(* lock_wallet and forget_wallet drop it; neither touches the miner.       *)
LockWallet ==
    /\ command = "none"
    /\ unlocked' = FALSE
    /\ UNCHANGED <<miner, command, sessions, stopped, thread>>

(* start_mining, first lock: the checks and a copy of the key.  A new stop *)
(* flag, not set.                                                          *)
StartCheck ==
    /\ command = "none"
    /\ sessions < MaxSessions
    /\ ~running
    /\ unlocked
    /\ sessions' = sessions + 1
    /\ command' = "start"
    /\ UNCHANGED <<unlocked, miner, stopped, thread>>

(* Second lock: this session is the running one.                           *)
StartCommit ==
    /\ command = "start"
    /\ running' = TRUE
    /\ stop_flag' = sessions
    /\ command' = "spawn"
    /\ UNCHANGED <<unlocked, sessions, stopped, thread>>

(* The thread is spawned; or the operating system refuses one, the command *)
(* fails and the state stays as it is.                                     *)
StartSpawn ==
    /\ command = "spawn"
    /\ \/ thread' = [thread EXCEPT ![sessions] = "startup"]
       \/ UNCHANGED thread
    /\ command' = "none"
    /\ UNCHANGED <<unlocked, miner, sessions, stopped>>

StopMining ==
    /\ command = "none"
    /\ stopped' = stopped \union ({stop_flag} \ {None})
    /\ stop_flag' = None
    /\ running' = FALSE
    /\ UNCHANGED <<unlocked, command, sessions, thread>>

-----------------------------------------------------------------------------
(* A session's thread.                                                     *)

Goto(s, from, to) == thread[s] = from /\ thread' = [thread EXCEPT ![s] = to]

(* Mutant: only the flag is cleared.                                       *)
mark_stopped_flag_only == stop_flag' = None /\ UNCHANGED running

mark_stopped == running' = FALSE /\ stop_flag' = None

(* Key, configuration and mint owner; a failure ends the session at once.  *)
Startup(s) ==
    /\ \/ Goto(s, "startup", "loop") /\ UNCHANGED miner
       \/ Goto(s, "startup", "ended") /\ mark_stopped
    /\ UNCHANGED <<unlocked, command, sessions, stopped>>

(* Mutant: the loop does not look at its flag.                             *)
LoopTop_unchecked(s) ==
    /\ Goto(s, "loop", "fetch")
    /\ UNCHANGED <<unlocked, miner, command, sessions, stopped>>

LoopTop(s) ==
    /\ Goto(s, "loop", IF s \in stopped THEN "ending" ELSE "fetch")
    /\ UNCHANGED <<unlocked, miner, command, sessions, stopped>>

(* An RPC error or a closed network is waited out.  A stalled round is     *)
(* advanced, and then or otherwise the loop goes on.                       *)
Fetch(s) ==
    /\ \E next \in {"pause", "advance", "solve"} : Goto(s, "fetch", next)
    /\ UNCHANGED <<unlocked, miner, command, sessions, stopped>>

Advance(s) ==
    /\ Goto(s, "advance", "loop")
    /\ UNCHANGED <<unlocked, miner, command, sessions, stopped>>

(* Nothing below the target in 4096 nonces, or something to submit.        *)
Solve(s) ==
    /\ \E next \in {"loop", "submit"} : Goto(s, "solve", next)
    /\ UNCHANGED <<unlocked, miner, command, sessions, stopped>>

(* A refused submission is followed by a short wait.                       *)
Submit(s) ==
    /\ \E next \in {"loop", "pause"} : Goto(s, "submit", next)
    /\ UNCHANGED <<unlocked, miner, command, sessions, stopped>>

(* sleep_or_stop: cut short by the flag, else back to the loop.            *)
Pause(s) ==
    /\ \/ s \in stopped /\ Goto(s, "pause", "ending")
       \/ s \notin stopped /\ Goto(s, "pause", "loop")
    /\ UNCHANGED <<unlocked, miner, command, sessions, stopped>>

(* After the loop.                                                         *)
End(s) ==
    /\ Goto(s, "ending", "ended")
    /\ mark_stopped
    /\ UNCHANGED <<unlocked, command, sessions, stopped>>

(* Mutant: the panic is caught and nothing is cleaned up.                  *)
Panic_silent(s) ==
    /\ thread[s] \notin {"none", "ended"}
    /\ Goto(s, thread[s], "ended")
    /\ UNCHANGED <<miner, unlocked, command, sessions, stopped>>

(* The handler that catches a panic anywhere in the thread.                *)
Panic(s) ==
    /\ thread[s] \notin {"none", "ended"}
    /\ Goto(s, thread[s], "ended")
    /\ mark_stopped
    /\ UNCHANGED <<unlocked, command, sessions, stopped>>

Mining(s) ==
    \/ Startup(s) \/ LoopTop(s) \/ Fetch(s) \/ Advance(s) \/ Solve(s)
    \/ Submit(s) \/ Pause(s) \/ End(s)

Starting == StartCommit \/ StartSpawn

Next ==
    \/ UnlockWallet \/ LockWallet \/ StartCheck \/ Starting \/ StopMining
    \/ \E s \in Sessions : Mining(s) \/ Panic(s)

(* A command that began goes on, and so does every thread: its RPC calls   *)
(* time out, its solver has a nonce budget and its waits are finite.       *)
Spec == Init /\ [][Next]_vars
             /\ WF_vars(Starting) /\ \A s \in Sessions : WF_vars(Mining(s))

-----------------------------------------------------------------------------

Live == {s \in Sessions : thread[s] \notin {"none", "ended"}}

(* Type invariant.                                                         *)
TypeOK ==
    /\ unlocked \in BOOLEAN /\ running \in BOOLEAN
    /\ stop_flag \in Sessions \union {None}
    /\ command \in {"none", "start", "spawn"}
    /\ sessions \in 0..MaxSessions
    /\ stopped \subseteq Sessions
    /\ thread \in [Sessions -> {"none", "startup", "loop", "fetch", "pause", "advance",
                                "solve", "submit", "ending", "ended"}]

(* The application state is running exactly while it holds a stop flag,    *)
(* always that of the newest session, which nobody has stopped: whatever   *)
(* is stopped through it is what the user last started.  Threads of        *)
(* earlier sessions may clear the pair but never leave half of it.         *)
FlagOfNewest ==
    /\ running <=> stop_flag # None
    /\ running => stop_flag = sessions /\ sessions \notin stopped

(* The state never says running for a session whose thread has ended: a    *)
(* crash, a failed start and a stop all clear it.  It does say so for a    *)
(* session whose thread the operating system refused, until the user stops *)
(* that session.                                                           *)
RunningNotEnded == running => thread[sessions] # "ended"

(* A session that was told to stop ends, whatever it is in the middle of.  *)
StoppedEnds == \A s \in Sessions : s \in stopped ~> s \notin Live

(* One miner at a time: start_mining refuses with "miner already running"  *)
(* (miner.rs:101), so at most one live thread has not been told to stop.   *)
AtMostOneMiner == Cardinality(Live \ stopped) <= 1

=============================================================================
