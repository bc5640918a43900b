------------------------------ MODULE WebMiner ------------------------------
(***************************************************************************)
(* The stand-alone web miner (src/clients/web-miner/app/src): the page     *)
(* with its Start and Stop (App.tsx), the mining loop of each session      *)
(* (miner.ts) and the worker it solves on (solver.worker.ts).              *)
(*                                                                         *)
(* A session is one call of startMiner.  Its loop looks at `stopped` only  *)
(* at the top, so that a loop that was stopped goes on to the end of its   *)
(* round, next to the loop of a session started since.  A step is the code *)
(* from one await to the next.  What others do on chain, what a solver     *)
(* finds and what the wallet extension answers are free choices.           *)
(***************************************************************************)
EXTENDS Naturals, FiniteSets

CONSTANTS
    Sessions,   \* bound: calls of startMiner
    MaxSent,    \* bound: transactions counted per session after its stop
    NoSession

ASSUME WebMinerAssumption == NoSession \notin Sessions

VARIABLES
    connected,  \* wallet.publicKey is set
    config,     \* what the page knows: "none", "closed" or "open"
    running, progress, handle,  \* state and ref of the page
    credited,   \* whose blocks "this session" counts: blocksMinedSession and,
                \* at the reward shown when Start was pressed, eqmEarnedSession
    loop,       \* where each session's loop is
    stopped, worker,            \* the variables of its closure
    late        \* history: transactions sent after stop

page == <<connected, config, running, progress, handle, credited>>
mvars == <<page, loop, stopped, worker, late>>

MInit ==
    /\ connected = FALSE /\ config = "none"
    /\ running = FALSE /\ progress = "idle" /\ handle = NoSession
    /\ credited = {}
    /\ loop = [s \in Sessions |-> "new"]
    /\ stopped = [s \in Sessions |-> FALSE]
    /\ worker = [s \in Sessions |-> "none"]
    /\ late = [s \in Sessions |-> 0]

-----------------------------------------------------------------------------
(* The page.                                                               *)

(* The wallet adapter connects and disconnects; sessions go on.            *)
Connect ==
    /\ connected' = ~connected
    /\ UNCHANGED <<config, running, progress, handle, credited, loop, stopped, worker, late>>

(* What is read of the account; null stands for a failed request too.      *)
fetchConfig == {"none", "closed", "open"}

Refresh ==
    /\ connected
    /\ config' \in fetchConfig
    /\ UNCHANGED <<connected, running, progress, handle, credited, loop, stopped, worker, late>>

(* One of two buttons is on the screen, and Start may be disabled.         *)
Offers(button) ==
    IF running THEN button = "Stop"
    ELSE button = "Start mining" /\ connected /\ config = "open"

startMining ==
    /\ Offers("Start mining")
    /\ \E s \in Sessions :
          /\ loop[s] = "new"
          /\ loop' = [loop EXCEPT ![s] = "fetch"]
          /\ handle' = s
    /\ running' = TRUE /\ credited' = {}
    /\ UNCHANGED <<connected, config, progress, stopped, worker, late>>

(* stop terminates the worker: a job on it is never answered.              *)
stop(s) ==
    /\ stopped' = [stopped EXCEPT ![s] = TRUE]
    /\ worker' = [worker EXCEPT ![s] = "none"]
    /\ loop' = [loop EXCEPT ![s] = IF @ = "solve" THEN "hung" ELSE @]

stopMining ==
    /\ Offers("Stop") /\ stop(handle)
    /\ running' = FALSE /\ progress' = "idle" /\ handle' = NoSession
    /\ UNCHANGED <<connected, config, credited, late>>

-----------------------------------------------------------------------------
(* The loop of session s.                                                  *)

Goto(s, from, to) == loop[s] = from /\ loop' = [loop EXCEPT ![s] = to]

(* Mutant: the loop condition is forgotten.                                *)
Top_unchecked(s) == "fetch"

(* `continue` and the end of the body: back to `while (!stopped)`.         *)
Top(s) == IF stopped[s] THEN "ended" ELSE "fetch"

(* A job is posted, on a new worker if there is none, stopped or not.  A   *)
(* worker that died is kept and gets its jobs like any other.              *)
solveOnWorker(s) ==
    worker' = [worker EXCEPT ![s] = CASE @ = "none" -> "new"
                                      [] @ = "idle" -> "busy"
                                      [] OTHER -> @]

(* fetchConfig resolves.  No config or a closed program: sleep.            *)
Fetched(s) ==
    /\ \E cfg \in fetchConfig :
          \/ /\ cfg = "none" /\ Goto(s, "fetch", "sleep")
             /\ UNCHANGED <<config, progress, worker>>
          \/ /\ cfg = "closed" /\ Goto(s, "fetch", "sleep")
             /\ config' = cfg /\ UNCHANGED <<progress, worker>>
          \/ /\ cfg = "open" /\ Goto(s, "fetch", "solve")
             /\ config' = cfg /\ progress' = "solving"
             /\ solveOnWorker(s)
    /\ UNCHANGED <<connected, running, handle, credited>>

Sleep(s) == Goto(s, "sleep", Top(s)) /\ UNCHANGED <<page, worker>>

(* What the worker posts after at most 4096 nonces: its handler catches    *)
(* everything, WebAssembly that does not load too.                         *)
Replies == {"error", "no-solution", "solved"}

Answered(s) ==
    /\ worker[s] \in {"new", "busy"}
    /\ \E resp \in Replies :
          Goto(s, "solve", CASE resp = "error" -> "sleep"
                             [] resp = "no-solution" -> Top(s)
                             [] resp = "solved" -> "hash")
    /\ worker' = [worker EXCEPT ![s] = "idle"]
    /\ UNCHANGED page

(* The script of a new worker does not load.  Its error event, which comes *)
(* once, rejects the promise of the first job; nothing ever answers the    *)
(* next one.                                                               *)
ScriptFails(s) ==
    /\ worker[s] = "new" /\ Goto(s, "solve", "sleep")
    /\ worker' = [worker EXCEPT ![s] = "dead"]
    /\ UNCHANGED page

(* The hash of a solution and its input block falls on either side.        *)
hashUnderTarget == BOOLEAN

Hashed(s) ==
    /\ \E below \in hashUnderTarget :
          IF below THEN Goto(s, "hash", "prepare") /\ progress' = "submitting"
          ELSE Goto(s, "hash", Top(s)) /\ UNCHANGED progress
    /\ UNCHANGED <<connected, config, running, handle, credited, worker>>

(* The token program arrives; the instruction is built and a blockhash     *)
(* arrives; the wallet signs, if it still is connected; the transaction is *)
(* sent.                                                                   *)
detectTokenProgram(s) == Goto(s, "prepare", "build") /\ UNCHANGED <<page, worker>>

buildMineTx(s) == Goto(s, "build", "sign") /\ UNCHANGED <<page, worker>>

Signed(s) == connected /\ Goto(s, "sign", "send") /\ UNCHANGED <<page, worker>>

Sent(s) == Goto(s, "send", "confirm") /\ UNCHANGED <<page, worker>>

(* Mutant: a failed submission is not caught.                              *)
SubmitFails_uncaught(s) ==
    /\ \E at \in {"prepare", "build", "sign", "send", "confirm"} : Goto(s, at, "ended")
    /\ UNCHANGED <<page, worker>>

(* Any await of the submission throws: RPC errors, a wallet that refuses,  *)
(* a transaction that expires.                                             *)
SubmitFails(s) ==
    /\ \E at \in {"prepare", "build", "sign", "send", "confirm"} : Goto(s, at, "sleep")
    /\ UNCHANGED <<page, worker>>

(* confirmTransaction resolves, for a transaction that failed on chain too,*)
(* and the block is counted by the session that runs now.                  *)
Confirmed(s) ==
    /\ Goto(s, "confirm", Top(s))
    /\ progress' = "solving" /\ credited' = credited \union {s}
    /\ UNCHANGED <<connected, config, running, handle, worker>>

Submission(s) ==
    \/ detectTokenProgram(s) \/ buildMineTx(s) \/ Signed(s) \/ Sent(s)
    \/ SubmitFails(s) \/ Confirmed(s)

Loop(s) ==
    /\ \/ Fetched(s) \/ Sleep(s) \/ Answered(s) \/ ScriptFails(s) \/ Hashed(s)
       \/ Submission(s)
    /\ late' = [late EXCEPT ![s] =
                  IF stopped[s] /\ loop[s] = "send" /\ loop'[s] = "confirm" /\ @ < MaxSent
                  THEN @ + 1 ELSE @]
    /\ UNCHANGED stopped

MNext == Connect \/ Refresh \/ startMining \/ stopMining \/ \E s \in Sessions : Loop(s)

(* Promises settle and timers fire; the endpoint does not fail every call  *)
(* for ever and says at times that mining is open.                         *)
MFairness ==
    /\ \A s \in Sessions : WF_mvars(Loop(s))
    /\ \A s \in Sessions : SF_mvars(Loop(s) /\ loop[s] = "fetch" /\ loop'[s] = "solve")

MSpec == MInit /\ [][MNext]_mvars /\ MFairness

-----------------------------------------------------------------------------

TypeOK ==
    /\ connected \in BOOLEAN /\ running \in BOOLEAN
    /\ config \in {"none", "closed", "open"}
    /\ progress \in {"idle", "solving", "submitting"}
    /\ handle \in Sessions \union {NoSession} /\ credited \subseteq Sessions
    /\ loop \in [Sessions -> {"new", "fetch", "sleep", "solve", "hash", "prepare",
                              "build", "sign", "send", "confirm", "ended", "hung"}]
    /\ stopped \in [Sessions -> BOOLEAN]
    /\ worker \in [Sessions -> {"none", "new", "busy", "idle", "dead"}]
    /\ late \in [Sessions -> 0 .. MaxSent]

(* Stop does not cancel what is in flight, but it bounds it: a loop that   *)
(* was stopped sends at most one more transaction, with the solution it    *)
(* was working on, and starts no further round (miner.ts:75).              *)
LastWords ==
    \A s \in Sessions :
        /\ late[s] <= 1
        /\ late[s] = 1 /\ stopped[s] => loop[s] \in {"confirm", "sleep", "ended"}

(* Whatever fails, solver, endpoint, wallet or transaction, a session      *)
(* that is not stopped posts another job, and each job comes to its end,   *)
(* so that the session mines on (miner.ts:76-177).  The one wait without   *)
(* an end, but for Stop, is the one for a worker that never ran: it is     *)
(* kept after its error event, and there is no timeout (miner.ts:54-72).   *)
KeepsMining ==
    \A s \in Sessions :
        /\ loop[s] # "new" ~> loop[s] = "solve" \/ stopped[s]
        /\ loop[s] = "solve" ~> loop[s] # "solve" \/ stopped[s] \/ worker[s] = "dead"

=============================================================================
