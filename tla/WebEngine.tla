----------------------------- MODULE WebEngine ------------------------------
(***************************************************************************)
(* The website's mining engine (src/clients/website/src/lib/               *)
(* miner-engine.ts).  The page runs one piece of JavaScript at a time: a   *)
(* piece ends at an await, so each action below is the code from one       *)
(* resumption to the next await.  Solver workers run in parallel and post  *)
(* their answers.                                                          *)
(*                                                                         *)
(* dispatchTo starts a lifecycle: solve, hash, maybe submit, dispatch      *)
(* again.  A slot is meant to have one lifecycle; the supervisor begins    *)
(* one on every slot it finds idle.  A job is the height it is solved for. *)
(* Hashes, amounts, logs and the page's status are left out, and so is a   *)
(* worker whose script fails to load.  A transaction that lands after the  *)
(* engine has given it up is one that somebody else sent.                  *)
(***************************************************************************)
EXTENDS Cores

CONSTANTS
    Slots,       \* the workers that a solver pool may have
    Chains,      \* bound: lifecycles a slot may have at once, as <<slot, number>>
    MaxHeight    \* bound: rounds that close

ASSUME WebAssumption ==
    /\ Slots = 1..Min({hardwareConcurrency, MAX_OVERRIDE})
    /\ Chains \subseteq Slots \X Nat /\ MaxHeight \in Nat

VARIABLES
    mining_open, height,   \* the config account on chain
    pool,                  \* workerCount of the session, 0 before it starts
    won,                   \* rounds that this engine's transactions closed
    stopped, submitting, currentConfig,
    busy,                  \* SolverSlot.busy
    chain,                 \* where each lifecycle is, and its config's height
    credited,              \* rounds reported with onBlockMined
    supervisor,            \* where the supervisor loop is
    cfg                    \* its copy of the config

onchain == <<mining_open, height, won>>
loop    == <<supervisor, cfg, currentConfig>>
page    == <<picker, pool>>
vars    == <<onchain, page, stopped, submitting, busy, chain, credited, loop>>

Idle == [at |-> "none", height |-> None]

Init ==
    /\ CInit /\ pool = 0
    /\ mining_open = FALSE /\ height = 0 /\ won = {}
    /\ stopped = FALSE /\ submitting = FALSE /\ currentConfig = None
    /\ busy = [s \in Slots |-> FALSE]
    /\ chain = [c \in Chains |-> Idle]
    /\ credited = {}
    /\ supervisor = "none" /\ cfg = None

-----------------------------------------------------------------------------
(* The life of one dispatch on slot c[1].                                  *)

Goto(c, to) == chain' = [chain EXCEPT ![c].at = to]
Rest(c, how) == chain' = [chain EXCEPT ![c] = [at |-> how, height |-> None]]

(* if (!stopped && currentConfig) dispatchTo(slot, currentConfig)          *)
Redispatch(c) ==
    IF ~stopped /\ currentConfig # None
    THEN /\ chain' = [chain EXCEPT ![c] = [at |-> "solving", height |-> currentConfig]]
         /\ busy' = [busy EXCEPT ![c[1]] = TRUE]
    ELSE chain' = [chain EXCEPT ![c] = Idle] /\ UNCHANGED busy

(* The worker's answer: an error, no solution, or a solution to hash.  A   *)
(* terminated worker does not answer.                                      *)
Answer(c) ==
    /\ chain[c].at = "solving"
    /\ ~stopped
    /\ \/ /\ Goto(c, "hashing") \/ Rest(c, "paused")
          /\ busy' = [busy EXCEPT ![c[1]] = FALSE]
       \/ Redispatch(c)
    /\ UNCHANGED <<onchain, page, stopped, submitting, credited, loop>>

(* setTimeout after a solver error.                                        *)
Resume(c) ==
    /\ chain[c].at = "paused"
    /\ Redispatch(c)
    /\ UNCHANGED <<onchain, page, stopped, submitting, credited, loop>>

(* A solution solves the block of the job it was found for, whatever the   *)
(* chain has come to; its hash falls on either side of the target.         *)
buildInputBlock(c) == chain[c].height
hashUnderTarget(block) == BOOLEAN

(* Mutant: `submitting` was looked at before the hash was awaited.         *)
Hashed_unchecked(c) ==
    /\ chain[c].at = "hashing"
    /\ \/ Redispatch(c) /\ UNCHANGED submitting
       \/ submitting' = TRUE /\ Goto(c, "preparing") /\ UNCHANGED busy
    /\ UNCHANGED <<onchain, page, stopped, credited, loop>>

(* sha256 resolved: above the target, or below it while another lifecycle  *)
(* submits, or below it and free to submit.                                *)
Hashed(c) ==
    /\ chain[c].at = "hashing"
    /\ \E below \in hashUnderTarget(buildInputBlock(c)) :
          IF below /\ ~submitting
          THEN submitting' = TRUE /\ Goto(c, "preparing") /\ UNCHANGED busy
          ELSE Redispatch(c) /\ UNCHANGED submitting
    /\ UNCHANGED <<onchain, page, stopped, credited, loop>>

(* Building, signing and sending the transaction, any of which may throw.  *)
Send(c) ==
    /\ chain[c].at = "preparing"
    /\ Goto(c, "sent") \/ Rest(c, "resting")
    /\ UNCHANGED <<onchain, page, stopped, submitting, busy, credited, loop>>

(* What the poll of the signature's status ends with; 90 seconds without an*)
(* answer that it could read are "lost", whatever became of the            *)
(* transaction.                                                            *)
waitForSignature(c) ==
    CASE chain[c].at = "landed" -> {"confirmed", "lost"}
      [] chain[c].at = "refused" -> {"failed", "lost"}
      [] chain[c].at = "sent" -> {"lost"}
      [] OTHER -> {}

(* Mutant: the early return of a lost transaction skips the finally block. *)
Settle_without_finally(c) ==
    /\ \/ /\ chain[c].at = "landed"
          /\ credited' = credited \union {chain[c].height}
          /\ submitting' = FALSE /\ Redispatch(c)
       \/ /\ chain[c].at = "refused" /\ Rest(c, "resting")
          /\ UNCHANGED <<submitting, busy, credited>>
       \/ /\ chain[c].at = "sent"
          /\ chain' = [chain EXCEPT ![c] = Idle]
          /\ UNCHANGED <<submitting, busy, credited>>
    /\ UNCHANGED <<onchain, page, stopped, loop>>
(* Mutant: a lost transaction falls through to onBlockMined.               *)
Settle_crediting_lost(c) ==
    /\ chain[c].at \in {"sent", "landed"}
    /\ credited' = credited \union {chain[c].height}
    /\ submitting' = FALSE
    /\ Redispatch(c)
    /\ UNCHANGED <<onchain, page, stopped, loop>>

Settle(c) ==
    /\ \E outcome \in waitForSignature(c) :
          \/ /\ outcome = "confirmed"
             /\ credited' = credited \union {chain[c].height}
             /\ submitting' = FALSE
             /\ Redispatch(c)
          \/ /\ outcome = "failed"
             /\ Rest(c, "resting")
             /\ UNCHANGED <<submitting, busy, credited>>
          \/ /\ outcome = "lost"
             /\ submitting' = FALSE
             /\ Redispatch(c)
             /\ UNCHANGED credited
    /\ UNCHANGED <<onchain, page, stopped, loop>>

(* The catch block's sleep is over; the finally block.                     *)
Rested(c) ==
    /\ chain[c].at = "resting"
    /\ submitting' = FALSE
    /\ Redispatch(c)
    /\ UNCHANGED <<onchain, page, stopped, credited, loop>>

Lifecycle(c) ==
    Answer(c) \/ Resume(c) \/ Hashed(c) \/ Send(c) \/ Settle(c) \/ Rested(c)

-----------------------------------------------------------------------------
(* The supervisor.                                                         *)

(* The lifecycles that a kick of the idle slots begins.                    *)
Of(s) == {c \in Chains : c[1] = s}
Free(s) == {c \in Of(s) : chain[c] = Idle}
Begun ==
    {c \in Chains : /\ c[1] <= pool /\ ~busy[c[1]] /\ ~submitting /\ ~stopped
                    /\ c \in Free(c[1]) /\ \A d \in Free(c[1]) : c[2] <= d[2]}

(* Kick any idle workers onto the given config.                            *)
Kick(h) ==
    /\ chain' = [c \in Chains |-> IF c \in Begun THEN [at |-> "solving", height |-> h]
                                              ELSE chain[c]]
    /\ busy' = [s \in Slots |-> busy[s] \/ Of(s) \intersect Begun # {}]

(* The account as it is; null when the request fails or there is none.     *)
fetchConfig == {None} \union {[miningOpen |-> mining_open, blockHeight |-> height]}

(* No answer, or a program that is not open.                               *)
PollInVain ==
    /\ supervisor = "fetch"
    /\ supervisor' = "sleep"
    /\ \E config \in fetchConfig :
          IF config = None THEN UNCHANGED currentConfig
          ELSE ~config.miningOpen /\ currentConfig' = config.blockHeight
    /\ UNCHANGED <<cfg, onchain, page, stopped, submitting, busy, chain, credited>>

(* It answered: advance a round that has stalled, else kick.               *)
Poll ==
    /\ supervisor = "fetch"
    /\ \E config \in fetchConfig \ {None} :
          /\ config.miningOpen
          /\ currentConfig' = config.blockHeight
          /\ \/ /\ ~submitting
                /\ supervisor' = "advance" /\ cfg' = config.blockHeight
                /\ UNCHANGED <<busy, chain>>
             \/ /\ supervisor' = "sleep"
                /\ Kick(config.blockHeight)
                /\ UNCHANGED cfg
    /\ UNCHANGED <<onchain, page, stopped, submitting, credited>>

(* The transaction lands, or is refused or lost.                           *)
submitAdvanceEmptyRound == {height} \union ({height + 1} \cap (0..MaxHeight))

(* Then kick, with the config from before.                                 *)
Advanced ==
    /\ supervisor = "advance"
    /\ supervisor' = "sleep" /\ cfg' = None
    /\ Kick(cfg)
    /\ height' \in submitAdvanceEmptyRound
    /\ UNCHANGED <<mining_open, won, page, stopped, submitting, credited, currentConfig>>

(* Mutant: the loop does not look at `stopped`.                            *)
Wake_forever ==
    /\ supervisor = "sleep"
    /\ supervisor' = "fetch"
    /\ UNCHANGED <<cfg, currentConfig, onchain, page, stopped, submitting, busy, chain,
                   credited>>

Wake ==
    /\ supervisor = "sleep"
    /\ supervisor' = IF stopped THEN "ended" ELSE "fetch"
    /\ UNCHANGED <<cfg, currentConfig, onchain, page, stopped, submitting, busy, chain,
                   credited>>

Supervisor == PollInVain \/ Poll \/ Advanced \/ Wake

-----------------------------------------------------------------------------
(* The user and the chain.                                                 *)

(* The picker, which is disabled while a session runs.                     *)
Pick ==
    /\ useWorkerCount \/ CoresPicker(pool > 0 /\ ~stopped) \/ (pool = 0 /\ ReloadPicker)
    /\ UNCHANGED <<onchain, pool, stopped, submitting, busy, chain, credited, loop>>

(* Start mining, which the dashboard offers when it has read the chain.    *)
Start ==
    /\ pool = 0 /\ max # 0
    /\ pool' = pickWorkerCount(n)
    /\ supervisor' = "fetch"
    /\ UNCHANGED <<onchain, picker, stopped, submitting, busy, chain, credited, cfg,
                   currentConfig>>

(* stop: terminates the workers.                                           *)
Stop ==
    /\ pool > 0 /\ ~stopped
    /\ stopped' = TRUE
    /\ UNCHANGED <<onchain, page, submitting, busy, chain, credited, loop>>

(* fund_vault opens mining; others close rounds.                           *)
OthersMove ==
    /\ \/ ~mining_open /\ mining_open' = TRUE /\ UNCHANGED height
       \/ /\ mining_open /\ height < MaxHeight
          /\ height' = height + 1
          /\ UNCHANGED mining_open
    /\ UNCHANGED <<won, page, stopped, submitting, busy, chain, credited, loop>>

(* A mine transaction names no round: its solution solves the one of its   *)
(* block, and mine accepts it while that one is open.                      *)
buildMineTx(c) == buildInputBlock(c)

(* Or it is refused, because that round is over or for a reason of its own,*)
(* like a fee that cannot be paid.                                         *)
Executes(c) ==
    /\ chain[c].at = "sent"
    /\ \/ /\ buildMineTx(c) = height /\ height < MaxHeight
          /\ Goto(c, "landed")
          /\ won' = won \union {height}
          /\ height' = height + 1
       \/ /\ Goto(c, "refused")
          /\ UNCHANGED <<won, height>>
    /\ UNCHANGED <<mining_open, page, stopped, submitting, busy, credited, loop>>

Next ==
    \/ Supervisor \/ Pick \/ Start \/ Stop \/ OthersMove
    \/ \E c \in Chains : Lifecycle(c) \/ Executes(c)

(* Timers fire, promises settle, a worker answers after at most 4096       *)
(* nonces, and the RPC does not fail every poll.                           *)
Spec ==
    /\ Init /\ [][Next]_vars
    /\ WF_vars(Supervisor) /\ SF_vars(Poll)
    /\ \A c \in Chains : WF_vars(Lifecycle(c))

-----------------------------------------------------------------------------

Submitters ==
    {c \in Chains : chain[c].at \in {"preparing", "sent", "landed", "refused", "resting"}}

(* `submitting` is a lock: one lifecycle at most is between its check and  *)
(* its finally block, and the flag is set exactly while there is one, also *)
(* when the user stops the engine in between.                              *)
SubmittingIsHeld == Cardinality(Submitters) = IF submitting THEN 1 ELSE 0

(* A round is reported as mined only when this engine's transaction closed *)
(* it, although the config the report quotes may be long out of date and   *)
(* transactions may land unnoticed, late or not at all.                    *)
CreditsAreReal == credited \subseteq won

(* Once mining is open, every worker gets a job again and again, until the *)
(* engine is stopped: no error, lost race or lost transaction idles a slot *)
(* for good.                                                               *)
Working(s) == \E c \in Of(s) : chain[c].at = "solving"
SlotsKeepWorking ==
    \A s \in Slots : (mining_open /\ s <= pool) ~> (stopped \/ Working(s))

(* "Clamps to [1, max]" (MineDashboard.tsx:631): while a session runs, the *)
(* picker shows a number of processors that there are, and that many       *)
(* workers mine, up to the engine's own limit; whatever an earlier visit   *)
(* has left in localStorage.                                               *)
PoolIsShown ==
    pool > 0 /\ ~stopped =>
      /\ n \in 1..hardwareConcurrency
      /\ pool = Min({n, MAX_OVERRIDE})

(* After stop everything winds down: the supervisor leaves its loop and no *)
(* lifecycle is left in the middle of something, whatever was in flight.   *)
Quiet ==
    /\ supervisor = "ended"
    /\ \A c \in Chains : chain[c].at \in {"none", "solving"}
StopDrains == stopped ~> []Quiet

=============================================================================
