------------------------------ MODULE GpuMiner ------------------------------
(***************************************************************************)
(* The GPU miner (src/clients/gpu-miner/equiumminer): a farm with one      *)
(* thread per device, which share a job slot and a queue of hits, and the  *)
(* main loop that polls the chain through a list of RPC endpoints, feeds   *)
(* the farm and sends what it finds.                                       *)
(*                                                                         *)
(* The chain is the number of rounds opened so far, 0 until fund_vault;    *)
(* round r has height r - 1, and a job, a hit or a transaction is the      *)
(* round whose I-block it is for.  Every endpoint serves the chain as it   *)
(* was some time ago.  Time is left out: whether the loop polls again in   *)
(* this iteration and whether it takes the round for stalled is open (see  *)
(* Watchdog.tla).  So are the kernel's finds, targets and CPU verification.*)
(***************************************************************************)
EXTENDS Naturals, Sequences

CONSTANTS
    Workers,     \* devices
    Providers,   \* how many RPC endpoints are configured
    Flaky,       \* those that may go down for good
    MaxRounds,   \* bound: rounds that open
    MaxHits,     \* MAX_HITS_PER_BATCH
    MaxQueue,    \* bound: hits that wait in the queue
    None

ASSUME GpuAssumption ==
    /\ Providers \in Nat \ {0} /\ Flaky \subseteq 0..(Providers - 1)
    /\ MaxRounds \in Nat /\ MaxHits \in Nat /\ MaxQueue \in Nat
    /\ None \notin Nat

Endpoints == 0..(Providers - 1)

VARIABLES
    rounds, won,        \* the chain, and the rounds that this miner closed
    served,             \* the chain as each endpoint serves it
    idx,                \* RpcRotator._idx
    main_loop,          \* where the main loop is
    onchain,            \* what its last poll returned
    current_height,     \* the round that the farm was last fed
    job, thread,        \* the job slot, and where each thread is
    results,            \* the queue of hits
    sent,               \* rounds for which a mine transaction is out
    claimed             \* rounds reported as "MINED BLOCK" and counted

chain == <<rounds, won, served>>
seen  == <<onchain, current_height>>
farm  == <<job, thread, results>>
book  == <<sent, claimed>>
gvars == <<chain, idx, main_loop, seen, farm, book>>

Waiting == [at |-> "idle", round |-> None, fresh |-> FALSE, hits |-> 0]

GInit ==
    /\ rounds = 0 /\ won = {}
    /\ served = [e \in Endpoints |-> 0]
    /\ idx = 0
    /\ main_loop = "startup"
    /\ onchain = None /\ current_height = None
    /\ job = None
    /\ thread = [w \in Workers |-> Waiting]
    /\ results = <<>>
    /\ sent = {} /\ claimed = {}

-----------------------------------------------------------------------------
(* The farm.                                                               *)

(* set_job under the lock.  A worker compares generations for equality     *)
(* only: it is fresh until the next set_job.                               *)
set_job(j) ==
    /\ job' = j
    /\ thread' = [w \in Workers |-> [thread[w] EXCEPT !.fresh = FALSE]]
    /\ UNCHANGED results

Become(w, what) == thread' = [thread EXCEPT ![w] = what]

(* Reads job and generation under the lock.                                *)
TakeJob(w) ==
    /\ thread[w].at = "idle"
    /\ main_loop \notin {"startup", "stopped"}
    /\ job # None
    /\ Become(w, [at |-> "launch", round |-> job, fresh |-> TRUE, hits |-> 0])
    /\ UNCHANGED <<chain, idx, main_loop, seen, job, results, book>>

(* A kernel run: some hits, or an error.                                   *)
Kernel(w) ==
    /\ thread[w].at = "launch"
    /\ \/ \E n \in 0..MaxHits : Become(w, [thread[w] EXCEPT !.at = "check", !.hits = n])
       \/ Become(w, Waiting)
    /\ UNCHANGED <<chain, idx, main_loop, seen, job, results, book>>

(* Compares the generation under the lock, and lets go of it.              *)
CheckGeneration(w) ==
    /\ thread[w].at = "check"
    /\ Become(w, IF thread[w].fresh /\ thread[w].hits > 0
                 THEN [thread[w] EXCEPT !.at = "put"] ELSE Waiting)
    /\ UNCHANGED <<chain, idx, main_loop, seen, job, results, book>>

(* Queues its hits one by one.                                             *)
Put(w) ==
    /\ thread[w].at = "put"
    /\ Len(results) < MaxQueue
    /\ results' = Append(results, thread[w].round)
    /\ Become(w, IF thread[w].hits > 1
                 THEN [thread[w] EXCEPT !.hits = @ - 1] ELSE Waiting)
    /\ UNCHANGED <<chain, idx, main_loop, seen, job, book>>

Worker(w) == TakeJob(w) \/ Kernel(w) \/ CheckGeneration(w) \/ Put(w)

-----------------------------------------------------------------------------
(* The main loop.                                                          *)

rotate == idx' = (idx + 1) % Providers

(* An endpoint answers with the config account, or before there is one.    *)
Answers(answer) == answer = served[idx] \/ (answer = None /\ served[idx] = 0)

(* One endpoint after the other, until one has the config account.         *)
StartupFails ==
    /\ main_loop = "startup"
    /\ rotate
    /\ UNCHANGED <<chain, main_loop, seen, farm, book>>

(* The mint is read next; an error there, or a program with other Equihash *)
(* parameters, ends the program before the farm starts.                    *)
Startup ==
    /\ main_loop = "startup"
    /\ Answers(served[idx])
    /\ main_loop' \in {"poll", "stopped"}
    /\ UNCHANGED <<chain, idx, seen, farm, book>>

(* Mutant: stays with the endpoint that failed.                            *)
PollFails_staying ==
    /\ main_loop = "poll"
    /\ onchain' = None
    /\ main_loop' = "watch"
    /\ UNCHANGED <<chain, idx, current_height, farm, book>>

(* fetch_config raises.                                                    *)
PollFails ==
    /\ main_loop = "poll"
    /\ rotate
    /\ onchain' = None
    /\ main_loop' = "watch"
    /\ UNCHANGED <<chain, current_height, farm, book>>

(* No config account there: the endpoint is kept.                          *)
PollNothing ==
    /\ main_loop = "poll"
    /\ Answers(None)
    /\ onchain' = None
    /\ main_loop' = "watch"
    /\ UNCHANGED <<chain, idx, current_height, farm, book>>

(* Mining is not open: the farm is idled and the loop starts over.         *)
PollClosed ==
    /\ main_loop = "poll"
    /\ Answers(0)
    /\ onchain' = 0
    /\ set_job(None)
    /\ UNCHANGED <<chain, idx, main_loop, current_height, book>>

(* The config of a round: a new one, which is not stalled, goes to the     *)
(* farm.                                                                   *)
PollRound ==
    /\ main_loop = "poll"
    /\ served[idx] > 0 /\ Answers(served[idx])
    /\ onchain' = served[idx]
    /\ \/ /\ current_height # served[idx]
          /\ current_height' = served[idx]
          /\ set_job(served[idx])
          /\ main_loop' = "drain"
       \/ /\ current_height = served[idx]
          /\ main_loop' = "watch"
          /\ UNCHANGED <<current_height, farm>>
    /\ UNCHANGED <<chain, idx, book>>

(* Less than a second since the last answer.  (After an answer without an  *)
(* account, such an iteration does nothing that the next one may not do.)  *)
PollLater ==
    /\ main_loop = "poll"
    /\ onchain \notin {None, 0}
    /\ main_loop' = "watch"
    /\ UNCHANGED <<chain, idx, seen, farm, book>>

(* It lands, or it is refused or lost.                                     *)
send_advance_empty_round_tx ==
    \/ rounds \in 1 .. MaxRounds - 1 /\ rounds' = rounds + 1
    \/ UNCHANGED rounds

(* The watchdog: the round has stalled, or not.                            *)
Watch ==
    /\ main_loop = "watch"
    /\ main_loop' = "drain"
    /\ \/ current_height # None /\ send_advance_empty_round_tx
       \/ UNCHANGED rounds
    /\ UNCHANGED <<won, served, idx, seen, farm, book>>

Drained ==
    /\ main_loop = "drain"
    /\ results = <<>>
    /\ main_loop' = "poll"
    /\ UNCHANGED <<chain, idx, seen, farm, book>>

Hit == Head(results)

(* Mutant: trusts that the farm dropped every stale hit.                   *)
Current_unchecked == onchain # None

Current == onchain # None /\ Hit = current_height

(* A stale hit, one above the target, one that the CPU refutes, or a dry   *)
(* run.                                                                    *)
Drop ==
    /\ main_loop = "drain"
    /\ results # <<>>
    /\ results' = Tail(results)
    /\ UNCHANGED <<chain, idx, main_loop, seen, job, thread, book>>

(* Preflight is skipped and nothing is confirmed.                          *)
send_mine_tx == sent' = sent \union {Hit}

(* A signature comes back, and the block counts as mined; or the call      *)
(* raises, with the transaction perhaps on its way.                        *)
Submit ==
    /\ main_loop = "drain"
    /\ results # <<>>
    /\ Current
    /\ results' = Tail(results)
    /\ \/ send_mine_tx /\ claimed' = claimed \union {Hit}
       \/ (send_mine_tx \/ UNCHANGED sent) /\ UNCHANGED claimed
    /\ UNCHANGED <<chain, idx, main_loop, seen, job, thread>>

(* Ctrl-C, or an exception that nobody catches: the finally block stops    *)
(* the farm.                                                               *)
Interrupt ==
    /\ main_loop # "stopped"
    /\ main_loop' = "stopped"
    /\ UNCHANGED <<chain, idx, seen, farm, book>>

MainLoop ==
    \/ StartupFails \/ Startup
    \/ PollFails \/ PollNothing \/ PollClosed \/ PollRound \/ PollLater
    \/ Watch \/ Drained \/ Drop \/ Submit

-----------------------------------------------------------------------------
(* The chain: others open and close rounds, endpoints catch up, and a      *)
(* transaction executes at any later time or never.                        *)

OthersMove ==
    /\ rounds < MaxRounds
    /\ rounds' = rounds + 1
    /\ UNCHANGED <<won, served, idx, main_loop, seen, farm, book>>

CatchUp(e) ==
    /\ served[e] < rounds
    /\ served' = [served EXCEPT ![e] = @ + 1]
    /\ UNCHANGED <<rounds, won, idx, main_loop, seen, farm, book>>

Executes ==
    /\ rounds \in sent /\ rounds < MaxRounds
    /\ won' = won \union {rounds}
    /\ rounds' = rounds + 1
    /\ UNCHANGED <<served, idx, main_loop, seen, farm, book>>

GNext ==
    \/ MainLoop \/ Interrupt \/ OthersMove \/ Executes
    \/ \E w \in Workers : Worker(w)
    \/ \E e \in Endpoints : CatchUp(e)

AnyPoll == PollFails \/ PollNothing \/ PollClosed \/ PollRound
Steady(A) == idx \notin Flaky /\ A
LookAtLast == (Drop \/ Submit) /\ results' = <<>>

(* The loop and the threads go on, a second passes and the loop polls      *)
(* again, endpoints catch up (one that answers but has stopped following   *)
(* the chain would hold the loop for ever), and one that is not flaky does *)
(* not fail every time it is asked.  The loop looks at hits faster than    *)
(* the devices find them, so that it gets to the end of the queue.         *)
(* Nothing is asked of the watchdog, of others or of transactions.         *)
GSpec ==
    /\ GInit /\ [][GNext]_gvars
    /\ WF_gvars(MainLoop) /\ SF_gvars(AnyPoll)
    /\ SF_gvars(Steady(Startup)) /\ SF_gvars(Steady(PollRound))
    /\ SF_gvars(Drained) /\ SF_gvars(LookAtLast)
    /\ \A w \in Workers : WF_gvars(Worker(w))
    /\ \A e \in Endpoints : WF_gvars(CatchUp(e))

-----------------------------------------------------------------------------

(* What is sent solves the round that the last poll showed, although hits  *)
(* of earlier rounds reach the queue when set_job comes between a thread's *)
(* look at the generation and its put, and endpoints may lead back to an   *)
(* earlier round.                                                          *)
SendsCurrentWork == [][sent' \ sent \subseteq {onchain}]_gvars

(* The farm follows the chain: a round that stays open gets worked on, as  *)
(* long as one endpoint stays up.  The exception is an endpoint that still *)
(* says "not open" after another one has shown the round: the farm is      *)
(* idled and the loop does not feed it that round again.                   *)
IdledByLag(r) == job = None /\ current_height = r
FollowsChain ==
    \A r \in 1..MaxRounds :
        rounds = r ~> job = r \/ rounds # r \/ IdledByLag(r) \/ main_loop = "stopped"

=============================================================================
