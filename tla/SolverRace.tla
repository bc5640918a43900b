----------------------------- MODULE SolverRace -----------------------------
(***************************************************************************)
(* race_for_solution of the command-line miner                             *)
(* (src/clients/cli-miner/src/main.rs): the main thread spawns one solver  *)
(* per core and waits for the first below-target solution.  The threads    *)
(* share a stop flag, a nonce counter and a channel that buffers one       *)
(* solution; its receiver lives until the function returns.                *)
(*                                                                         *)
(* A nonce is only counted.  Its outcome, a solution below the target or   *)
(* none, is left open; a solution is named by the worker that found it,    *)
(* who finds at most one.  A relaxed load of the flag that returns an old  *)
(* value is one that was executed before the store.                        *)
(*                                                                         *)
(* initialize stores whatever equihash parameters the admin sends          *)
(* (instructions/initialize.rs:38-39): the race may return before it has a *)
(* thread.  What the caller makes of the race belongs to it: without a     *)
(* winner it prints "exhausted" and counts every thread's whole budget.    *)
(***************************************************************************)
EXTENDS Naturals, Sequences, FiniteSets, Functions

CONSTANTS
    Workers,      \* the solver threads
    MaxTries,     \* max_per_thread, the nonces a thread may try
    Deadline,     \* whether the 600 seconds of recv_timeout can pass
    None          \* Option::None

Main == "main"    \* holder of the sender that race_for_solution itself keeps

ASSUME RaceAssumption ==
    /\ IsFiniteSet(Workers) /\ {Main, None} \intersect Workers = {}
    /\ MaxTries \in Nat \ {0}
    /\ Deadline \in BOOLEAN

VARIABLES
    pc,           \* where each worker is
    tried,        \* nonces each worker has tried
    found,        \* workers that found a below-target solution
    stop,         \* the stop flag
    total,        \* total_nonces
    channel,      \* the buffered solution, if any
    senders,      \* who still holds a sender
    main,         \* where the main thread is
    winner,       \* what recv_timeout returned
    timed_out,    \* recv_timeout gave up
    reported,     \* the nonce count handed to the caller
    counted,      \* what the caller adds to its own count
    valid         \* BaseState::new accepts the config's parameters

vars == <<pc, tried, found, stop, total, channel, senders, main, winner,
          timed_out, reported, counted, valid>>

caller == <<counted, valid>>

Init ==
    /\ pc = [w \in Workers |-> "unborn"]
    /\ tried = [w \in Workers |-> 0]
    /\ found = {}
    /\ stop = FALSE
    /\ total = 0
    /\ channel = <<>>
    /\ senders = {Main}
    /\ main = "start"
    /\ winner = None
    /\ timed_out = FALSE
    /\ reported = 0
    /\ counted = 0
    /\ valid \in BOOLEAN

-----------------------------------------------------------------------------
(* A worker.                                                               *)

Goto(w, label) == pc' = [pc EXCEPT ![w] = label]

(* while tried < max && !stop.load()                                       *)
Check(w) ==
    /\ pc[w] = "check"
    /\ Goto(w, IF tried[w] < MaxTries /\ ~stop THEN "try" ELSE "count")
    /\ UNCHANGED <<tried, found, stop, total, channel, senders, main, winner,
                   timed_out, reported, caller>>

(* One nonce: no solution, one above the target, or one below it.          *)
TryNonce(w) ==
    /\ pc[w] = "try"
    /\ tried' = [tried EXCEPT ![w] = @ + 1]
    /\ \/ Goto(w, "check") /\ UNCHANGED found
       \/ Goto(w, "send") /\ found' = found \union {w}
    /\ UNCHANGED <<stop, total, channel, senders, main, winner, timed_out, reported, caller>>

(* tx.send: blocks while the buffer is full.  It cannot fail: the receiver *)
(* outlives every worker, because the main thread joins them first.        *)
Send(w) ==
    /\ pc[w] = "send"
    /\ channel = <<>>
    /\ channel' = <<w>>
    /\ Goto(w, "flag")
    /\ UNCHANGED <<tried, found, stop, total, senders, main, winner, timed_out,
                   reported, caller>>

SetStop(w) ==
    /\ pc[w] = "flag"
    /\ stop' = TRUE
    /\ Goto(w, "count")
    /\ UNCHANGED <<tried, found, total, channel, senders, main, winner,
                   timed_out, reported, caller>>

(* total.fetch_add, after which the closure ends and drops its sender.     *)
Count(w) ==
    /\ pc[w] = "count"
    /\ total' = total + tried[w]
    /\ senders' = senders \ {w}
    /\ Goto(w, "done")
    /\ UNCHANGED <<tried, found, stop, channel, main, winner, timed_out, reported, caller>>

Worker(w) == Check(w) \/ TryNonce(w) \/ Send(w) \/ SetStop(w) \/ Count(w)

-----------------------------------------------------------------------------
(* The main thread.                                                        *)

(* BaseState::new(n, k, input).ok()?                                       *)
NewBase ==
    /\ main = "start"
    /\ main' = IF valid THEN "spawn" ELSE "returned"
    /\ UNCHANGED <<pc, tried, found, stop, total, channel, senders, winner,
                   timed_out, reported, caller>>

(* Workers start one after the other, each with a sender of its own.       *)
Spawn(w) ==
    /\ main = "spawn"
    /\ pc[w] = "unborn"
    /\ Goto(w, "check")
    /\ senders' = senders \union {w}
    /\ UNCHANGED <<tried, found, stop, total, channel, main, winner, timed_out, reported, caller>>

(* Mutant: the main thread keeps its own sender.                           *)
DropSender_forgotten ==
    /\ main = "spawn"
    /\ \A w \in Workers : pc[w] # "unborn"
    /\ main' = "recv"
    /\ UNCHANGED <<pc, tried, found, stop, total, channel, senders, winner,
                   timed_out, reported, caller>>

DropSender ==
    /\ main = "spawn"
    /\ \A w \in Workers : pc[w] # "unborn"
    /\ senders' = senders \ {Main}
    /\ main' = "recv"
    /\ UNCHANGED <<pc, tried, found, stop, total, channel, winner, timed_out, reported, caller>>

(* Mutant: try_recv, which does not wait.                                  *)
Disconnected_at_once == channel = <<>>

Disconnected == channel = <<>> /\ senders = {}

(* recv_timeout returns a solution, or an error because nobody is left who *)
(* could send one.  The main thread then raises the flag.                  *)
Receive ==
    /\ main = "recv"
    /\ \/ /\ channel # <<>>
          /\ winner' = Head(channel)
          /\ channel' = Tail(channel)
       \/ Disconnected /\ UNCHANGED <<winner, channel>>
    /\ main' = "stop"
    /\ UNCHANGED <<pc, tried, found, stop, total, senders, timed_out, reported, caller>>

(* recv_timeout gives up after 600 seconds.                                *)
TimeOut ==
    /\ main = "recv"
    /\ Deadline
    /\ channel = <<>>
    /\ timed_out' = TRUE
    /\ main' = "stop"
    /\ UNCHANGED <<pc, tried, found, stop, total, channel, senders, winner, reported, caller>>

RaiseStop ==
    /\ main = "stop"
    /\ stop' = TRUE
    /\ main' = "join"
    /\ UNCHANGED <<pc, tried, found, total, channel, senders, winner, timed_out, reported, caller>>

(* Mutant: the counter is read without waiting for the workers.            *)
Join_skipped ==
    /\ main = "join"
    /\ reported' = total
    /\ main' = "returned"
    /\ UNCHANGED <<pc, tried, found, stop, total, channel, senders, winner, timed_out,
                   caller>>

(* Joins every worker, then reads the counter and returns.                 *)
Join ==
    /\ main = "join"
    /\ \A w \in Workers : pc[w] = "done"
    /\ reported' = total
    /\ main' = "returned"
    /\ UNCHANGED <<pc, tried, found, stop, total, channel, senders, winner, timed_out,
                   caller>>

(* The caller: the count of a race with a winner is the one it was handed; *)
(* without one it is max_nonces_per_round * thread_count.                  *)
AddNonces ==
    /\ main = "returned"
    /\ counted' = IF winner # None THEN reported ELSE MaxTries * Cardinality(Workers)
    /\ main' = "added"
    /\ UNCHANGED <<pc, tried, found, stop, total, channel, senders, winner,
                   timed_out, reported, valid>>

MainThread ==
    \/ NewBase \/ (\E w \in Workers : Spawn(w)) \/ DropSender
    \/ Receive \/ RaiseStop \/ Join \/ AddNonces

(* The race is over: the caller goes on.                                   *)
Returned == main = "added" /\ UNCHANGED vars

Next == MainThread \/ TimeOut \/ (\E w \in Workers : Worker(w)) \/ Returned

(* The operating system schedules every thread that can run.  Nothing is   *)
(* assumed of the deadline: it need not pass.                              *)
Spec == Init /\ [][Next]_vars
             /\ WF_vars(MainThread) /\ \A w \in Workers : WF_vars(Worker(w))

-----------------------------------------------------------------------------

(* What the caller adds for a race with a winner is the number of nonces   *)
(* the workers tried, all of them, also those that were still busy when    *)
(* the winner came in: the hashrate shown is real.                         *)
CountIsExact ==
    main = "added" /\ winner # None => counted = SumFunction(tried)

(* What "exhausted", and the count that goes with it, mean.  Every budget  *)
(* was used up, nothing was found and the count is exact; or the 600       *)
(* seconds passed, and one solution at most was thrown away; or the        *)
(* parameters were refused, and nothing was tried at all.  The count never *)
(* falls short of the nonces tried.                                        *)
ExhaustedMeans ==
    main = "added" /\ winner = None =>
        /\ SumFunction(tried) <= counted
        /\ \/ found = {} /\ SumFunction(tried) = counted
           \/ timed_out /\ Cardinality(found) <= 1
           \/ ~valid /\ SumFunction(tried) = 0

(* A thread waits in send for somebody to receive while the main thread    *)
(* waits for it in join.  One solution is received and one is buffered, so *)
(* that takes three threads that found one before they looked at the flag  *)
(* again, or two once the deadline has passed.                             *)
Stuck ==
    /\ main = "join" /\ channel # <<>>
    /\ \E w \in Workers : pc[w] = "send"
    /\ Cardinality(found) >= (IF timed_out THEN 2 ELSE 3)

(* Nobody can go on, unless the deadline passes: every thread is done or   *)
(* blocked in send, the main thread waits for a solution or for a thread.  *)
EveryoneWaits ==
    /\ \A w \in Workers : pc[w] = "done" \/ (pc[w] = "send" /\ channel # <<>>)
    /\ \/ main = "recv" /\ channel = <<>> /\ senders # {}
       \/ main = "join" /\ \E w \in Workers : pc[w] # "done"

(* Threads and the main thread wait for each other in no other way         *)
(* (main.rs:475-494).                                                      *)
HangsOnlyStuck == EveryoneWaits => Stuck

(* Short of that the race returns to its caller, also when nobody finds    *)
(* anything and when the deadline never passes: "First below-target        *)
(* solution wins the round; others abort via the shared stop flag"         *)
(* (main.rs:225-226).                                                      *)
ReturnsUnlessStuck == <>(main = "added" \/ Stuck)

=============================================================================
