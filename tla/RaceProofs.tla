----------------------------- MODULE RaceProofs -----------------------------
(***************************************************************************)
(* Proofs about SolverRace, for any number of threads, any budget and a    *)
(* deadline that may or may not pass: what the caller adds to its count is *)
(* the sum of what the threads tried, or what they were allowed to try,    *)
(* and what it can conclude from a race without a winner.                  *)
(***************************************************************************)
EXTENDS SolverRace, SumProofs

Labels == {"unborn", "check", "try", "send", "flag", "count", "done"}
Places == {"start", "spawn", "recv", "stop", "join", "returned", "added"}

Types ==
    /\ pc \in [Workers -> Labels] /\ tried \in [Workers -> 0..MaxTries]
    /\ found \subseteq Workers /\ senders \subseteq Workers \union {Main}
    /\ stop \in BOOLEAN /\ timed_out \in BOOLEAN /\ main \in Places
    /\ channel = <<>> \/ \E w \in Workers : channel = <<w>>
    /\ winner \in Workers \union {None} /\ valid \in BOOLEAN

(* What each thread has added to the counter.                              *)
Counted == [w \in Workers |-> IF pc[w] = "done" THEN tried[w] ELSE 0]

Tally == total = SumFunctionOnSet(Counted, Workers)

(* A solution is in the channel, or was received.                          *)
Sent == channel # <<>> \/ winner # None

(* The main thread has raised the flag.                                    *)
Raised == main \in {"join", "returned", "added"}

(* The function has returned.                                              *)
Over == main \in {"returned", "added"}

(* The threads run.                                                        *)
Launched == valid /\ main \notin {"start", "spawn"}

(* A thread leaves its loop with its budget used up, or because the flag   *)
(* is up, and while it is in it holds a sender.                            *)
ThreadOk(w) ==
    /\ pc[w] = "try" => tried[w] < MaxTries
    /\ pc[w] \notin {"unborn", "done"} => w \in senders
    /\ pc[w] \in {"send", "flag"} => w \in found
    /\ w \in found => pc[w] = "send" \/ channel = <<w>> \/ winner = w
    /\ pc[w] \in {"count", "done"} => tried[w] = MaxTries \/ Sent \/ timed_out \/ Raised
    /\ Launched => pc[w] # "unborn"
    /\ Launched /\ Over => pc[w] = "done"

(* A race that nobody won and that did not time out: its threads are done. *)
Lost(w) == pc[w] = "done" /\ tried[w] = MaxTries /\ w \notin found

NobodyWon ==
    valid /\ main \in {"stop", "join", "returned", "added"} /\ winner = None /\ ~timed_out

MainOk ==
    /\ stop => Sent \/ timed_out \/ Raised
    /\ main \in {"start", "spawn", "recv"} => winner = None /\ ~timed_out
    /\ Over => reported = total
    /\ main = "added" =>
          counted = IF winner # None THEN reported ELSE MaxTries * Cardinality(Workers)

(* Parameters that are refused: no thread is ever started.                 *)
Refused ==
    /\ winner = None /\ total = 0 /\ reported = 0 /\ found = {} /\ channel = <<>>
    /\ main \in {"start", "returned", "added"}
    /\ \A w \in Workers : pc[w] = "unborn" /\ tried[w] = 0

(* What was sent was found, and its sender is past send; no solution is    *)
(* sent twice.  Who holds a sender can still send.                         *)
Gone(w) == w \in found /\ pc[w] \in {"flag", "count", "done"}

SendersOk ==
    /\ \A w \in Workers : channel = <<w>> => Gone(w) /\ winner # w
    /\ winner # None => Gone(winner)
    /\ \A w \in Workers : w \in senders => pc[w] \notin {"unborn", "done"}
    /\ Launched => Main \notin senders

(* The inductive invariant.                                                *)
RaceInv ==
    /\ Types /\ Tally /\ MainOk /\ SendersOk
    /\ \A w \in Workers : ThreadOk(w)
    /\ NobodyWon => \A w \in Workers : Lost(w)
    /\ ~valid => Refused

-----------------------------------------------------------------------------

LEMMA RaceStart == Init => RaceInv
<1> SUFFICES ASSUME Init PROVE RaceInv
  OBVIOUS
<1> USE DEF Init
<1>1. Types
  <2>1. pc \in [Workers -> Labels] /\ main \in Places
    BY DEF Labels, Places
  <2>2. tried \in [Workers -> 0..MaxTries]
    BY RaceAssumption
  <2>. QED BY <2>1, <2>2 DEF Types
<1>2. Tally
  <2>1. \A w \in Workers : Counted[w] = 0
    BY DEF Counted
  <2>. QED BY <2>1, SumZero, RaceAssumption DEF Tally
<1>3. \A w \in Workers : ThreadOk(w)
  BY RaceAssumption DEF ThreadOk, Launched
<1>4. SendersOk
  BY RaceAssumption DEF SendersOk, Launched
<1>5. ~valid => Refused
  BY DEF Refused
<1>. QED BY <1>1, <1>2, <1>3, <1>4, <1>5 DEF RaceInv, MainOk, NobodyWon, Over

LEMMA TypesStep == Types /\ (\A w \in Workers : ThreadOk(w)) /\ [Next]_vars => Types'
<1> SUFFICES ASSUME Types, \A w \in Workers : ThreadOk(w), [Next]_vars PROVE Types'
  OBVIOUS
<1> USE DEF Types, Labels, Places, caller
<1>1. ASSUME NEW w \in Workers, Check(w) PROVE Types'
  BY <1>1 DEF Check, Goto
<1>2. ASSUME NEW w \in Workers, TryNonce(w) PROVE Types'
  <2>1. tried[w] + 1 \in 0..MaxTries
    BY <1>2, RaceAssumption DEF TryNonce, ThreadOk
  <2>2. tried' \in [Workers -> 0..MaxTries]
    BY <1>2, <2>1 DEF TryNonce
  <2>. QED BY <1>2, <2>2 DEF TryNonce, Goto
<1>3. ASSUME NEW w \in Workers, Send(w) PROVE Types'
  BY <1>3 DEF Send, Goto
<1>4. ASSUME NEW w \in Workers, SetStop(w) \/ Count(w) PROVE Types'
  BY <1>4 DEF SetStop, Count, Goto
<1>5. ASSUME NEW w \in Workers, Spawn(w) PROVE Types'
  BY <1>5 DEF Spawn, Goto
<1>6. CASE Receive
  <2>1. CASE channel # <<>> /\ winner' = Head(channel) /\ channel' = Tail(channel)
    <3>1. PICK w \in Workers : channel = <<w>>
      BY <2>1
    <3>2. winner' = w /\ channel' = <<>>
      BY <2>1, <3>1
    <3>. QED BY <1>6, <3>2 DEF Receive
  <2>2. CASE UNCHANGED <<winner, channel>>
    BY <1>6, <2>2 DEF Receive
  <2>. QED BY <1>6, <2>1, <2>2 DEF Receive
<1>7. CASE NewBase \/ DropSender \/ TimeOut \/ RaiseStop \/ Join \/ AddNonces
  BY <1>7 DEF NewBase, DropSender, TimeOut, RaiseStop, Join, AddNonces
<1>8. CASE UNCHANGED vars
  BY <1>8 DEF vars
<1>. QED BY <1>1, <1>2, <1>3, <1>4, <1>5, <1>6, <1>7, <1>8 DEF Next, MainThread, Worker, Returned

(* A step that counts no thread leaves the sum alone.                      *)
LEMMA TallyKept ==
    ASSUME Tally, UNCHANGED total, \A w \in Workers : Counted'[w] = Counted[w]
    PROVE  Tally'
<1> DEFINE e == Counted'
<1>1. AgreeOn(e, Counted, Workers)
  BY DEF AgreeOn
<1> HIDE DEF e
<1>2. SumFunctionOnSet(e, Workers) = SumFunctionOnSet(Counted, Workers)
  BY <1>1, SumAgree, RaceAssumption
<1>. QED BY <1>2 DEF Tally, e

LEMMA TallyStep == Types /\ Tally /\ [Next]_vars => Tally'
<1> SUFFICES ASSUME Types, Tally, [Next]_vars PROVE Tally'
  OBVIOUS
<1>1. ASSUME NEW w \in Workers, Count(w) PROVE Tally'
  <2> DEFINE e == Counted'
  <2>1. /\ pc[w] = "count" /\ pc' = [pc EXCEPT ![w] = "done"] /\ tried' = tried
        /\ total' = total + tried[w] /\ pc \in [Workers -> Labels]
        /\ \A x \in Workers : tried[x] \in Nat
    BY <1>1, RaceAssumption DEF Count, Goto, Types
  <2>2. /\ Counted[w] = 0 /\ e[w] = tried[w]
        /\ \A x \in Workers : /\ Counted[x] \in Int /\ e[x] \in Int
                              /\ x # w => e[x] = Counted[x]
    BY <2>1 DEF Counted
  <2> HIDE DEF e
  <2>3. /\ SumFunctionOnSet(e, Workers)
             = SumFunctionOnSet(Counted, Workers) + (e[w] - Counted[w])
        /\ SumFunctionOnSet(Counted, Workers) \in Int
    BY <2>2, SumChange, SumTyped, RaceAssumption
  <2>4. total' = SumFunctionOnSet(e, Workers)
    BY <2>1, <2>2, <2>3 DEF Tally
  <2>. QED BY <2>4 DEF Tally, e
<1>2. ASSUME NEW w \in Workers, Check(w) \/ TryNonce(w) \/ Send(w) \/ SetStop(w) \/ Spawn(w)
      PROVE  Tally'
  <2>1. /\ \A x \in Workers : pc'[x] = "done" <=> pc[x] = "done"
        /\ \A x \in Workers : pc[x] = "done" => tried'[x] = tried[x]
        /\ UNCHANGED total
    BY <1>2 DEF Check, TryNonce, Send, SetStop, Spawn, Goto, Types
  <2>2. \A x \in Workers : Counted'[x] = Counted[x]
    BY <2>1 DEF Counted
  <2>. QED BY <2>1, <2>2, TallyKept
<1>3. CASE \/ NewBase \/ DropSender \/ Receive \/ TimeOut \/ RaiseStop \/ Join
           \/ AddNonces \/ UNCHANGED vars
  <2>1. UNCHANGED <<total, pc, tried>>
    BY <1>3 DEF NewBase, DropSender, Receive, TimeOut, RaiseStop, Join, AddNonces, vars
  <2>. QED BY <2>1, TallyKept DEF Counted
<1>. QED BY <1>1, <1>2, <1>3 DEF Next, MainThread, Worker, Returned

(* A thread's step and the rules of every thread.                          *)
LEMMA WorkerKeeps ==
    ASSUME Types, MainOk, \A x \in Workers : ThreadOk(x),
           NobodyWon => \A x \in Workers : Lost(x), ~valid => Refused,
           NEW w \in Workers, Worker(w)
    PROVE  /\ MainOk' /\ \A x \in Workers : ThreadOk(x)'
           /\ NobodyWon' => \A x \in Workers : Lost(x)'
           /\ ~valid' => Refused'
<1>1. /\ ThreadOk(w) /\ pc[w] \notin {"unborn", "done"} /\ w \in senders
      /\ UNCHANGED <<main, winner, timed_out, reported, counted, valid>> /\ ~NobodyWon
      /\ pc \in [Workers -> Labels] /\ tried \in [Workers -> 0..MaxTries]
  BY DEF Worker, Check, TryNonce, Send, SetStop, Count, ThreadOk, Types, Lost, caller
<1>2. ~NobodyWon' /\ valid /\ ~Over /\ ~Over' /\ (Launched' <=> Launched)
  BY <1>1 DEF NobodyWon, ThreadOk, Refused, Launched, Over
<1>3. Sent => Sent'
  BY <1>1 DEF Worker, Check, TryNonce, Send, SetStop, Count, Sent
<1> USE <1>1, <1>2, <1>3 DEF Goto, Over
<1>4. CASE Check(w)
  BY <1>4, RaceAssumption DEF Check, ThreadOk, MainOk, Sent, Raised
<1>5. CASE TryNonce(w)
  BY <1>5, RaceAssumption DEF TryNonce, ThreadOk, MainOk, Sent, Raised
<1>6. CASE Send(w)
  <2>1. Sent'
    BY <1>6 DEF Send, Sent
  <2>. QED BY <1>6, <2>1 DEF Send, ThreadOk, MainOk, Raised
<1>7. CASE SetStop(w)
  <2>1. w \in found /\ w # None /\ (channel = <<w>> \/ winner = w)
    BY <1>7, RaceAssumption DEF SetStop, ThreadOk
  <2>2. <<w>> # << >>
    OBVIOUS
  <2>3. Sent
    BY <2>1, <2>2 DEF Sent
  <2>. QED BY <1>7, <2>3 DEF SetStop, ThreadOk, MainOk, Raised
<1>8. CASE Count(w)
  BY <1>8 DEF Count, ThreadOk, MainOk, Sent, Raised
<1>. QED BY <1>4, <1>5, <1>6, <1>7, <1>8 DEF Worker

(* A step of the main thread, whose join and whose receive are where the   *)
(* invariant pays: nobody holds a sender, so every thread is done.         *)
LEMMA MainKeeps ==
    ASSUME Types, MainOk, \A x \in Workers : ThreadOk(x),
           NobodyWon => \A x \in Workers : Lost(x), ~valid => Refused,
           MainThread \/ TimeOut
    PROVE  /\ MainOk' /\ \A x \in Workers : ThreadOk(x)'
           /\ NobodyWon' => \A x \in Workers : Lost(x)'
           /\ ~valid' => Refused'
<1>0. /\ UNCHANGED valid /\ valid \in BOOLEAN
      /\ ~valid => ~Launched /\ ~Launched' /\ ~NobodyWon'
  BY DEF MainThread, NewBase, Spawn, DropSender, Receive, TimeOut, RaiseStop, Join, AddNonces,
     caller, Launched, NobodyWon, Types
<1>8. CASE NewBase
  BY <1>0, <1>8 DEF NewBase, ThreadOk, MainOk, Sent, Raised, NobodyWon, Over, Launched, Refused,
     caller
<1>9. CASE AddNonces
  BY <1>0, <1>9 DEF AddNonces, ThreadOk, MainOk, Sent, Raised, NobodyWon, Over, Launched, Refused,
     Lost
<1> USE <1>0 DEF Over, Launched, Refused, caller
<1>1. ASSUME NEW w \in Workers, Spawn(w)
      PROVE  MainOk' /\ (\A x \in Workers : ThreadOk(x)') /\ ~NobodyWon' /\ valid
  BY <1>1 DEF Spawn, Goto, Types, ThreadOk, MainOk, Sent, Raised, NobodyWon
<1>2. CASE DropSender
  BY <1>2, RaceAssumption DEF DropSender, ThreadOk, MainOk, Sent, Raised, NobodyWon
<1>3. CASE Receive /\ channel # <<>>
  <2>1. PICK w \in Workers : channel = <<w>>
    BY <1>3 DEF Types
  <2>2. winner' = w /\ w # None
    BY <1>3, <2>1, RaceAssumption DEF Receive, Disconnected
  <2>3. Sent' /\ ~NobodyWon' /\ main = "recv" /\ main' = "stop"
        /\ UNCHANGED <<pc, tried, found, stop, senders, timed_out, reported>>
    BY <1>3, <2>2 DEF Receive, Sent, NobodyWon
  <2>4. /\ winner = None /\ ~timed_out /\ valid
        /\ \A x \in Workers : x # None /\ (channel = <<x>> => x = w)
    BY <2>1, <2>3, RaceAssumption DEF MainOk, Types
  <2>. QED BY <2>2, <2>3, <2>4 DEF ThreadOk, MainOk, Raised
<1>4. CASE Receive /\ channel = <<>>
  <2>1. /\ senders = {} /\ main = "recv" /\ main' = "stop"
        /\ UNCHANGED <<pc, tried, found, stop, senders, timed_out, reported, winner, channel>>
    BY <1>4 DEF Receive, Disconnected
  <2>2. ~Sent /\ ~timed_out /\ ~Raised
    BY <1>4, <2>1 DEF MainOk, Sent, Raised
  <2>3. \A x \in Workers : Lost(x)
    <3>1. valid /\ winner = None /\ channel = <<>> /\ \A x \in Workers : x # None
      BY <1>4, <2>1, RaceAssumption DEF MainOk, Types
    <3>. QED BY <2>1, <2>2, <3>1 DEF ThreadOk, Lost
  <2>. QED BY <2>1, <2>2, <2>3 DEF ThreadOk, MainOk, Sent, Raised, Lost
<1>5. CASE TimeOut
  BY <1>5 DEF TimeOut, ThreadOk, MainOk, Sent, Raised, NobodyWon
<1>6. CASE RaiseStop
  BY <1>6 DEF RaiseStop, ThreadOk, MainOk, Sent, Raised, NobodyWon, Lost
<1>7. CASE Join
  BY <1>7 DEF Join, ThreadOk, MainOk, Sent, Raised, NobodyWon, Lost
<1>. QED BY <1>1, <1>2, <1>3, <1>4, <1>5, <1>6, <1>7, <1>8, <1>9 DEF MainThread

(* A solution that is sent is taken out of the channel before it is the    *)
(* winner, and its thread does not come back to send.                      *)
LEMMA SendersStep ==
    ASSUME Types, Types', MainOk, \A x \in Workers : ThreadOk(x), SendersOk,
           ~valid => Refused, [Next]_vars
    PROVE  SendersOk'
<1> USE DEF Types, Launched, caller
<1>1. ASSUME NEW w \in Workers, Check(w) \/ TryNonce(w) \/ SetStop(w) \/ Count(w) PROVE SendersOk'
  <2>1. /\ pc[w] \in {"check", "try", "flag", "count"} /\ UNCHANGED <<channel, winner, main, valid>>
        /\ found \subseteq found' /\ senders' \subseteq senders
        /\ \A x \in Workers : x # w => pc'[x] = pc[x]
        /\ pc[w] \in {"flag", "count"} => pc'[w] \in {"count", "done"}
        /\ pc'[w] \in {"unborn", "done"} => w \notin senders'
    BY <1>1, RaceAssumption DEF Check, TryNonce, SetStop, Count, Goto
  <2>2. \A x \in Workers : Gone(x) => Gone(x)'
    BY <2>1 DEF Gone
  <2>. QED BY <2>1, <2>2 DEF SendersOk
<1>2. ASSUME NEW w \in Workers, Send(w) PROVE SendersOk'
  <2>1. /\ pc[w] = "send" /\ w \in found /\ channel' = <<w>> /\ pc'[w] = "flag"
        /\ UNCHANGED <<found, winner, senders, main, valid>>
        /\ \A x \in Workers : x # w => pc'[x] = pc[x]
    BY <1>2 DEF Send, Goto, ThreadOk
  <2>2. \A x \in Workers : Gone(x) => Gone(x)'
    BY <2>1 DEF Gone
  <2>3. Gone(w)' /\ winner # w
    BY <2>1, RaceAssumption DEF Gone, SendersOk
  <2>4. \A x \in Workers : channel' = <<x>> => x = w
    BY <2>1
  <2>. QED BY <2>1, <2>2, <2>3, <2>4 DEF SendersOk
<1>3. ASSUME NEW w \in Workers, Spawn(w) PROVE SendersOk'
  <2>1. /\ main = "spawn" /\ main' = main /\ pc[w] = "unborn" /\ pc'[w] = "check"
        /\ UNCHANGED <<found, winner, channel>> /\ senders' = senders \union {w}
        /\ \A x \in Workers : x # w => pc'[x] = pc[x]
    BY <1>3 DEF Spawn, Goto
  <2>2. \A x \in Workers : Gone(x) => Gone(x)'
    BY <2>1 DEF Gone
  <2>. QED BY <2>1, <2>2 DEF SendersOk
<1>4. CASE Receive /\ channel # <<>>
  <2>1. PICK w \in Workers : channel = <<w>>
    BY <1>4
  <2>2. /\ winner' = w /\ channel' = <<>> /\ main = "recv" /\ valid
        /\ UNCHANGED <<pc, found, senders>>
    BY <1>4, <2>1 DEF Receive, Disconnected, Refused
  <2>3. Gone(w)' /\ \A x \in Workers : channel' # <<x>>
    BY <2>1, <2>2 DEF SendersOk, Gone
  <2>. QED BY <2>2, <2>3 DEF SendersOk
<1>5. CASE Receive /\ channel = <<>>
  BY <1>5 DEF Receive, Disconnected, SendersOk, Gone
<1>6. CASE NewBase \/ DropSender \/ TimeOut \/ RaiseStop \/ Join \/ AddNonces
  BY <1>6, RaceAssumption DEF NewBase, DropSender, TimeOut, RaiseStop, Join, AddNonces,
     SendersOk, Gone
<1>7. CASE UNCHANGED vars
  BY <1>7 DEF vars, SendersOk, Gone
<1>. QED BY <1>1, <1>2, <1>3, <1>4, <1>5, <1>6, <1>7 DEF Next, MainThread, Worker, Returned

LEMMA RaceStep == RaceInv /\ [Next]_vars => RaceInv'
<1> SUFFICES ASSUME RaceInv, [Next]_vars PROVE RaceInv'
  OBVIOUS
<1>0. Types' /\ Tally'
  BY TypesStep, TallyStep DEF RaceInv
<1>1. Types' /\ Tally' /\ SendersOk'
  BY <1>0, SendersStep DEF RaceInv
<1>2. CASE UNCHANGED vars
  BY <1>1, <1>2 DEF RaceInv, vars, MainOk, ThreadOk, NobodyWon, Lost, Sent, Raised, Over,
     Launched, Refused
<1>3. CASE MainThread \/ TimeOut
  BY <1>1, <1>3, MainKeeps DEF RaceInv
<1>4. ASSUME NEW w \in Workers, Worker(w) PROVE RaceInv'
  BY <1>1, <1>4, WorkerKeeps DEF RaceInv
<1>. QED BY <1>2, <1>3, <1>4 DEF Next, Returned

LEMMA RaceInvariant == Spec => []RaceInv
BY RaceStart, RaceStep, PTL DEF Spec

(* What the caller adds for a race with a winner is what the threads       *)
(* tried, all of them, also those that were still busy when the winner     *)
(* came in (main.rs:264-325).                                              *)
THEOREM RaceCountsExactly == Spec => []CountIsExact
<1>1. RaceInv => CountIsExact
  <2> SUFFICES ASSUME RaceInv, main = "added", winner # None
               PROVE  counted = SumFunction(tried)
    BY DEF CountIsExact
  <2>1. Launched /\ Over
    BY DEF RaceInv, Types, Refused, Launched, Over
  <2>2. /\ DOMAIN tried = Workers
        /\ counted = SumFunctionOnSet(Counted, Workers)
        /\ AgreeOn(Counted, tried, Workers)
    BY <2>1 DEF RaceInv, Types, Tally, MainOk, ThreadOk, Counted, AgreeOn
  <2>. QED BY <2>2, SumAgree, RaceAssumption DEF SumFunction
<1>. QED BY <1>1, RaceInvariant, PTL

(* What "exhausted" means: every budget used up and nothing found; or the  *)
(* deadline and at most one solution lost, since a second one would leave  *)
(* its thread in send and the race would not have returned; or parameters  *)
(* that were refused.  The count never falls short (main.rs:239-256).      *)
THEOREM RaceExhausts == Spec => []ExhaustedMeans
<1>1. RaceInv => ExhaustedMeans
  <2> SUFFICES ASSUME RaceInv, main = "added", winner = None
               PROVE  /\ SumFunction(tried) <= counted
                      /\ \/ found = {} /\ SumFunction(tried) = counted
                         \/ timed_out /\ Cardinality(found) <= 1
                         \/ ~valid /\ SumFunction(tried) = 0
    BY DEF ExhaustedMeans
  <2>1. /\ Types /\ counted = MaxTries * Cardinality(Workers)
        /\ \A w \in Workers : ThreadOk(w)
        /\ NobodyWon => \A w \in Workers : Lost(w)
        /\ ~valid => Refused
    BY DEF RaceInv, MainOk
  <2>2. /\ SumFunction(tried) = SumFunctionOnSet(tried, Workers)
        /\ \A w \in Workers : tried[w] \in 0..MaxTries
        /\ IsFiniteSet(Workers) /\ MaxTries \in Nat
    BY <2>1, RaceAssumption DEF Types, SumFunction
  <2>3. /\ SumFunction(tried) <= counted
        /\ (\A w \in Workers : tried[w] = MaxTries) => SumFunction(tried) = counted
    BY <2>1, <2>2, SumBound
  <2>4. CASE ~valid
    <3>1. \A w \in Workers : tried[w] = 0
      BY <2>1, <2>4 DEF Refused
    <3>. QED BY <2>2, <2>3, <2>4, <3>1, SumZero
  <2>5. CASE NobodyWon
    BY <2>1, <2>3, <2>5 DEF Lost, Types
  <2>6. CASE valid /\ timed_out
    <3>1. \A w \in found : channel = <<w>>
      BY <2>1, <2>6, RaceAssumption DEF ThreadOk, Types, Launched, Over
    <3>2. Cardinality(found) <= 1
      <4>1. CASE found = {}
        BY <4>1, FS_EmptySet
      <4>2. CASE found # {}
        <5>0. PICK w \in found : TRUE
          BY <4>2
        <5>1. found = {w}
          <6>1. \A x \in found : <<x>> = <<w>>
            BY <3>1, <5>0
          <6>. QED BY <6>1
        <5>2. Cardinality({w}) = 1
          BY FS_Singleton
        <5>. QED BY <5>1, <5>2
      <4>. QED BY <4>1, <4>2
    <3>. QED BY <2>3, <2>6, <3>2
  <2>. QED BY <2>1, <2>4, <2>5, <2>6 DEF NobodyWon, Types
<1>. QED BY <1>1, RaceInvariant, PTL

(* A race in which everybody waits has three threads with a solution, or   *)
(* two after the deadline: one solution received, one in the channel and   *)
(* one that its thread cannot send (main.rs:475-494).                      *)
THEOREM RaceHangsOnlyStuck == Spec => []HangsOnlyStuck
<1>1. RaceInv => HangsOnlyStuck
  <2> SUFFICES ASSUME RaceInv, EveryoneWaits PROVE Stuck
    BY DEF HangsOnlyStuck
  <2>1. Types /\ SendersOk /\ MainOk /\ (\A w \in Workers : ThreadOk(w))
        /\ (NobodyWon => \A w \in Workers : Lost(w))
    BY DEF RaceInv
  <2>0. main \in {"recv", "join"} => valid
    BY DEF RaceInv, Refused, Types
  <2>2. main = "join" /\ \E w \in Workers : pc[w] = "send" /\ channel # <<>>
    <3>1. CASE main = "recv" /\ channel = <<>> /\ senders # {}
      <4>1. \A w \in Workers : pc[w] = "done"
        BY <3>1 DEF EveryoneWaits
      <4>. QED BY <2>0, <2>1, <3>1, <4>1 DEF Types, SendersOk, Launched
    <3>. QED BY <3>1 DEF EveryoneWaits
  <2>3. PICK w \in Workers : pc[w] = "send" /\ channel # <<>>
    BY <2>2
  <2>4. PICK v \in Workers : channel = <<v>>
    BY <2>1, <2>3 DEF Types
  <2>5. w \in found /\ v \in found /\ pc[v] # "send" /\ winner # v /\ v # w
    BY <2>1, <2>3, <2>4 DEF SendersOk, ThreadOk, Gone
  <2>6. IsFiniteSet(found)
    BY <2>1, FS_Subset, RaceAssumption DEF Types
  <2>7. Cardinality({v, w}) = 2 /\ Cardinality(found) \in Nat
    <3>1. /\ {v, w} = {v} \union {w} /\ w \notin {v}
          /\ IsFiniteSet({v}) /\ Cardinality({v}) = 1
      BY <2>5, FS_Singleton
    <3>2. Cardinality({v} \union {w}) = 2
      BY <3>1, FS_AddElement
    <3>3. Cardinality(found) \in Nat
      BY <2>6, FS_CardinalityType
    <3>. QED BY <3>1, <3>2, <3>3
  <2>8. CASE timed_out
    <3>1. Cardinality({v, w}) <= Cardinality(found)
      BY <2>5, <2>6, FS_Subset
    <3>. QED BY <2>2, <2>3, <2>7, <2>8, <3>1 DEF Stuck
  <2>9. CASE ~timed_out
    <3>1. winner # None
      BY <2>0, <2>1, <2>2, <2>3, <2>9 DEF NobodyWon, Lost
    <3>2. winner \in found /\ winner # v /\ winner # w
      BY <2>1, <2>3, <2>5, <3>1 DEF SendersOk, Gone
    <3> DEFINE S == {v, w} \union {winner}
    <3>3. IsFiniteSet({v, w}) /\ Cardinality(S) = Cardinality({v, w}) + 1
      <4>1. IsFiniteSet({v, w})
        BY <2>5, <2>6, FS_Subset
      <4>. QED BY <3>2, <4>1, FS_AddElement
    <3>4. Cardinality(S) <= Cardinality(found)
      BY <2>5, <2>6, <3>2, FS_Subset
    <3>5. Cardinality(found) >= 3
      BY <2>7, <3>3, <3>4
    <3>. QED BY <2>2, <2>3, <2>9, <3>5 DEF Stuck
  <2>. QED BY <2>8, <2>9
<1>. QED BY <1>1, RaceInvariant, PTL

=============================================================================
