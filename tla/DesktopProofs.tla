--------------------------- MODULE DesktopProofs ---------------------------
(***************************************************************************)
(* Proofs about the desktop miner, for every number of sessions.  Of its   *)
(* backend (DesktopMiner): the state never holds half of a session, and    *)
(* never that of a thread that ended.  Of the whole application            *)
(* (DesktopApp), whatever the window does out of turn and whenever it is   *)
(* restarted: the same, and that a key is not only in memory.              *)
(***************************************************************************)
EXTENDS DesktopApp, TLAPS

Sources == {"none", "startup", "loop", "fetch", "pause", "advance", "solve",
            "submit", "ending", "ended"}

(* Sessions that were not started leave no trace.                          *)
Unstarted == \A s \in Sessions : s > sessions => thread[s] = "none" /\ s \notin stopped

(* Between the two locks of start_mining nothing runs, and the session it  *)
(* is about to commit is new: this is what makes FlagOfNewest inductive.   *)
MidStart ==
    /\ command \in {"start", "spawn"} => sessions \in Sessions /\ thread[sessions] = "none"
    /\ command = "start" => ~running /\ sessions \notin stopped

(* The inductive invariant.                                                *)
IInv == TypeOK /\ Unstarted /\ MidStart /\ FlagOfNewest /\ RunningNotEnded

-----------------------------------------------------------------------------

(* The application starts with no session.                                 *)
LEMMA InitInv == Init => IInv
  <1> SUFFICES ASSUME Init PROVE IInv
    OBVIOUS
  <1> USE DesktopAssumption DEF Init, Sessions
  <1>1. TypeOK
    <2>1. thread \in [Sessions -> {"none"}]
      BY DEF Init
    <2>2. sessions \in 0..MaxSessions
      BY DEF Init
    <2> QED
      BY <2>1, <2>2 DEF TypeOK
  <1>2. Unstarted /\ MidStart /\ FlagOfNewest /\ RunningNotEnded
    BY DEF Unstarted, MidStart, FlagOfNewest, RunningNotEnded
  <1> QED
    BY <1>1, <1>2 DEF IInv

(* A thread that moves among its running states disturbs nothing.          *)
LEMMA MovingKeepsInv ==
    ASSUME IInv, NEW s \in Sessions, NEW from \in Sources \ {"none", "ended"},
           NEW to \in Sources \ {"none", "ended"}, Goto(s, from, to),
           UNCHANGED <<unlocked, miner, command, sessions, stopped>>
    PROVE  IInv'
  <1>1. /\ thread[s] = from /\ from # "none" /\ to # "ended"
        /\ thread' = [thread EXCEPT ![s] = to]
        /\ thread \in [Sessions -> Sources]
    BY DEF Goto, IInv, TypeOK, Sources
  <1>2. /\ thread'[s] = to
        /\ \A x \in Sessions : x # s => thread'[x] = thread[x]
    BY <1>1
  <1>3. TypeOK'
    BY <1>1 DEF IInv, TypeOK, miner, Sources
  <1>4. Unstarted'
    BY <1>1, <1>2 DEF IInv, Unstarted, Sessions
  <1>5. MidStart'
    BY <1>1, <1>2 DEF IInv, MidStart, miner
  <1>6. FlagOfNewest'
    BY DEF IInv, FlagOfNewest, miner
  <1>7. RunningNotEnded'
    <2> SUFFICES ASSUME running PROVE thread'[sessions] # "ended"
      BY DEF RunningNotEnded, miner
    <2>1. sessions \in Sessions
      BY DesktopAssumption DEF IInv, TypeOK, FlagOfNewest
    <2> QED
      BY <1>1, <1>2, <2>1 DEF IInv, RunningNotEnded
  <1> QED
    BY <1>3, <1>4, <1>5, <1>6, <1>7 DEF IInv

(* A thread that ends takes the running pair with it, whoever it belongs   *)
(* to.                                                                     *)
LEMMA EndingKeepsInv ==
    ASSUME IInv, NEW s \in Sessions, NEW from \in Sources \ {"none", "ended"},
           Goto(s, from, "ended"), mark_stopped,
           UNCHANGED <<unlocked, command, sessions, stopped>>
    PROVE  IInv'
  <1>1. /\ thread[s] = from /\ from # "none"
        /\ thread' = [thread EXCEPT ![s] = "ended"]
        /\ thread \in [Sessions -> Sources]
    BY DEF Goto, IInv, TypeOK, Sources
  <1>2. \A x \in Sessions : x # s => thread'[x] = thread[x]
    BY <1>1
  <1>3. TypeOK'
    BY <1>1 DEF IInv, TypeOK, mark_stopped, Sources
  <1>4. Unstarted'
    BY <1>1, <1>2 DEF IInv, Unstarted, Sessions
  <1>5. MidStart'
    BY <1>1, <1>2 DEF IInv, MidStart, mark_stopped
  <1>6. FlagOfNewest' /\ RunningNotEnded'
    BY DEF FlagOfNewest, RunningNotEnded, mark_stopped
  <1> QED
    BY <1>3, <1>4, <1>5, <1>6 DEF IInv

(* Every step of a mining thread either moves it or ends it.               *)
LEMMA MiningKeepsInv ==
    ASSUME IInv, NEW s \in Sessions, Mining(s)
    PROVE  IInv'
  <1>1. CASE Startup(s)
    BY <1>1, MovingKeepsInv, EndingKeepsInv DEF Startup, Sources
  <1>2. CASE LoopTop(s)
    BY <1>2, MovingKeepsInv DEF LoopTop, Sources
  <1>3. CASE Fetch(s)
    BY <1>3, MovingKeepsInv DEF Fetch, Sources
  <1>4. CASE Advance(s)
    BY <1>4, MovingKeepsInv DEF Advance, Sources
  <1>5. CASE Solve(s)
    BY <1>5, MovingKeepsInv DEF Solve, Sources
  <1>6. CASE Submit(s)
    BY <1>6, MovingKeepsInv DEF Submit, Sources
  <1>7. CASE Pause(s)
    BY <1>7, MovingKeepsInv DEF Pause, Sources
  <1>8. CASE End(s)
    BY <1>8, EndingKeepsInv DEF End, Sources
  <1> QED
    BY <1>1, <1>2, <1>3, <1>4, <1>5, <1>6, <1>7, <1>8 DEF Mining

(* Every command of the user interface, each of its lock sections a step.  *)
LEMMA CommandsKeepInv ==
    ASSUME IInv,
           UnlockWallet \/ LockWallet \/ StartCheck \/ Starting \/ StopMining
    PROVE  IInv'
  <1>1. CASE UnlockWallet \/ LockWallet
    <2>1. UNCHANGED <<running, stop_flag, command, sessions, stopped, thread>>
          /\ unlocked' \in BOOLEAN
      BY <1>1 DEF UnlockWallet, LockWallet, miner
    <2>2. TypeOK'
      BY <2>1 DEF IInv, TypeOK
    <2>3. Unstarted' /\ MidStart' /\ FlagOfNewest' /\ RunningNotEnded'
      BY <2>1 DEF IInv, Unstarted, MidStart, FlagOfNewest, RunningNotEnded
    <2> QED
      BY <2>2, <2>3 DEF IInv
  <1>2. CASE StartCheck
    <2>1. /\ sessions \in 0..MaxSessions /\ sessions < MaxSessions
          /\ sessions' = sessions + 1 /\ sessions' \in Sessions
          /\ sessions' > sessions
      BY <1>2, DesktopAssumption DEF StartCheck, IInv, TypeOK, Sessions
    <2>2. TypeOK'
      BY <1>2, <2>1, DesktopAssumption DEF StartCheck, IInv, TypeOK, miner, Sessions
    <2>3. Unstarted'
      BY <1>2, <2>1 DEF StartCheck, IInv, Unstarted, Sessions
    <2>4. MidStart'
      BY <1>2, <2>1 DEF StartCheck, IInv, Unstarted, MidStart, miner
    <2>5. FlagOfNewest' /\ RunningNotEnded'
      BY <1>2 DEF StartCheck, IInv, FlagOfNewest, RunningNotEnded, miner
    <2> QED
      BY <2>2, <2>3, <2>4, <2>5 DEF IInv
  <1>3. CASE StartCommit
    <2>1. sessions \in Sessions /\ sessions # None /\ thread[sessions] = "none"
          /\ sessions \notin stopped
      BY <1>3, DesktopAssumption DEF StartCommit, IInv, MidStart, Sessions
    <2>2. TypeOK'
      BY <1>3, <2>1 DEF StartCommit, IInv, TypeOK
    <2>3. Unstarted' /\ MidStart'
      BY <1>3, <2>1 DEF StartCommit, IInv, Unstarted, MidStart
    <2>4. FlagOfNewest' /\ RunningNotEnded'
      BY <1>3, <2>1 DEF StartCommit, FlagOfNewest, RunningNotEnded
    <2> QED
      BY <2>2, <2>3, <2>4 DEF IInv
  <1>4. CASE StartSpawn
    <2>1. sessions \in Sessions /\ thread \in [Sessions -> Sources]
      BY <1>4 DEF StartSpawn, IInv, MidStart, TypeOK, Sources
    <2>2. \A x \in Sessions : thread'[x] = thread[x] \/ (x = sessions /\ thread'[x] = "startup")
      BY <1>4, <2>1 DEF StartSpawn
    <2>3. TypeOK'
      BY <1>4, <2>1 DEF StartSpawn, IInv, TypeOK, miner, Sources
    <2>4. Unstarted' /\ MidStart'
      BY <1>4, <2>1, <2>2 DEF StartSpawn, IInv, Unstarted, MidStart, Sessions
    <2>5. FlagOfNewest' /\ RunningNotEnded'
      BY <1>4, <2>1, <2>2 DEF StartSpawn, IInv, FlagOfNewest, RunningNotEnded, miner
    <2> QED
      BY <2>3, <2>4, <2>5 DEF IInv
  <1>5. CASE StopMining
    <2>1. stopped' \ stopped \subseteq {sessions} /\ stopped' \subseteq Sessions
      BY <1>5 DEF StopMining, IInv, TypeOK, FlagOfNewest
    <2>2. TypeOK'
      BY <1>5, <2>1 DEF StopMining, IInv, TypeOK
    <2>3. Unstarted'
      BY <1>5, <2>1 DEF StopMining, IInv, Unstarted, Sessions
    <2>4. MidStart' /\ FlagOfNewest' /\ RunningNotEnded'
      BY <1>5 DEF StopMining, MidStart, FlagOfNewest, RunningNotEnded
    <2> QED
      BY <2>2, <2>3, <2>4 DEF IInv
  <1> QED
    BY <1>1, <1>2, <1>3, <1>4, <1>5 DEF Starting

(* The induction step.                                                     *)
LEMMA NextKeepsInv == IInv /\ [Next]_vars => IInv'
  <1> SUFFICES ASSUME IInv, [Next]_vars PROVE IInv'
    OBVIOUS
  <1>1. CASE UnlockWallet \/ LockWallet \/ StartCheck \/ Starting \/ StopMining
    BY <1>1, CommandsKeepInv
  <1>2. ASSUME NEW s \in Sessions, Mining(s) PROVE IInv'
    BY <1>2, MiningKeepsInv
  <1>3. ASSUME NEW s \in Sessions, Panic(s) PROVE IInv'
    <2>1. thread[s] \in Sources \ {"none", "ended"}
      BY <1>3 DEF Panic, IInv, TypeOK, Sources
    <2> QED
      BY <1>3, <2>1, EndingKeepsInv DEF Panic
  <1>4. CASE UNCHANGED vars
    BY <1>4 DEF vars, miner, IInv, TypeOK, Unstarted, MidStart, FlagOfNewest, RunningNotEnded
  <1> QED
    BY <1>1, <1>2, <1>3, <1>4 DEF Next

(* Every behaviour keeps the inductive invariant.                          *)
THEOREM InvariantHolds == Spec => []IInv
  <1> QED
    BY InitInv, NextKeepsInv, PTL DEF Spec

(* The application state keeps its type under every command and thread.    *)
THEOREM TypeCorrect == Spec => []TypeOK
  <1>1. IInv => TypeOK
    BY DEF IInv
  <1> QED
    BY <1>1, InvariantHolds, PTL

(* However late threads of earlier sessions end, the state is running      *)
(* exactly while it holds the stop flag of the newest session, and nobody  *)
(* has set that flag: start_mining and mark_stopped never mix two          *)
(* sessions.                                                               *)
THEOREM FlagIsOfNewest == Spec => []FlagOfNewest
  <1>1. IInv => FlagOfNewest
    BY DEF IInv
  <1> QED
    BY <1>1, InvariantHolds, PTL

(* The state never says running for a session whose thread has ended,      *)
(* however it ended.                                                       *)
THEOREM RunningHasNotEnded == Spec => []RunningNotEnded
  <1>1. IInv => RunningNotEnded
    BY DEF IInv
  <1> QED
    BY <1>1, InvariantHolds, PTL

-----------------------------------------------------------------------------
(* The application.                                                        *)

(* The window does nothing to the backend but run its commands.            *)
LEMMA AppStep == [AppNext]_appVars => [Next]_vars \/ Restart
  <1> SUFFICES ASSUME [AppNext]_appVars PROVE Next \/ UNCHANGED vars \/ Restart
    OBVIOUS
  <1>1. CASE Choose \/ Back
    BY <1>1 DEF Choose, Back, Switch
  <1>2. CASE create_wallet \/ import_wallet
    BY <1>2 DEF create_wallet, import_wallet, save_wallet, Next
  <1>3. CASE Saved \/ Send \/ Reopen \/ Tick \/ Answered \/ Event
    BY <1>3 DEF Saved, Send, Reopen, Tick, Answered, Event
  <1>4. CASE unlock_wallet \/ forget_wallet \/ lock_wallet
    BY <1>4 DEF unlock_wallet, forget_wallet, lock_wallet, Next
  <1>5. CASE start_mining \/ stop_mining
    BY <1>5 DEF start_mining, stop_mining, Starting, Next
  <1>6. CASE \E s \in Sessions : (Mining(s) \/ Panic(s)) /\ Emitting(s)
    BY <1>6 DEF Next
  <1>7. CASE UNCHANGED appVars
    BY <1>7 DEF appVars
  <1> QED
    BY <1>1, <1>2, <1>3, <1>4, <1>5, <1>6, <1>7 DEF AppNext, User

(* A restart ends every session at once and forgets that it ran.           *)
LEMMA RestartKeepsInv ==
    ASSUME IInv, Restart
    PROVE  IInv'
  <1> USE DesktopAssumption
  <1>1. /\ running' = FALSE /\ stop_flag' = None /\ stopped' = {} /\ command' = "none"
        /\ unlocked' = FALSE /\ sessions' = sessions /\ sessions \in 0..MaxSessions
        /\ thread' = [s \in Sessions |-> IF s <= sessions THEN "ended" ELSE "none"]
    BY DEF Restart, IInv, TypeOK
  <1>2. TypeOK'
    BY <1>1 DEF TypeOK
  <1>3. Unstarted'
    BY <1>1 DEF Unstarted, Sessions
  <1>4. MidStart' /\ FlagOfNewest' /\ RunningNotEnded'
    BY <1>1 DEF MidStart, FlagOfNewest, RunningNotEnded
  <1> QED
    BY <1>2, <1>3, <1>4 DEF IInv

(* A key is put in place only after it was saved, or from the file; the    *)
(* file is removed only when the key is dropped.                           *)
LEMMA SavedStep == UnlockedIsSaved /\ [AppNext]_appVars => UnlockedIsSaved'
  <1> SUFFICES ASSUME UnlockedIsSaved, [AppNext]_appVars PROVE UnlockedIsSaved'
    OBVIOUS
  <1> USE DEF UnlockedIsSaved
  <1>1. CASE create_wallet \/ import_wallet
    BY <1>1 DEF create_wallet, import_wallet, save_wallet, vars
  <1>2. CASE unlock_wallet
    BY <1>2 DEF unlock_wallet, vars
  <1>3. CASE forget_wallet
    BY <1>3 DEF forget_wallet, LockWallet
  <1>4. CASE lock_wallet \/ Restart
    BY <1>4 DEF lock_wallet, Restart, LockWallet
  <1>5. CASE \/ Choose \/ Back \/ Saved \/ Send \/ Reopen \/ Tick \/ Answered \/ Event
             \/ UNCHANGED appVars
    BY <1>5 DEF Choose, Back, Switch, Saved, Send, Reopen, Tick, Answered, Event, vars, appVars
  <1>6. CASE start_mining \/ stop_mining
    BY <1>6 DEF start_mining, stop_mining, StartCheck, StartCommit, StartSpawn, StopMining, vars
  <1>7. ASSUME NEW s \in Sessions, Mining(s) \/ Panic(s), Emitting(s)
        PROVE  UnlockedIsSaved'
    <2>1. UNCHANGED unlocked
      BY <1>7 DEF Mining, Startup, LoopTop, Fetch, Advance, Solve, Submit, Pause, End, Panic
    <2> QED
      BY <1>7, <2>1 DEF Emitting
  <1> QED
    BY <1>1, <1>2, <1>3, <1>4, <1>5, <1>6, <1>7 DEF AppNext, User

(* Whatever the window and the user do out of turn, whatever saves fail    *)
(* and whenever the application is restarted, while a key is in place      *)
(* there is a wallet file (keystore.rs:235-319).                           *)
THEOREM AppUnlockedIsSaved == AppSpec => []UnlockedIsSaved
  <1>1. AppInit => UnlockedIsSaved
    BY DEF AppInit, Init, UnlockedIsSaved
  <1> QED
    BY <1>1, SavedStep, PTL DEF AppSpec

(* And the backend keeps what it keeps alone, crashes included: the state  *)
(* is running exactly while it holds the flag of the newest session, which *)
(* has not ended.                                                          *)
THEOREM AppKeepsSessions == AppSpec => [](FlagOfNewest /\ RunningNotEnded)
  <1>1. AppInit => IInv
    BY InitInv DEF AppInit
  <1>2. IInv /\ [AppNext]_appVars => IInv'
    BY AppStep, NextKeepsInv, RestartKeepsInv
  <1>3. IInv => FlagOfNewest /\ RunningNotEnded
    BY DEF IInv
  <1> QED
    BY <1>1, <1>2, <1>3, PTL DEF AppSpec

=============================================================================
