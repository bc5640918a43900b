---------------------------- MODULE EngineProofs ----------------------------
(***************************************************************************)
(* Proofs about WebEngine, for any number of slots, lifecycles and rounds: *)
(* `submitting` is a lock, what is reported as mined was mined, and the    *)
(* number of workers is the one on the page.                               *)
(***************************************************************************)
EXTENDS WebEngine, FiniteSetTheorems, TLAPS

-----------------------------------------------------------------------------
(* Math.min and Math.max of two numbers.                                   *)

LEMMA MinOfTwo ==
    ASSUME NEW a \in Int, NEW b \in Int
    PROVE  Min({a, b}) = IF a <= b THEN a ELSE b
<1>1. \E x \in {a, b} : \A y \in {a, b} : x <= y
  BY a <= b \/ b <= a
<1>2. /\ Min({a, b}) \in {a, b}
      /\ \A y \in {a, b} : Min({a, b}) <= y
  BY <1>1 DEF Min
<1>. QED BY <1>2

LEMMA MaxOfTwo ==
    ASSUME NEW a \in Int, NEW b \in Int
    PROVE  Max({a, b}) = IF a >= b THEN a ELSE b
<1>1. \E x \in {a, b} : \A y \in {a, b} : x >= y
  BY a <= b \/ b <= a
<1>2. /\ Max({a, b}) \in {a, b}
      /\ \A y \in {a, b} : Max({a, b}) >= y
  BY <1>1 DEF Max
<1>. QED BY <1>2

-----------------------------------------------------------------------------
(* The inductive invariant.                                                *)

Critical == {"preparing", "sent", "landed", "refused", "resting"}
Places   == {"none", "solving", "hashing", "paused"} \union Critical
Heights  == Nat \union {None}

EngineTypeOK ==
    /\ chain \in [Chains -> [at : Places, height : Heights]]
    /\ height \in 0..MaxHeight
    /\ cfg \in Heights /\ currentConfig \in Heights
    /\ submitting \in BOOLEAN

(* The flag tells whether there is a holder, and there is but one.         *)
LockInv ==
    IF submitting THEN \E c \in Chains : Submitters = {c} ELSE Submitters = {}

(* A transaction that landed closed the round that its lifecycle will      *)
(* report.                                                                 *)
LandedAreWon ==
    \A c \in Chains : chain[c].at = "landed" => chain[c].height \in won

CreditInv == LandedAreWon /\ CreditsAreReal

(* The picker stays within the machine, before a session and during it.    *)
PickerInv ==
    /\ max \in {0, hardwareConcurrency} /\ kept \in Nat \union {None}
    /\ n \in Nat \ {0} /\ (max # 0 => n <= max)

(* A session runs with what was shown when it started.                     *)
PoolInv ==
    /\ PickerInv /\ pool \in Nat /\ stopped \in BOOLEAN
    /\ pool > 0 /\ ~stopped => max # 0 /\ pool = pickWorkerCount(n)

IInv == EngineTypeOK /\ LockInv /\ CreditInv

-----------------------------------------------------------------------------
(* One lifecycle moves.                                                    *)

(* Who is in the critical section after one lifecycle has moved.           *)
LEMMA SubmittersMove ==
    ASSUME EngineTypeOK, NEW c \in Chains, NEW r,
           chain' = [chain EXCEPT ![c] = r]
    PROVE  Submitters' = IF r.at \in Critical THEN Submitters \union {c}
                                              ELSE Submitters \ {c}
<1>1. \A d \in Chains : chain'[d] = IF d = c THEN r ELSE chain[d]
  BY DEF EngineTypeOK
<1>. QED BY <1>1 DEF Submitters, Critical

(* The three ways to treat a lock: take it when it is free, let it go, or  *)
(* stay on the side where one is.                                          *)
LEMMA LockMove ==
    ASSUME EngineTypeOK, LockInv, NEW c \in Chains, NEW r,
           chain' = [chain EXCEPT ![c] = r],
           \/ ~submitting /\ submitting' = TRUE /\ r.at \in Critical
           \/ chain[c].at \in Critical /\ submitting' = FALSE /\ r.at \notin Critical
           \/ /\ chain[c].at \in Critical <=> r.at \in Critical
              /\ submitting' = submitting
    PROVE  LockInv'
<1>1. c \in Submitters <=> chain[c].at \in Critical
  BY DEF Submitters, Critical
<1>2. Submitters' = IF r.at \in Critical THEN Submitters \union {c} ELSE Submitters \ {c}
  BY SubmittersMove
<1>. QED BY <1>1, <1>2 DEF LockInv

(* A report is of a lifecycle whose transaction landed.                    *)
LEMMA CreditMove ==
    ASSUME EngineTypeOK, CreditInv, NEW c \in Chains, NEW r,
           chain' = [chain EXCEPT ![c] = r],
           won \subseteq won', r.at = "landed" => r.height \in won',
           \/ credited' = credited
           \/ chain[c].at = "landed" /\ credited' = credited \union {chain[c].height}
    PROVE  CreditInv'
<1>1. \A d \in Chains : chain'[d] = IF d = c THEN r ELSE chain[d]
  BY DEF EngineTypeOK
<1>. QED BY <1>1 DEF CreditInv, LandedAreWon, CreditsAreReal

(* The record that Goto, Rest and Redispatch leave.                        *)
Record == [at : Places, height : Heights]

LEMMA GotoMoves ==
    ASSUME EngineTypeOK, NEW c \in Chains, NEW to \in Places, Goto(c, to)
    PROVE  \E r \in Record : /\ chain' = [chain EXCEPT ![c] = r]
                              /\ r.at = to /\ r.height = chain[c].height
<1> DEFINE r == [at |-> to, height |-> chain[c].height]
<1>1. r \in Record /\ r.at = to /\ r.height = chain[c].height
  BY DEF Record, EngineTypeOK
<1>2. [chain[c] EXCEPT !.at = to] = r
  BY DEF EngineTypeOK
<1>3. chain' = [chain EXCEPT ![c] = r]
  BY <1>2 DEF Goto
<1>. QED BY <1>1, <1>3

LEMMA RestMoves ==
    ASSUME NEW c \in Chains, NEW how \in Places, Rest(c, how)
    PROVE  \E r \in Record : chain' = [chain EXCEPT ![c] = r] /\ r.at = how
<1> DEFINE r == [at |-> how, height |-> None]
<1>1. r \in Record /\ r.at = how
  BY DEF Record, Heights
<1>. QED BY <1>1 DEF Rest

LEMMA RedispatchMoves ==
    ASSUME EngineTypeOK, NEW c \in Chains, Redispatch(c)
    PROVE  \E r \in Record : /\ chain' = [chain EXCEPT ![c] = r]
                              /\ r.at \notin Critical
<1>1. CASE ~stopped /\ currentConfig # None
  <2> DEFINE r == [at |-> "solving", height |-> currentConfig]
  <2>1. r \in Record /\ r.at \notin Critical
    BY DEF Record, Places, Critical, EngineTypeOK
  <2>. QED BY <1>1, <2>1 DEF Redispatch
<1>2. CASE ~(~stopped /\ currentConfig # None)
  <2>1. Idle \in Record /\ Idle.at \notin Critical
    BY DEF Record, Places, Heights, Critical, Idle
  <2>. QED BY <1>2, <2>1 DEF Redispatch
<1>. QED BY <1>1, <1>2

(* What the lemmas above need to know of a step of one lifecycle.          *)
Moves(c, r) ==
    /\ r \in Record
    /\ chain' = [chain EXCEPT ![c] = r]
    /\ \/ ~submitting /\ submitting' = TRUE /\ r.at \in Critical
       \/ chain[c].at \in Critical /\ submitting' = FALSE /\ r.at \notin Critical
       \/ /\ chain[c].at \in Critical <=> r.at \in Critical
          /\ submitting' = submitting
    /\ won \subseteq won' /\ (r.at = "landed" => r.height \in won')
    /\ \/ credited' = credited
       \/ chain[c].at = "landed" /\ credited' = credited \union {chain[c].height}
    /\ UNCHANGED loop

LEMMA LifecycleMoves ==
    ASSUME EngineTypeOK, NEW c \in Chains, Lifecycle(c)
    PROVE  (\E r \in Record : Moves(c, r)) /\ height' = height
<1> USE DEF Critical
<1>1. CASE Answer(c)
  <2>1. CASE Goto(c, "hashing")
    <3>1. PICK r \in Record : chain' = [chain EXCEPT ![c] = r] /\ r.at = "hashing"
      BY <2>1, GotoMoves DEF Places
    <3>. QED BY <1>1, <3>1 DEF Answer, Moves, onchain
  <2>2. CASE Rest(c, "paused")
    <3>1. PICK r \in Record : chain' = [chain EXCEPT ![c] = r] /\ r.at = "paused"
      BY <2>2, RestMoves DEF Places
    <3>. QED BY <1>1, <3>1 DEF Answer, Moves, onchain
  <2>3. CASE Redispatch(c)
    <3>1. PICK r \in Record : chain' = [chain EXCEPT ![c] = r] /\ r.at \notin Critical
      BY <2>3, RedispatchMoves
    <3>. QED BY <1>1, <3>1 DEF Answer, Moves, onchain
  <2>. QED BY <1>1, <2>1, <2>2, <2>3 DEF Answer
<1>2. CASE Resume(c)
  <2>1. PICK r \in Record : chain' = [chain EXCEPT ![c] = r] /\ r.at \notin Critical
    BY <1>2, RedispatchMoves DEF Resume
  <2>. QED BY <1>2, <2>1 DEF Resume, Moves, onchain
<1>3. CASE Hashed(c)
  <2>1. CASE ~submitting /\ submitting' = TRUE /\ Goto(c, "preparing")
    <3>1. PICK r \in Record : chain' = [chain EXCEPT ![c] = r] /\ r.at = "preparing"
      BY <2>1, GotoMoves DEF Places
    <3>. QED BY <1>3, <2>1, <3>1 DEF Hashed, Moves, onchain
  <2>2. CASE Redispatch(c) /\ submitting' = submitting
    <3>1. PICK r \in Record : chain' = [chain EXCEPT ![c] = r] /\ r.at \notin Critical
      BY <2>2, RedispatchMoves
    <3>. QED BY <1>3, <2>2, <3>1 DEF Hashed, Moves, onchain
  <2>. QED BY <1>3, <2>1, <2>2 DEF Hashed
<1>4. CASE Send(c)
  <2>1. CASE Goto(c, "sent")
    <3>1. PICK r \in Record : chain' = [chain EXCEPT ![c] = r] /\ r.at = "sent"
      BY <2>1, GotoMoves DEF Places
    <3>. QED BY <1>4, <3>1 DEF Send, Moves, onchain
  <2>2. CASE Rest(c, "resting")
    <3>1. PICK r \in Record : chain' = [chain EXCEPT ![c] = r] /\ r.at = "resting"
      BY <2>2, RestMoves DEF Places
    <3>. QED BY <1>4, <3>1 DEF Send, Moves, onchain
  <2>. QED BY <1>4, <2>1, <2>2 DEF Send
<1>5. CASE Settle(c)
  <2>1. PICK outcome \in waitForSignature(c) :
          \/ /\ outcome = "confirmed"
             /\ credited' = credited \union {chain[c].height}
             /\ submitting' = FALSE
             /\ Redispatch(c)
          \/ /\ outcome = "failed"
             /\ Rest(c, "resting")
             /\ UNCHANGED <<submitting, busy, credited>>
          \/ /\ outcome = "lost"
             /\ submitting' = FALSE
             /\ Redispatch(c)
             /\ UNCHANGED credited
    BY <1>5 DEF Settle
  <2>2. /\ chain[c].at \in {"sent", "landed", "refused"}
        /\ outcome = "confirmed" => chain[c].at = "landed"
    BY DEF waitForSignature
  <2>3. CASE outcome = "failed"
    <3>1. PICK r \in Record : chain' = [chain EXCEPT ![c] = r] /\ r.at = "resting"
      BY <2>1, <2>3, RestMoves DEF Places
    <3>. QED BY <1>5, <2>1, <2>2, <2>3, <3>1 DEF Settle, Moves, onchain
  <2>4. CASE outcome # "failed"
    <3>1. PICK r \in Record : chain' = [chain EXCEPT ![c] = r] /\ r.at \notin Critical
      BY <2>1, <2>4, RedispatchMoves
    <3>. QED BY <1>5, <2>1, <2>2, <2>4, <3>1 DEF Settle, Moves, onchain
  <2>. QED BY <2>3, <2>4
<1>6. CASE Rested(c)
  <2>1. PICK r \in Record : chain' = [chain EXCEPT ![c] = r] /\ r.at \notin Critical
    BY <1>6, RedispatchMoves DEF Rested
  <2>. QED BY <1>6, <2>1 DEF Rested, Moves, onchain
<1>. QED BY <1>1, <1>2, <1>3, <1>4, <1>5, <1>6 DEF Lifecycle

(* The transaction is executed: the lifecycle stays in its critical        *)
(* section, and a round that it closes is won.                             *)
LEMMA ExecutesMoves ==
    ASSUME EngineTypeOK, NEW c \in Chains, Executes(c)
    PROVE  (\E r \in Record : Moves(c, r)) /\ height' \in 0..MaxHeight
<1> USE DEF Critical
<1>1. CASE Goto(c, "landed") /\ won' = won \union {height} /\ chain[c].height = height
           /\ height' = height + 1 /\ height < MaxHeight
  <2>1. PICK r \in Record : /\ chain' = [chain EXCEPT ![c] = r]
                            /\ r.at = "landed" /\ r.height = chain[c].height
    BY <1>1, GotoMoves DEF Places
  <2>2. height' \in 0..MaxHeight
    BY <1>1, WebAssumption DEF EngineTypeOK
  <2>. QED BY <1>1, <2>1, <2>2 DEF Executes, Moves
<1>2. CASE Goto(c, "refused") /\ won' = won /\ height' = height
  <2>1. PICK r \in Record : chain' = [chain EXCEPT ![c] = r] /\ r.at = "refused"
    BY <1>2, GotoMoves DEF Places
  <2>. QED BY <1>2, <2>1 DEF Executes, Moves, EngineTypeOK
<1>. QED BY <1>1, <1>2 DEF Executes, buildMineTx, buildInputBlock

LEMMA MovesKeepInv ==
    ASSUME IInv, NEW c \in Chains, NEW r \in Record, Moves(c, r),
           height' \in 0..MaxHeight
    PROVE  IInv'
<1>1. LockInv'
  BY LockMove DEF IInv, Moves
<1>2. CreditInv'
  BY CreditMove DEF IInv, Moves
<1>3. EngineTypeOK'
  BY DEF IInv, EngineTypeOK, Moves, Record, loop
<1>. QED BY <1>1, <1>2, <1>3 DEF IInv

(* The supervisor begins lifecycles on idle slots.                         *)
LEMMA KickKeepsInv ==
    ASSUME IInv, NEW h \in Heights, Kick(h),
           submitting' = submitting, won' = won, credited' = credited,
           height' \in 0..MaxHeight, cfg' \in Heights, currentConfig' \in Heights
    PROVE  IInv'
<1>1. \A c \in Chains : \/ chain'[c] = chain[c]
                        \/ chain[c] = Idle /\ chain'[c] = [at |-> "solving", height |-> h]
  BY DEF Kick, Begun, Free
<1>2. \A c \in Chains : /\ chain'[c] \in Record
                        /\ chain'[c].at \in Critical <=> chain[c].at \in Critical
                        /\ chain'[c].at = "landed" => chain'[c] = chain[c]
  BY <1>1 DEF IInv, EngineTypeOK, Record, Places, Critical, Idle
<1>3. Submitters' = Submitters
  BY <1>2 DEF Submitters, Critical
<1>4. chain' \in [Chains -> Record]
  BY <1>2 DEF Kick
<1>5. LockInv' /\ EngineTypeOK'
  BY <1>3, <1>4 DEF IInv, LockInv, EngineTypeOK, Record
<1>6. CreditInv'
  BY <1>2 DEF IInv, CreditInv, LandedAreWon, CreditsAreReal
<1>. QED BY <1>5, <1>6 DEF IInv

(* At first nothing runs and nothing is won.                               *)
LEMMA InitInv == Init => IInv
<1>1. Idle \in Record /\ Idle.at \notin Critical
  BY DEF Idle, Record, Places, Heights, Critical
<1> SUFFICES ASSUME Init PROVE IInv
  OBVIOUS
<1>2. EngineTypeOK
  <2>1. chain \in [Chains -> Record]
    BY <1>1 DEF Init
  <2>2. height \in 0..MaxHeight /\ cfg \in Heights /\ currentConfig \in Heights
    BY WebAssumption DEF Init, Heights
  <2>3. submitting \in BOOLEAN
    BY DEF Init
  <2>. QED BY <2>1, <2>2, <2>3 DEF EngineTypeOK, Record
<1>3. LockInv /\ CreditInv
  BY <1>1 DEF Init, LockInv, CreditInv, LandedAreWon, CreditsAreReal, Submitters, Critical
<1>. QED BY <1>2, <1>3 DEF IInv

(* Steps that touch no lifecycle.                                          *)
LEMMA OthersKeepInv ==
    ASSUME IInv, UNCHANGED <<won, chain, submitting, credited>>,
           height' \in 0..MaxHeight, cfg' \in Heights, currentConfig' \in Heights
    PROVE  IInv'
BY DEF IInv, EngineTypeOK, LockInv, Submitters, CreditInv, LandedAreWon, CreditsAreReal

LEMMA NextKeepsInv == IInv /\ [Next]_vars => IInv'
<1> SUFFICES ASSUME IInv, [Next]_vars PROVE IInv'
  OBVIOUS
<1>1. height \in 0..MaxHeight /\ cfg \in Heights /\ currentConfig \in Heights
      /\ MaxHeight \in Nat /\ height \in Heights /\ None \in Heights
  BY WebAssumption DEF IInv, EngineTypeOK, Heights
<1>2. CASE UNCHANGED vars
  BY <1>1, <1>2, OthersKeepInv DEF vars, onchain, loop
<1>3. CASE PollInVain
  <2>1. currentConfig' \in Heights
    BY <1>1, <1>3 DEF PollInVain, fetchConfig
  <2>. QED BY <1>1, <1>3, <2>1, OthersKeepInv DEF PollInVain, onchain
<1>4. CASE Poll
  <2>1. PICK config \in fetchConfig \ {None} :
          /\ currentConfig' = config.blockHeight
          /\ \/ cfg' = config.blockHeight /\ UNCHANGED <<busy, chain>>
             \/ Kick(config.blockHeight) /\ UNCHANGED cfg
    BY <1>4 DEF Poll
  <2>2. config.blockHeight = height
    BY DEF fetchConfig
  <2>3. CASE UNCHANGED chain /\ cfg' = height
    BY <1>1, <1>4, <2>1, <2>2, <2>3, OthersKeepInv DEF Poll, onchain
  <2>4. CASE Kick(height) /\ UNCHANGED cfg
    BY <1>1, <1>4, <2>1, <2>2, <2>4, KickKeepsInv DEF Poll, onchain
  <2>. QED BY <2>1, <2>2, <2>3, <2>4
<1>5. CASE Advanced
  <2>1. height' \in 0..MaxHeight
    BY <1>1, <1>5 DEF Advanced, submitAdvanceEmptyRound
  <2>. QED BY <1>1, <1>5, <2>1, KickKeepsInv DEF Advanced
<1>6. CASE Wake \/ Stop \/ Pick
  BY <1>1, <1>6, OthersKeepInv DEF Wake, Stop, Pick, onchain, loop
<1>7. CASE Start
  BY <1>1, <1>7, OthersKeepInv DEF Start, onchain
<1>8. CASE OthersMove
  <2>1. height' \in 0..MaxHeight
    BY <1>1, <1>8 DEF OthersMove
  <2>. QED BY <1>1, <1>8, <2>1, OthersKeepInv DEF OthersMove, loop
<1>9. CASE \E c \in Chains : Lifecycle(c)
  <2>1. PICK c \in Chains : Lifecycle(c)
    BY <1>9
  <2>. QED BY <1>1, <2>1, LifecycleMoves, MovesKeepInv DEF IInv
<1>10. CASE \E c \in Chains : Executes(c)
  <2>1. PICK c \in Chains : Executes(c)
    BY <1>10
  <2>. QED BY <2>1, ExecutesMoves, MovesKeepInv DEF IInv
<1>. QED BY <1>2, <1>3, <1>4, <1>5, <1>6, <1>7, <1>8, <1>9, <1>10 DEF Next, Supervisor

THEOREM Invariant == Spec => []IInv
BY InitInv, NextKeepsInv, PTL DEF Spec

(* `submitting` is a lock with at most one holder, and is set exactly      *)
(* while there is one (the check after the hash and the finally block of   *)
(* onSolution), for any number of slots and of lifecycles of a slot.       *)
THEOREM SubmittingHeld == Spec => []SubmittingIsHeld
<1>1. LockInv /\ submitting \in BOOLEAN => SubmittingIsHeld
  BY FS_EmptySet, FS_Singleton DEF LockInv, SubmittingIsHeld
<1>2. IInv => SubmittingIsHeld
  BY <1>1 DEF IInv, EngineTypeOK
<1>. QED BY <1>2, Invariant, PTL

(* onBlockMined reports only rounds that this engine's transactions closed.*)
THEOREM CreditsReal == Spec => []CreditsAreReal
<1>1. IInv => CreditsAreReal
  BY DEF IInv, CreditInv
<1>. QED BY <1>1, Invariant, PTL

-----------------------------------------------------------------------------
(* The picker and the pool.                                                *)

LEMMA SetKeepsPicker ==
    ASSUME PickerInv, max # 0, NEW next \in Nat, set(next)
    PROVE  PickerInv'
<1> DEFINE m == Min({max, next})
<1>1. max \in Nat \ {0}
  BY CoresAssumption DEF PickerInv
<1>2. m \in Nat /\ m <= max
  BY <1>1, MinOfTwo
<1>3. /\ max' = max
      /\ n' = Max({1, m}) /\ kept' = n'
  BY DEF set
<1> HIDE DEF m
<1>4. Max({1, m}) \in 1..max
  BY <1>1, <1>2, MaxOfTwo
<1>. QED BY <1>1, <1>3, <1>4 DEF PickerInv

LEMMA PickKeepsPicker ==
    ASSUME PickerInv, Pick
    PROVE  PickerInv'
<1>1. CASE useWorkerCount
  <2>1. CASE kept # None /\ kept >= 1
    BY <1>1, <2>1, MinOfTwo, CoresAssumption
       DEF useWorkerCount, useCpuCount, initial, PickerInv
  <2>2. CASE ~(kept # None /\ kept >= 1)
    BY <1>1, <2>2, MaxOfTwo, CoresAssumption
       DEF useWorkerCount, useCpuCount, initial, PickerInv
  <2>. QED BY <2>1, <2>2
<1>2. CASE CoresPicker(pool > 0 /\ ~stopped)
  <2>1. n - 1 \in Nat /\ n + 1 \in Nat
    BY DEF PickerInv
  <2>. QED BY <1>2, <2>1, SetKeepsPicker DEF CoresPicker
<1>3. CASE ReloadPicker
  BY <1>3 DEF ReloadPicker, PickerInv
<1>. QED BY <1>1, <1>2, <1>3 DEF Pick

LEMMA NextKeepsPool == PoolInv /\ [Next]_vars => PoolInv'
<1> SUFFICES ASSUME PoolInv, [Next]_vars PROVE PoolInv'
  OBVIOUS
<1>1. CASE UNCHANGED <<page, stopped>>
  BY <1>1 DEF PoolInv, PickerInv, page, picker, pickWorkerCount
<1>2. CASE Pick
  <2>1. PickerInv' /\ UNCHANGED <<pool, stopped>>
    BY <1>2, PickKeepsPicker DEF PoolInv, Pick
  <2>2. pool = 0 \/ stopped
    BY <1>2 DEF Pick, useWorkerCount, CoresPicker, PoolInv
  <2>. QED BY <2>1, <2>2 DEF PoolInv
<1>3. CASE Start
  <2>1. pickWorkerCount(n) \in Nat
    BY MinOfTwo, CoresAssumption DEF pickWorkerCount, PoolInv, PickerInv
  <2>. QED BY <1>3, <2>1 DEF Start, PoolInv, PickerInv, picker, pickWorkerCount
<1>4. CASE Stop
  BY <1>4 DEF Stop, PoolInv, PickerInv, page, picker
<1>. QED
  <2>1. \A c \in Chains : Lifecycle(c) => UNCHANGED <<page, stopped>>
    BY DEF Lifecycle, Answer, Resume, Hashed, Send, Settle, Rested
  <2>. QED
  BY <1>1, <1>2, <1>3, <1>4, <2>1
     DEF Next, vars, Supervisor, PollInVain, Poll, Advanced, Wake, OthersMove, Executes

(* While a session runs, the picker shows a number of processors that there*)
(* are and pickWorkerCount took that many workers, up to its own limit;    *)
(* whatever localStorage held.                                             *)
THEOREM PoolShown == Spec => []PoolIsShown
<1>1. Init => PoolInv
  <2>1. Init => PickerInv /\ pool = 0
    BY CoresAssumption DEF Init, CInit, PickerInv
  <2>2. Init => stopped \in BOOLEAN
    BY DEF Init
  <2>. QED BY <2>1, <2>2 DEF PoolInv
<1>2. PoolInv => PoolIsShown
  BY CoresAssumption DEF PoolInv, PickerInv, PoolIsShown, pickWorkerCount
<1>. QED BY <1>1, <1>2, NextKeepsPool, PTL DEF Spec

=============================================================================
