----------------------------- MODULE RoundProofs -----------------------------
(***************************************************************************)
(* Proofs about who wins the rounds of the Equium program: every closed    *)
(* round was won with work for that very round by the wallet that was paid *)
(* or by nobody, for any number of miners, solutions and rounds.           *)
(***************************************************************************)
EXTENDS CliMiner, EquiumProofs

(* The challenge chain has one link per round that opened, the genesis one *)
(* included: this ties a block's index to the prefix it was solved for.    *)
ChainGrows ==
    /\ Len(blocks) = block_height
    /\ initialized => Len(current_challenge) = block_height + 1

HInv == ChainGrows /\ WonByFreshOwnWork /\ LastWinnerIsLatest

-----------------------------------------------------------------------------

(* A prefix does not change when the sequence grows.                       *)
LEMMA PrefixOfAppend ==
    ASSUME NEW S, NEW seq \in Seq(S), NEW e \in S, NEW i \in 1..Len(seq)
    PROVE  SubSeq(Append(seq, e), 1, i) = SubSeq(seq, 1, i)
<1> DEFINE long == Append(seq, e)
<1>1. /\ long \in Seq(S)
      /\ \A k \in 1..i : long[k] = seq[k] /\ seq[k] \in S /\ long[k] \in S
  BY ElementOfSeq
<1>2. /\ SubSeq(seq, 1, i) \in Seq(S) /\ Len(SubSeq(seq, 1, i)) = i
      /\ \A k \in 1..i : SubSeq(seq, 1, i)[k] = seq[k]
  BY <1>1, SubSeqProperties
<1> HIDE DEF long
<1>3. /\ SubSeq(long, 1, i) \in Seq(S) /\ Len(SubSeq(long, 1, i)) = i
      /\ \A k \in 1..i : SubSeq(long, 1, i)[k] = long[k]
  BY <1>1, SubSeqProperties
<1>4. SubSeq(long, 1, i) = SubSeq(seq, 1, i)
  BY <1>1, <1>2, <1>3, SeqEqual
<1>. QED BY <1>4 DEF long

(* One more block: the earlier ones stay where they were, and so do the    *)
(* links of the chain they were won on.                                    *)
LEMMA ChainExtended ==
    ASSUME TypeOK, HInv, initialized, initialized',
           NEW w \in Miners \union {Nobody}, advance_round(w),
           NEW b \in Block, blocks' = Append(blocks, b)
    PROVE  /\ ChainGrows'
           /\ Len(blocks') = Len(blocks) + 1
           /\ blocks'[Len(blocks')] = b
           /\ \A i \in 1..Len(blocks) : blocks'[i] = blocks[i]
           /\ \A i \in 1..Len(current_challenge) :
                 SubSeq(current_challenge', 1, i) = SubSeq(current_challenge, 1, i)
           /\ \A i \in 1..Len(current_challenge) :
                 current_challenge'[i] = current_challenge[i]
           /\ current_challenge'[Len(current_challenge) + 1] = <<w, slot>>
<1> DEFINE Link == (Wallets \union {Nobody}) \X Nat
<1>1. /\ current_challenge \in Seq(Link) /\ blocks \in Seq(Block)
      /\ <<w, slot>> \in Link
  BY DEF TypeOK, Wallets
<1>2. current_challenge' = Append(current_challenge, <<w, slot>>)
  BY DEF advance_round, derive_next_challenge
<1>3. Len(current_challenge') = Len(current_challenge) + 1 /\ Len(blocks') = Len(blocks) + 1
  BY <1>1, <1>2
<1>4. /\ Len(blocks) \in Nat /\ Len(current_challenge) \in Nat
      /\ block_height' = block_height + 1
  BY <1>1 DEF advance_round
<1>5. ChainGrows'
  BY <1>3, <1>4 DEF HInv, ChainGrows
<1>6. /\ blocks'[Len(blocks')] = b
      /\ \A i \in 1..Len(blocks) : blocks'[i] = blocks[i]
  BY <1>1, <1>3
<1>7. /\ \A i \in 1..Len(current_challenge) :
            current_challenge'[i] = current_challenge[i]
      /\ current_challenge'[Len(current_challenge) + 1] = <<w, slot>>
  BY <1>1, <1>2
<1>8. \A i \in 1..Len(current_challenge) :
         SubSeq(current_challenge', 1, i) = SubSeq(current_challenge, 1, i)
  <2> HIDE DEF Link
  <2>. QED BY <1>1, <1>2, PrefixOfAppend
<1>. QED BY <1>3, <1>5, <1>6, <1>7, <1>8

(* What holds of the new block alone carries over to all of them.          *)
LEMMA RoundKeepsHistory ==
    ASSUME TypeOK, HInv, initialized, initialized',
           NEW w \in Miners \union {Nobody}, advance_round(w),
           NEW b \in Block, blocks' = Append(blocks, b), b.winner = w,
           w # Nobody =>
             /\ b.solution.input = build_input(current_challenge, w, block_height)
    PROVE  HInv'
<1>0. Nobody \notin Miners
  BY KeysAssumption DEF Holders, Wallets
<1>1. /\ Len(blocks) \in Nat /\ DOMAIN blocks = 1..Len(blocks)
      /\ blocks' \in Seq(Block) /\ DOMAIN blocks' = 1..Len(blocks')
  BY DEF TypeOK
<1>2. /\ Len(blocks) = block_height /\ Len(current_challenge) = block_height + 1
  BY DEF HInv, ChainGrows
<1>3. SubSeq(current_challenge, 1, Len(current_challenge)) = current_challenge
  BY SubSeqFull DEF TypeOK
<1>4. DOMAIN blocks' = 1..(Len(blocks) + 1)
  BY <1>1, ChainExtended
<1>5. WonByFreshOwnWork'
  <2> SUFFICES ASSUME NEW i \in 1..(Len(blocks) + 1), blocks'[i].winner # Nobody
               PROVE  /\ blocks'[i].solution.input.miner = blocks'[i].winner
                      /\ blocks'[i].solution.input.height = i - 1
                      /\ blocks'[i].solution.input.challenge
                           = SubSeq(current_challenge', 1, i)
                      /\ current_challenge'[i + 1][1] = blocks'[i].winner
    BY <1>4 DEF WonByFreshOwnWork
  <2>1. CASE i <= Len(blocks)
    <3>1. i \in DOMAIN blocks /\ i \in 1..Len(current_challenge)
          /\ i + 1 \in 1..Len(current_challenge)
      BY <1>1, <1>2, <2>1
    <3>2. blocks'[i] = blocks[i]
          /\ SubSeq(current_challenge', 1, i) = SubSeq(current_challenge, 1, i)
          /\ current_challenge'[i + 1] = current_challenge[i + 1]
      BY <1>1, <3>1, ChainExtended
    <3>3. /\ blocks[i].solution.input.miner = blocks[i].winner
          /\ blocks[i].solution.input.height = i - 1
          /\ blocks[i].solution.input.challenge = SubSeq(current_challenge, 1, i)
          /\ current_challenge[i + 1][1] = blocks[i].winner
      BY <3>1, <3>2 DEF HInv, WonByFreshOwnWork
    <3>. QED BY <3>2, <3>3
  <2>2. CASE i = Len(blocks) + 1
    <3>1. blocks'[i] = b
      BY <2>2, ChainExtended
    <3>2. w # Nobody /\ i = Len(current_challenge) /\ i \in 1..Len(current_challenge)
      BY <1>1, <1>2, <2>2, <3>1
    <3>3. SubSeq(current_challenge', 1, i) = current_challenge
      BY <1>3, <3>2, ChainExtended
    <3>4. current_challenge'[i + 1] = <<w, slot>>
      BY <3>2, ChainExtended
    <3>5. b.solution.input = [challenge |-> current_challenge, miner |-> w,
                              height |-> block_height]
      BY <3>2 DEF build_input
    <3>. QED BY <1>1, <1>2, <2>2, <3>1, <3>3, <3>4, <3>5
  <2>. QED BY <1>1, <2>1, <2>2
<1>6. LastWinnerIsLatest'
  <2> SUFFICES ASSUME NEW i \in 1..(Len(blocks) + 1), blocks'[i].winner # Nobody,
                      \A j \in 1..(Len(blocks) + 1) : j > i => blocks'[j].winner = Nobody
               PROVE  last_winner' = blocks'[i].winner
    BY <1>4 DEF LastWinnerIsLatest
  <2>1. CASE w # Nobody
    <3>1. i = Len(blocks) + 1
      BY <1>1, <2>1, ChainExtended
    <3>. QED BY <2>1, <3>1, ChainExtended DEF advance_round, RecordOutcome
  <2>2. CASE w = Nobody
    <3>1. i \in 1..Len(blocks) /\ i \in DOMAIN blocks
      BY <1>1, <2>2, ChainExtended
    <3>2. blocks'[i] = blocks[i] /\ \A j \in 1..Len(blocks) : blocks'[j] = blocks[j]
      BY <3>1, ChainExtended
    <3>3. \A j \in DOMAIN blocks : j > i => blocks[j].winner = Nobody
      BY <1>1, <3>2
    <3>4. last_winner = blocks[i].winner
      BY <3>1, <3>2, <3>3 DEF HInv, LastWinnerIsLatest
    <3>. QED BY <2>2, <3>2, <3>4 DEF advance_round, RecordOutcome
  <2>. QED BY <2>1, <2>2
<1>. QED BY <1>5, <1>6, ChainExtended DEF HInv

(* The induction step: only mine and advance_empty_round add a block.      *)
LEMMA HistoryStep == TypeOK /\ TypeOK' /\ IInv /\ HInv /\ [Next]_vars => HInv'
<1> SUFFICES ASSUME TypeOK, TypeOK', IInv, HInv, [Next]_vars PROVE HInv'
  OBVIOUS
<1>1. ASSUME NEW w \in Wallets, NEW t \in Targets, Initialize(w, t) PROVE HInv'
  <2>1. ~initialized /\ block_height = 0 /\ blocks' = blocks /\ block_height' = 0
    BY <1>1 DEF Initialize, IInv, ClosedIsGenesis
  <2>2. Len(blocks) = 0 /\ DOMAIN blocks = {}
    BY <2>1 DEF HInv, ChainGrows, TypeOK
  <2>3. Len(current_challenge') = 1
    BY <1>1 DEF Initialize
  <2>. QED BY <2>1, <2>2, <2>3 DEF HInv, ChainGrows, WonByFreshOwnWork, LastWinnerIsLatest
<1>2. ASSUME NEW m \in Miners, NEW s \in Solutions, Mine(m, s) PROVE HInv'
  <2> DEFINE b == [winner |-> m, reward |-> current_epoch_reward, solution |-> s]
  <2>1. /\ initialized /\ initialized' /\ advance_round(m) /\ blocks' = Append(blocks, b)
        /\ s.input = build_input(current_challenge, m, block_height)
    BY <1>2 DEF Mine, launch, verify_submission
  <2>2. b \in Block
    BY SolutionsTyped DEF Block, TypeOK, Challenge
  <2>3. b.winner = m /\ b.solution = s
    OBVIOUS
  <2> HIDE DEF b
  <2>. QED BY <2>1, <2>2, <2>3, RoundKeepsHistory
<1>3. CASE AdvanceEmptyRound
  <2> DEFINE b == [winner |-> Nobody, reward |-> 0, solution |-> NoSolution]
  <2>1. initialized /\ initialized' /\ advance_round(Nobody) /\ blocks' = Append(blocks, b)
    BY <1>3 DEF AdvanceEmptyRound, launch
  <2>2. b \in Block /\ b.winner = Nobody
    BY DEF Block
  <2> HIDE DEF b
  <2>. QED BY <2>1, <2>2, RoundKeepsHistory
<1>4. CASE UNCHANGED <<initialized, blocks, block_height, current_challenge, last_winner>>
  BY <1>4 DEF HInv, ChainGrows, WonByFreshOwnWork, LastWinnerIsLatest
<1>5. ASSUME NEW w \in Wallets,
             \/ FundVault(w) \/ RenounceAdmin(w)
             \/ \E t \in Targets : SetTarget(w, t)
             \/ \E h \in Holders, n \in Transfers : SplTransfer(w, h, n)
      PROVE  HInv'
  BY <1>4, <1>5 DEF FundVault, RenounceAdmin, SetTarget, SplTransfer, launch, round
<1>6. ASSUME NEW d \in TsSteps, Tick(d) PROVE HInv'
  BY <1>4, <1>6 DEF Tick, launch, round
<1>7. CASE UNCHANGED vars
  BY <1>4, <1>7 DEF vars, launch, round
<1>. QED BY <1>1, <1>2, <1>3, <1>5, <1>6, <1>7 DEF Next

LEMMA HistoryStart == Init => HInv
BY DEF Init, HInv, ChainGrows, WonByFreshOwnWork, LastWinnerIsLatest

(* The history of blocks and the challenge chain always agree.             *)
LEMMA HistoryHolds == Spec => []HInv
<1>. QED BY HistoryStart, HistoryStep, TypeCorrect, InvariantHolds, PTL DEF Spec

-----------------------------------------------------------------------------

(* Every paid block was solved by the wallet that was paid, at the height  *)
(* and for the challenge its round opened with.                            *)
THEOREM WorkIsFreshAndOwn == Spec => []WonByFreshOwnWork
<1>1. HInv => WonByFreshOwnWork
  BY DEF HInv
<1>. QED BY <1>1, HistoryHolds, PTL

(* No I-block is ever paid twice: its height is in it, and a height closes *)
(* once.                                                                   *)
THEOREM NeverPaidTwice == Spec => []PaidOnce
<1>1. TypeOK /\ HInv => PaidOnce
  <2> SUFFICES ASSUME TypeOK, HInv, NEW i \in DOMAIN blocks, NEW j \in DOMAIN blocks,
                      blocks[i].winner # Nobody, blocks[j].winner # Nobody,
                      blocks[i].solution.input = blocks[j].solution.input
               PROVE  i = j
    BY DEF PaidOnce
  <2>1. i \in Nat /\ j \in Nat
    BY DEF TypeOK
  <2>2. i - 1 = j - 1
    BY DEF HInv, WonByFreshOwnWork
  <2>. QED BY <2>1, <2>2
<1>. QED BY <1>1, TypeCorrect, HistoryHolds, PTL

(* last_winner is the winner of the latest block that was mined.           *)
THEOREM LastWinnerSurvives == Spec => []LastWinnerIsLatest
<1>1. HInv => LastWinnerIsLatest
  BY DEF HInv
<1>. QED BY <1>1, HistoryHolds, PTL

-----------------------------------------------------------------------------
(* The books.                                                              *)

(* The round's entry in each of the two books.                             *)
EmptyEntries(bs) == [i \in DOMAIN bs |-> IF bs[i].winner = Nobody THEN 1 ELSE 0]
PaidEntries(bs)  == [i \in DOMAIN bs |-> bs[i].reward]

LEMMA BlocksAppend ==
    ASSUME NEW bs \in Seq(Block), NEW b \in Block
    PROVE  /\ SumFunction(EmptyEntries(Append(bs, b)))
                = SumFunction(EmptyEntries(bs)) + (IF b.winner = Nobody THEN 1 ELSE 0)
           /\ SumFunction(PaidEntries(Append(bs, b)))
                = SumFunction(PaidEntries(bs)) + b.reward
<1> DEFINE n == Len(bs)
           long == Append(bs, b)
<1>1. /\ n \in Nat /\ DOMAIN bs = 1..n /\ DOMAIN long = 1..(n + 1)
      /\ \A i \in 1..n : long[i] = bs[i] /\ bs[i] \in Block
      /\ long[n + 1] = b
  BY ElementOfSeq
<1>2. \A c \in Block : c.reward \in Int
  BY DEF Block
<1> HIDE DEF n, long
<1>3. SumFunction(EmptyEntries(long))
        = SumFunction(EmptyEntries(bs)) + EmptyEntries(long)[n + 1]
  BY <1>1, SumAppend DEF EmptyEntries
<1>4. SumFunction(PaidEntries(long))
        = SumFunction(PaidEntries(bs)) + PaidEntries(long)[n + 1]
  <2>1. /\ DOMAIN PaidEntries(bs) = 1..n /\ DOMAIN PaidEntries(long) = 1..(n + 1)
        /\ \A i \in 1..n : /\ PaidEntries(bs)[i] \in Int
                           /\ PaidEntries(long)[i] = PaidEntries(bs)[i]
        /\ PaidEntries(long)[n + 1] \in Int
    BY <1>1, <1>2 DEF PaidEntries
  <2>. QED BY <1>1, <2>1, SumAppend
<1>5. /\ EmptyEntries(long)[n + 1] = IF b.winner = Nobody THEN 1 ELSE 0
      /\ PaidEntries(long)[n + 1] = b.reward
  BY <1>1 DEF EmptyEntries, PaidEntries
<1>. QED BY <1>3, <1>4, <1>5 DEF long

LEMMA HoldersFinite == IsFiniteSet(Holders)
<1>1. IsFiniteSet(Wallets)
  BY KeysAssumption, FS_AddElement DEF Wallets
<1>. QED BY <1>1, FS_AddElement DEF Holders

(* A transfer takes from one account what it gives to the other.           *)
LEMMA TransferKeepsSum ==
    ASSUME balance \in [Holders -> Nat], NEW a \in Holders, NEW b \in Holders,
           NEW n \in Nat, transfer_checked(a, b, n)
    PROVE  SumFunction(balance') = SumFunction(balance)
<1>1. balance' = [h \in Holders |-> balance[h] - (IF h = a THEN n ELSE 0)
                                              + (IF h = b THEN n ELSE 0)]
  BY DEF transfer_checked
<1>2. CASE a = b
  <2>1. \A h \in Holders : balance'[h] = balance[h]
    BY <1>1, <1>2
  <2>2. balance' = balance
    BY <1>1, <2>1
  <2>. QED BY <2>2
<1>3. CASE a # b
  <2> DEFINE mid == [h \in Holders |-> balance[h] - (IF h = a THEN n ELSE 0)]
  <2>1. /\ \A h \in Holders : balance[h] \in Int /\ mid[h] \in Int /\ balance'[h] \in Int
        /\ \A h \in Holders \ {a} : mid[h] = balance[h]
        /\ \A h \in Holders \ {b} : balance'[h] = mid[h]
        /\ mid[a] = balance[a] - n /\ balance'[b] = mid[b] + n
    BY <1>1, <1>3
  <2> HIDE DEF mid
  <2>2. SumFunctionOnSet(mid, Holders)
          = SumFunctionOnSet(balance, Holders) - balance[a] + mid[a]
    BY <2>1, HoldersFinite, SumChange
  <2>3. SumFunctionOnSet(balance', Holders)
          = SumFunctionOnSet(mid, Holders) - mid[b] + balance'[b]
    BY <2>1, HoldersFinite, SumChange
  <2>4. SumFunctionOnSet(balance, Holders) \in Int
    BY <2>1, HoldersFinite, SumTyped
  <2>5. SumFunctionOnSet(balance', Holders) = SumFunctionOnSet(balance, Holders)
    BY <2>1, <2>2, <2>3, <2>4
  <2>. QED BY <1>1, <2>5 DEF SumFunction
<1>. QED BY <1>2, <1>3

(* At first the admin holds the whole supply.                              *)
LEMMA GenesisSum == Init => SumFunction(balance) = TOTAL_SUPPLY_BASE
<1> SUFFICES ASSUME Init PROVE SumFunction(balance) = TOTAL_SUPPLY_BASE
  OBVIOUS
<1> DEFINE none == [h \in Holders |-> 0]
<1>1. balance = [h \in Holders |-> IF h = Admin THEN TOTAL_SUPPLY_BASE ELSE 0]
  BY DEF Init
<1>2. /\ Admin \in Holders /\ balance[Admin] = TOTAL_SUPPLY_BASE /\ none[Admin] = 0
      /\ \A h \in Holders : none[h] \in Int /\ balance[h] \in Int /\ none[h] = 0
      /\ \A h \in Holders \ {Admin} : balance[h] = none[h]
  BY <1>1, ConstantTypes DEF Holders, Wallets
<1> HIDE DEF none
<1>3. SumFunctionOnSet(none, Holders) = 0
  BY <1>2, HoldersFinite, SumZero
<1>4. SumFunctionOnSet(balance, Holders)
        = SumFunctionOnSet(none, Holders) - none[Admin] + balance[Admin]
  BY <1>2, HoldersFinite, SumChange
<1>. QED BY <1>1, <1>2, <1>3, <1>4, ConstantTypes DEF SumFunction

(* Both books and the balances, as an invariant of one step each.          *)
Books ==
    /\ empty_rounds = SumFunction(EmptyEntries(blocks))
    /\ cumulative_mined = SumFunction(PaidEntries(blocks))
    /\ SumFunction(balance) = TOTAL_SUPPLY_BASE

LEMMA BooksStep == TypeOK /\ IInv /\ Books /\ [Next]_vars => Books'
<1> SUFFICES ASSUME TypeOK, IInv, Books, [Next]_vars PROVE Books'
  OBVIOUS
<1> USE ConstantTypes
<1>0. Nobody \notin Miners /\ balance \in [Holders -> Nat] /\ blocks \in Seq(Block)
  BY KeysAssumption DEF Holders, Wallets, TypeOK
<1>1. ASSUME NEW w \in Wallets, NEW t \in Targets, Initialize(w, t) PROVE Books'
  <2>1. cumulative_mined = 0 /\ empty_rounds = 0
    BY <1>1 DEF Initialize, IInv, ClosedIsGenesis
  <2>. QED BY <1>1, <2>1 DEF Initialize, Books
<1>2. ASSUME NEW m \in Miners, NEW s \in Solutions, Mine(m, s) PROVE Books'
  <2> DEFINE b == [winner |-> m, reward |-> current_epoch_reward, solution |-> s]
  <2>1. b \in Block /\ b.winner # Nobody /\ b.reward = current_epoch_reward
    BY <1>0, SolutionsTyped DEF Block, TypeOK, Challenge
  <2>2. /\ blocks' = Append(blocks, b) /\ advance_round(m)
        /\ cumulative_mined' = cumulative_mined + current_epoch_reward
        /\ transfer_checked(Vault, m, current_epoch_reward)
    BY <1>2 DEF Mine
  <2>3. empty_rounds' = empty_rounds /\ empty_rounds \in Nat
    BY <1>0, <2>2 DEF advance_round, RecordOutcome, TypeOK
  <2>4. SumFunction(balance') = SumFunction(balance)
    BY <1>0, <2>2, TransferKeepsSum DEF Holders, Wallets, TypeOK
  <2> HIDE DEF b
  <2>. QED BY <1>0, <2>1, <2>2, <2>3, <2>4, BlocksAppend DEF Books
<1>3. CASE AdvanceEmptyRound
  <2> DEFINE b == [winner |-> Nobody, reward |-> 0, solution |-> NoSolution]
  <2>1. b \in Block /\ b.winner = Nobody /\ b.reward = 0
    BY DEF Block
  <2>2. /\ blocks' = Append(blocks, b) /\ advance_round(Nobody)
        /\ cumulative_mined' = cumulative_mined /\ balance' = balance
    BY <1>3 DEF AdvanceEmptyRound
  <2>3. empty_rounds' = empty_rounds + 1 /\ cumulative_mined \in Nat
    BY <2>2 DEF advance_round, RecordOutcome, TypeOK
  <2> HIDE DEF b
  <2>. QED BY <1>0, <2>1, <2>2, <2>3, BlocksAppend DEF Books
<1>4. ASSUME NEW w \in Wallets, NEW h \in Holders, NEW n \in Nat,
             transfer_checked(w, h, n), UNCHANGED <<blocks, empty_rounds, cumulative_mined>>
      PROVE  Books'
  BY <1>0, <1>4, TransferKeepsSum DEF Books, Holders
<1>5. ASSUME NEW w \in Wallets, FundVault(w) PROVE Books'
  BY <1>4, <1>5 DEF FundVault, Holders
<1>6. ASSUME NEW w \in Wallets, NEW h \in Holders, NEW n \in Transfers,
             SplTransfer(w, h, n)
      PROVE  Books'
  BY <1>4, <1>6, EnvironmentAssumption DEF SplTransfer, round
<1>7. ASSUME NEW w \in Wallets, RenounceAdmin(w) \/ \E t \in Targets : SetTarget(w, t)
      PROVE  Books'
  BY <1>7 DEF RenounceAdmin, SetTarget, round, Books
<1>8. ASSUME NEW d \in TsSteps, Tick(d) PROVE Books'
  BY <1>8 DEF Tick, round, Books
<1>9. CASE UNCHANGED vars
  BY <1>9 DEF vars, round, Books
<1>. QED BY <1>1, <1>2, <1>3, <1>5, <1>6, <1>7, <1>8, <1>9 DEF Next

(* Every closed round is in the books as mined or empty, cumulative_mined  *)
(* is what the BlockMined events paid, and whatever is mined, given away or*)
(* deposited, the balances add up to the total supply.                     *)
THEOREM BooksAlwaysBalance == Spec => []BooksBalance
<1>1. Init => Books
  <2> SUFFICES ASSUME Init PROVE Books
    OBVIOUS
  <2>1. /\ empty_rounds = 0 /\ cumulative_mined = 0 /\ blocks = <<>> /\ DOMAIN blocks = {}
    BY DEF Init
  <2>2. DOMAIN EmptyEntries(blocks) = {} /\ DOMAIN PaidEntries(blocks) = {}
    BY <2>1 DEF EmptyEntries, PaidEntries
  <2>3. /\ SumFunction(EmptyEntries(blocks)) = 0
        /\ SumFunction(PaidEntries(blocks)) = 0
    BY <2>2, SumEmpty DEF SumFunction
  <2>. QED BY <2>1, <2>3, GenesisSum DEF Books
<1>2. HInv /\ Books => BooksBalance
  BY DEF HInv, ChainGrows, Books, BooksBalance, EmptyEntries, PaidEntries
<1>. QED BY <1>1, <1>2, BooksStep, TypeCorrect, InvariantHolds, HistoryHolds, PTL
         DEF Spec

-----------------------------------------------------------------------------
(* What the rounds pay.  First the powers of 2.                            *)

LEMMA Pow2Unfolds ==
    /\ Pow2[0] = 1
    /\ \A k \in Nat : Pow2[k + 1] = 2 * Pow2[k]
<1> DEFINE two == 2
<1>1. Pow2 = CHOOSE f : PowersOf(two, f)
  BY DEF Pow2, PowersOf
<1>2. two \in Int
  OBVIOUS
<1> HIDE DEF two
<1>3. Pow2[0] = 1 /\ \A k \in Nat : Pow2[k + 1] = two * Pow2[k]
  BY <1>1, <1>2, Powers
<1>. QED BY <1>3 DEF two

LEMMA Pow2Typed == \A k \in Nat : Pow2[k] \in Nat \ {0}
<1> DEFINE N == {k \in Nat : Pow2[k] \in Nat \ {0}}
<1>1. 0 \in N
  BY Pow2Unfolds
<1>2. ASSUME NEW k \in Nat, k \in N PROVE k + 1 \in N
  <2>1. Pow2[k + 1] = 2 * Pow2[k]
    BY Pow2Unfolds
  <2>. QED BY <1>2, <2>1
<1> HIDE DEF N
<1>3. \A k \in Nat : k \in N
  BY <1>1, <1>2, NatSetInduction
<1>. QED BY <1>3 DEF N

LEMMA Pow2Monotonic ==
    ASSUME NEW k \in Nat, NEW j \in Nat, k <= j
    PROVE  Pow2[k] <= Pow2[j]
<1> DEFINE N == {d \in Nat : Pow2[k] <= Pow2[k + d]}
<1>1. 0 \in N
  BY Pow2Typed
<1>2. ASSUME NEW d \in Nat, d \in N PROVE d + 1 \in N
  <2>1. k + d \in Nat /\ (k + d) + 1 = k + (d + 1)
    OBVIOUS
  <2>2. Pow2[k + (d + 1)] = 2 * Pow2[k + d]
    BY <2>1, Pow2Unfolds
  <2>3. Pow2[k] \in Nat /\ Pow2[k + d] \in Nat
    BY <2>1, Pow2Typed
  <2>. QED BY <1>2, <2>2, <2>3
<1> HIDE DEF N
<1>3. \A d \in Nat : d \in N
  BY <1>1, <1>2, NatSetInduction
<1>4. j - k \in Nat /\ k + (j - k) = j
  OBVIOUS
<1>. QED BY <1>3, <1>4 DEF N

(* How often the reward has halved, from the countdown.                    *)
LEMMA EpochOf ==
    ASSUME NEW n \in Nat \ {0}, NEW h \in Nat, NEW p \in Nat, n * p - h \in 1..n
    PROVE  p \in Nat \ {0} /\ h \div n = p - 1
<1>1. p # 0
  OBVIOUS
<1>2. p - 1 \in Nat
  BY <1>1
<1>3. n * (p - 1) = n * p - n /\ n * p \in Nat
  BY <1>2
<1> DEFINE r == n - (n * p - h)
<1>4. r \in 0..(n - 1)
  BY <1>3
<1>5. h = n * (p - 1) + r
  BY <1>3
<1> HIDE DEF r
<1>. QED BY <1>1, <1>2, <1>4, <1>5, QuotientIs

(* From the 64th halving on, nothing of a 64-bit reward is left to shift.  *)
LEMMA RewardIsShift ==
    ASSUME NEW h \in Nat
    PROVE  reward_at_height(h)
             = INITIAL_BLOCK_REWARD_BASE \div Pow2[h \div HALVING_INTERVAL_BLOCKS]
<1> DEFINE R == INITIAL_BLOCK_REWARD_BASE
           k == h \div HALVING_INTERVAL_BLOCKS
<1>1. R \in Nat /\ k \in Nat
  BY ConstantTypes, DivModFacts
<1>2. ASSUME k >= 64 PROVE R \div Pow2[k] = 0
  <2>1. PICK bits \in 0..64 : U64_MAX < Pow2[bits]
    BY ScheduleAssumption
  <2>2. Pow2[bits] <= Pow2[k] /\ Pow2[bits] \in Nat /\ Pow2[k] \in Nat \ {0}
    BY <1>1, <1>2, Pow2Monotonic, Pow2Typed
  <2>3. R <= U64_MAX
    <3> DEFINE H == HALVING_INTERVAL_BLOCKS
    <3>1. H \in Nat \ {0} /\ MINEABLE_BASE \in Nat /\ U64_MAX \in Nat
          /\ 2 * H * R <= MINEABLE_BASE /\ MINEABLE_BASE <= U64_MAX
      BY ConstantTypes, ScheduleAssumption, SupplyAssumption
    <3> HIDE DEF R, H
    <3>2. 2 * H * R >= R
      BY <1>1, <3>1
    <3>. QED BY <1>1, <3>1, <3>2
  <2>4. R \in 0..(Pow2[k] - 1) /\ R = Pow2[k] * 0 + R
    BY <1>1, <2>1, <2>2, <2>3, ScheduleAssumption
  <2>. QED BY <1>1, <2>2, <2>4, QuotientIs
<1>. QED BY <1>1, <1>2 DEF reward_at_height

(* Closing a round: the halved reward is the shifted one.                  *)
LEMMA RewardStep ==
    ASSUME TypeOK, NextBoundaries, initialized, initialized',
           NEW w \in Miners \union {Nobody}, advance_round(w),
           current_epoch_reward = reward_at_height(block_height)
    PROVE  current_epoch_reward' = reward_at_height(block_height')
<1> DEFINE H == HALVING_INTERVAL_BLOCKS
           R == INITIAL_BLOCK_REWARD_BASE
           b == next_halving_block
           h == block_height
           p == b \div H
<1>1. /\ H \in Nat \ {0} /\ R \in Nat /\ b \in Nat /\ h \in Nat
      /\ b % H = 0 /\ b - h \in 1..H
  BY ConstantTypes DEF TypeOK, NextBoundaries, is_halving_boundary
<1>2. p \in Nat /\ b = H * p
  <2>1. p \in Nat /\ b % H \in 0..(H - 1) /\ b = H * p + (b % H)
    BY <1>1, DivModFacts
  <2> HIDE DEF p
  <2>. QED BY <1>1, <2>1
<1>3. p \in Nat \ {0} /\ h \div H = p - 1
  <2> HIDE DEF H, h, p, b
  <2>. QED BY <1>1, <1>2, EpochOf
<1>4. /\ block_height' = h + 1 /\ h + 1 \in Nat
      /\ b - h = 1 => current_epoch_reward' = current_epoch_reward \div 2
      /\ b - h # 1 => current_epoch_reward' = current_epoch_reward
  BY <1>1, RoundClosed
<1>5. current_epoch_reward = R \div Pow2[p - 1]
  BY <1>1, <1>3, RewardIsShift
<1>6. reward_at_height(h + 1) = R \div Pow2[(h + 1) \div H]
  BY <1>4, RewardIsShift
<1>7. CASE b - h = 1
  <2>1. (h + 1) \div H = p
    <3> HIDE DEF p
    <3>1. h + 1 = H * p + 0 /\ 0 \in 0..(H - 1)
      BY <1>1, <1>2, <1>7
    <3>. QED BY <1>1, <1>2, <1>4, <3>1, QuotientIs
  <2> HIDE DEF p
  <2>2. p - 1 \in Nat /\ (p - 1) + 1 = p
    BY <1>3
  <2>3. Pow2[p] = 2 * Pow2[p - 1] /\ Pow2[p - 1] \in Nat \ {0}
    BY <2>2, Pow2Unfolds, Pow2Typed
  <2>4. (R \div Pow2[p - 1]) \div 2 = R \div Pow2[p]
    <3> DEFINE n == Pow2[p - 1]
               two == 2
    <3>1. R \in Nat /\ n \in Nat \ {0} /\ two \in Nat \ {0}
      BY <1>1, <2>3
    <3> HIDE DEF R, n, two
    <3>2. (R \div n) \div two = R \div (two * n)
      BY <3>1, QuotientOfQuotient
    <3>. QED BY <2>3, <3>2 DEF n, two
  <2>. QED BY <1>4, <1>5, <1>6, <1>7, <2>1, <2>4
<1>8. CASE b - h # 1
  <2> HIDE DEF p
  <2>1. H * p - (h + 1) \in 1..H
    BY <1>1, <1>2, <1>8
  <2>2. (h + 1) \div H = p - 1
    BY <1>1, <1>2, <1>4, <2>1, EpochOf
  <2>. QED BY <1>4, <1>5, <1>6, <1>8, <2>2
<1>. QED BY <1>7, <1>8

(* The first epoch.                                                        *)
LEMMA GenesisReward == reward_at_height(0) = INITIAL_BLOCK_REWARD_BASE
<1> DEFINE R == INITIAL_BLOCK_REWARD_BASE
<1>1. HALVING_INTERVAL_BLOCKS \in Nat \ {0} /\ R \in Nat
  BY ConstantTypes
<1>2. 0 \div HALVING_INTERVAL_BLOCKS = 0
  BY <1>1
<1>3. Pow2[0] = 1
  BY Pow2Unfolds
<1>4. R \div 1 = R
  BY <1>1
<1>. QED BY <1>2, <1>3, <1>4, RewardIsShift

(* What one more round adds to PaysSchedule.                               *)
LEMMA RoundPays ==
    ASSUME TypeOK, IInv, HInv, PaysSchedule, initialized, initialized',
           NEW w \in Miners \union {Nobody}, advance_round(w),
           NEW b \in Block, blocks' = Append(blocks, b), b.winner = w,
           w # Nobody => b.reward = current_epoch_reward
    PROVE  PaysSchedule'
<1>1. current_epoch_reward' = reward_at_height(block_height')
  BY RewardStep DEF IInv, PaysSchedule
<1>2. /\ blocks \in Seq(Block) /\ Len(blocks) \in Nat /\ DOMAIN blocks = 1..Len(blocks)
      /\ Len(blocks) = block_height /\ Len(blocks') = Len(blocks) + 1
      /\ DOMAIN blocks' = 1..(Len(blocks) + 1)
      /\ blocks'[Len(blocks) + 1] = b
      /\ \A i \in 1..Len(blocks) : blocks'[i] = blocks[i]
  BY DEF TypeOK, HInv, ChainGrows
<1>3. ASSUME NEW i \in DOMAIN blocks', blocks'[i].winner # Nobody
      PROVE  blocks'[i].reward = reward_at_height(i - 1)
  <2>1. CASE i \in 1..Len(blocks)
    BY <1>2, <1>3, <2>1 DEF PaysSchedule
  <2>2. CASE i = Len(blocks) + 1
    <3>1. i - 1 = block_height
      BY <1>2, <2>2
    <3>2. b.reward = reward_at_height(block_height)
      BY <1>2, <1>3, <2>2 DEF PaysSchedule
    <3>. QED BY <1>2, <2>2, <3>1, <3>2
  <2>. QED BY <1>2, <2>1, <2>2
<1>. QED BY <1>1, <1>3 DEF PaysSchedule

LEMMA ScheduleStep == TypeOK /\ IInv /\ HInv /\ PaysSchedule /\ [Next]_vars => PaysSchedule'
<1> SUFFICES ASSUME TypeOK, IInv, HInv, PaysSchedule, [Next]_vars PROVE PaysSchedule'
  OBVIOUS
<1>1. ASSUME NEW w \in Wallets, NEW t \in Targets, Initialize(w, t) PROVE PaysSchedule'
  <2>1. blocks' = blocks /\ Len(blocks) = 0 /\ block_height' = 0
        /\ current_epoch_reward' = INITIAL_BLOCK_REWARD_BASE
    BY <1>1 DEF Initialize, IInv, ClosedIsGenesis, HInv, ChainGrows
  <2>2. DOMAIN blocks' = {}
    BY <2>1 DEF TypeOK
  <2>. QED BY <2>1, <2>2, GenesisReward DEF PaysSchedule
<1>2. ASSUME NEW m \in Miners, NEW s \in Solutions, Mine(m, s) PROVE PaysSchedule'
  <2> DEFINE b == [winner |-> m, reward |-> current_epoch_reward, solution |-> s]
  <2>1. b \in Block /\ b.winner = m /\ b.reward = current_epoch_reward
    BY SolutionsTyped DEF Block, TypeOK, Challenge
  <2>2. initialized /\ initialized' /\ blocks' = Append(blocks, b) /\ advance_round(m)
    BY <1>2 DEF Mine, launch
  <2> HIDE DEF b
  <2>. QED BY <2>1, <2>2, RoundPays
<1>3. CASE AdvanceEmptyRound
  <2> DEFINE b == [winner |-> Nobody, reward |-> 0, solution |-> NoSolution]
  <2>1. b \in Block /\ b.winner = Nobody
    BY DEF Block
  <2>2. initialized /\ initialized' /\ blocks' = Append(blocks, b) /\ advance_round(Nobody)
    BY <1>3 DEF AdvanceEmptyRound, launch
  <2> HIDE DEF b
  <2>. QED BY <2>1, <2>2, RoundPays
<1>4. CASE UNCHANGED <<initialized, blocks, block_height, current_epoch_reward>>
  BY <1>4 DEF PaysSchedule
<1>5. ASSUME NEW w \in Wallets,
             \/ FundVault(w) \/ RenounceAdmin(w)
             \/ \E t \in Targets : SetTarget(w, t)
             \/ \E h \in Holders, n \in Transfers : SplTransfer(w, h, n)
      PROVE  PaysSchedule'
  BY <1>4, <1>5 DEF FundVault, RenounceAdmin, SetTarget, SplTransfer, launch, round, schedule
<1>6. ASSUME NEW d \in TsSteps, Tick(d) PROVE PaysSchedule'
  BY <1>4, <1>6 DEF Tick, launch, round, schedule
<1>7. CASE UNCHANGED vars
  BY <1>4, <1>7 DEF vars, launch, round, schedule
<1>. QED BY <1>1, <1>2, <1>3, <1>5, <1>6, <1>7 DEF Next

(* Every mined block paid what schedule.rs's reward_at_height gives for its*)
(* height, and the open round will: halving at each boundary is shifting by*)
(* the number of halvings, for every reward, epoch length and height.      *)
THEOREM ScheduleIsPaid == Spec => []PaysSchedule
<1>1. Init => PaysSchedule
  BY DEF Init, PaysSchedule
<1>. QED BY <1>1, ScheduleStep, TypeCorrect, InvariantHolds, HistoryHolds, PTL DEF Spec

-----------------------------------------------------------------------------
(* The command-line miners.  Their copies of the config are snapshots of   *)
(* the past, and this is what a snapshot is still worth.                   *)

Phases  == {"fetch", "solve", "submit", "advance", "exited"}
Configs == [challenge : Challenge, height : Nat, target : 0..MAX_TARGET,
            reward : Nat, admin_renounced : BOOLEAN]

LocalTypes ==
    /\ phase \in [Clients -> Phases] /\ cfg \in [Clients -> Configs \union {None}]
    /\ current_height \in [Clients -> Nat \union {None}]
    /\ stall_for \in [Clients -> Nat] /\ DOMAIN rested = Clients
    /\ seen \in [Clients -> [slot : Nat, secs : Nat]]
    /\ DOMAIN candidate = Clients /\ DOMAIN said = Clients
    /\ blocks_mined \in [Clients -> Nat] /\ total_reward_base \in [Clients -> Nat]

(* No round was opened, and no timeout anchored, in the future.            *)
SlotsPast == current_round_open_slot <= slot /\ opened_slot <= slot

(* A copy from this round agrees with the program.                         *)
Seen(m) ==
    /\ initialized /\ cfg[m] \in Configs
    /\ cfg[m].height <= block_height
    /\ cfg[m].height = block_height =>
          cfg[m].challenge = current_challenge /\ cfg[m].reward = current_epoch_reward

(* A height is first seen after its round opened, but for the first round, *)
(* whose timeout fund_vault restarts; the watchdog counts from there.      *)
Watching(m) ==
    /\ seen[m].slot <= slot /\ stall_for[m] = seen[m].secs
    /\ current_height[m] \in Nat => initialized /\ current_height[m] <= block_height
    /\ current_height[m] = block_height =>
          \/ current_round_open_slot <= seen[m].slot
          \/ block_height = 0 /\ seen[m].slot <= opened_slot

(* The round that a miner is about to advance was watched to the end.      *)
Advancing(m) == current_height[m] = cfg[m].height /\ seen[m].secs >= ROUND_STALL

Prepared(m) ==
    \E h \in Hashes :
       candidate[m] = [input |-> build_input(cfg[m].challenge, m, cfg[m].height), hash |-> h]

Earnings(m) ==
    /\ blocks_mined[m] <= Cardinality(Won(m))
    /\ total_reward_base[m] <= SumFunctionOnSet(Paid, Won(m))

MinerInv(m) ==
    /\ phase[m] \in {"solve", "submit", "advance"} => Seen(m)
    /\ phase[m] = "submit" => Prepared(m)
    /\ phase[m] = "advance" => Advancing(m)
    /\ Watching(m) /\ Earnings(m)

CliInv == LocalTypes /\ SlotsPast /\ \A m \in Clients : MinerInv(m)

-----------------------------------------------------------------------------
(* What a step of the program can do to what a miner remembers of it.      *)

Closes ==
    /\ initialized /\ block_height' = block_height + 1
    /\ UNCHANGED <<opened_slot, slot>> /\ current_round_open_slot' = slot
    /\ \E b \in Block : blocks' = Append(blocks, b)

Stays ==
    /\ UNCHANGED <<block_height, blocks>>
    /\ initialized => UNCHANGED <<current_challenge, current_epoch_reward>>
    /\ \/ UNCHANGED <<current_round_open_slot, opened_slot>>
       \/ /\ ~initialized
          /\ UNCHANGED <<opened_slot, slot>> /\ current_round_open_slot' = slot
       \/ /\ block_height = 0 /\ slot' = slot
          /\ opened_slot' = slot /\ current_round_open_slot' = slot

ChainStep ==
    /\ initialized \in BOOLEAN /\ (initialized => initialized') /\ slot <= slot'
    /\ block_height' \in Nat /\ slot' \in Nat
    /\ Closes \/ Stays

LEMMA ChainSteps == TypeOK /\ IInv /\ [Next]_vars => ChainStep
<1> SUFFICES ASSUME TypeOK, IInv, [Next]_vars PROVE ChainStep
  OBVIOUS
<1>0. /\ initialized \in BOOLEAN /\ slot \in Nat
      /\ block_height' \in Nat /\ slot' \in Nat
  BY TypeStep DEF TypeOK
<1> USE DEF ChainStep
<1>1. ASSUME NEW w \in Wallets, NEW t \in Targets, Initialize(w, t) PROVE ChainStep
  <2>1. block_height = 0
    BY <1>1 DEF Initialize, IInv, ClosedIsGenesis
  <2>. QED BY <1>0, <1>1, <2>1 DEF Initialize, Stays, clock
<1>2. ASSUME NEW w \in Wallets, FundVault(w) PROVE ChainStep
  <2>1. block_height = 0
    BY <1>2 DEF FundVault, IInv, ClosedIsGenesis
  <2>. QED BY <1>0, <1>2, <2>1 DEF FundVault, Stays, clock
<1>3. ASSUME NEW m \in Miners, NEW s \in Solutions, Mine(m, s) PROVE ChainStep
  <2>1. [winner |-> m, reward |-> current_epoch_reward, solution |-> s] \in Block
    BY SolutionsTyped DEF Block, TypeOK, Challenge
  <2>. QED BY <1>0, <1>3, <2>1 DEF Mine, advance_round, Closes, clock, launch
<1>4. CASE AdvanceEmptyRound
  <2>1. [winner |-> Nobody, reward |-> 0, solution |-> NoSolution] \in Block
    BY DEF Block
  <2>. QED BY <1>0, <1>4, <2>1 DEF AdvanceEmptyRound, advance_round, Closes, clock, launch
<1>5. ASSUME NEW w \in Wallets,
             \/ RenounceAdmin(w) \/ \E t \in Targets : SetTarget(w, t)
             \/ \E h \in Holders, n \in Transfers : SplTransfer(w, h, n)
      PROVE  ChainStep
  BY <1>0, <1>5 DEF RenounceAdmin, SetTarget, SplTransfer, Stays, clock, launch, round, schedule
<1>6. ASSUME NEW d \in TsSteps, Tick(d) PROVE ChainStep
  BY <1>0, <1>6 DEF Tick, Stays, launch, round, schedule
<1>7. CASE UNCHANGED vars
  BY <1>0, <1>7 DEF vars, Stays, clock, launch, round, schedule
<1>. QED BY <1>1, <1>2, <1>3, <1>4, <1>5, <1>6, <1>7 DEF Next

LEMMA RoundTypes ==
    TypeOK => /\ block_height \in Nat /\ slot \in Nat
              /\ current_round_open_slot \in Nat /\ opened_slot \in Nat
BY DEF TypeOK

LEMMA SlotsStayPast ==
    ASSUME TypeOK, SlotsPast, ChainStep
    PROVE  SlotsPast'
<1>1. CASE Closes
  BY <1>1, RoundTypes DEF SlotsPast, ChainStep, Closes
<1>2. CASE Stays
  BY <1>2, RoundTypes DEF SlotsPast, ChainStep, Stays
<1>. QED BY <1>1, <1>2 DEF ChainStep

(* A copy that is kept stays a copy of this round or of an earlier one.    *)
LEMMA SeenKept ==
    ASSUME TypeOK, ChainStep, NEW m \in Clients, Seen(m), cfg'[m] = cfg[m]
    PROVE  Seen(m)'
<1>1. initialized /\ initialized' /\ cfg[m].height \in Nat /\ cfg[m].height <= block_height
  BY DEF Seen, ChainStep, Configs
<1>2. CASE Closes
  BY <1>1, <1>2, RoundTypes DEF Seen, Closes
<1>3. CASE Stays
  BY <1>1, <1>3, RoundTypes DEF Seen, Stays
<1>. QED BY <1>2, <1>3 DEF ChainStep

LEMMA WatchingKept ==
    ASSUME TypeOK, SlotsPast, ChainStep, LocalTypes, NEW m \in Clients, Watching(m),
           seen'[m].slot = seen[m].slot, stall_for'[m] = seen'[m].secs,
           current_height'[m] = current_height[m]
    PROVE  Watching(m)'
<1>1. /\ seen[m].slot \in Nat /\ current_height[m] \in Nat \union {None}
      /\ None \notin Nat /\ slot' \in Nat /\ slot <= slot' /\ block_height' \in Nat
      /\ initialized => initialized'
  BY CliAssumption DEF LocalTypes, ChainStep
<1>2. CASE Closes
  BY <1>1, <1>2, RoundTypes DEF Closes, Watching
<1>3. CASE Stays
  BY <1>1, <1>3, RoundTypes DEF SlotsPast, Stays, Watching
<1>. QED BY <1>2, <1>3 DEF ChainStep

(* What one more block adds to what a miner won.                           *)
LEMMA WonAppend ==
    ASSUME TypeOK, NEW m \in Miners, NEW b \in Block, blocks' = Append(blocks, b)
    PROVE  /\ Cardinality(Won(m)) \in Nat /\ SumFunctionOnSet(Paid, Won(m)) \in Nat
           /\ Cardinality(Won(m)') = Cardinality(Won(m)) + (IF b.winner = m THEN 1 ELSE 0)
           /\ SumFunctionOnSet(Paid', Won(m)')
                = SumFunctionOnSet(Paid, Won(m)) + (IF b.winner = m THEN b.reward ELSE 0)
<1> DEFINE n == Len(blocks)
           W == Won(m)
<1>1. /\ n \in Nat /\ DOMAIN blocks = 1..n /\ DOMAIN blocks' = 1..(n + 1)
      /\ \A i \in 1..n : blocks'[i] = blocks[i] /\ blocks[i] \in Block
      /\ blocks'[n + 1] = b
  BY ElementOfSeq DEF TypeOK
<1>2. \A c \in Block : c.reward \in Nat
  BY DEF Block
<1> HIDE DEF n
<1>3. IsFiniteSet(W) /\ Cardinality(W) \in Nat
  <2>1. W \subseteq 1..n
    BY <1>1 DEF Won
  <2> HIDE DEF W
  <2>2. IsFiniteSet(1..n)
    <3>1. 1 \in Int /\ n \in Int
      BY <1>1
    <3>. QED BY <3>1, FS_Interval
  <2>. QED BY <2>1, <2>2, FS_Subset, FS_CardinalityType
<1>4. /\ W \subseteq 1..n /\ n + 1 \notin W
      /\ Won(m)' = IF b.winner = m THEN W \union {n + 1} ELSE W
  BY <1>1 DEF Won
<1>5. /\ \A i \in W : Paid[i] \in Nat /\ Paid'[i] = Paid[i]
      /\ Paid'[n + 1] = b.reward /\ b.reward \in Nat
  BY <1>1, <1>2, <1>4 DEF Paid
<1> HIDE DEF W
<1>6. SumFunctionOnSet(Paid, W) \in Nat
  BY <1>3, <1>5, SumTyped
<1>7. SumFunctionOnSet(Paid', W) = SumFunctionOnSet(Paid, W)
  BY <1>3, <1>5, SumAgree DEF AgreeOn
<1>8. SumFunctionOnSet(Paid', W \union {n + 1}) = SumFunctionOnSet(Paid', W) + b.reward
  <2> DEFINE e == Paid'
             x == n + 1
  <2>1. /\ \A i \in W \union {x} : e[i] \in Int
        /\ x \notin W /\ e[x] = b.reward
    BY <1>4, <1>5
  <2> HIDE DEF e, x
  <2>2. SumFunctionOnSet(e, W \union {x}) = SumFunctionOnSet(e, W) + e[x]
    BY <1>3, <2>1, SumAdd
  <2>. QED BY <2>1, <2>2 DEF e, x
<1>9. Cardinality(W \union {n + 1}) = Cardinality(W) + 1
  BY <1>3, <1>4, FS_AddElement
<1>10. CASE b.winner = m
  BY <1>3, <1>4, <1>6, <1>7, <1>8, <1>9, <1>10 DEF W
<1>11. CASE b.winner # m
  BY <1>3, <1>4, <1>6, <1>7, <1>11 DEF W
<1>. QED BY <1>10, <1>11

LEMMA EarningsKept ==
    ASSUME TypeOK, LocalTypes, ChainStep, NEW m \in Clients, Earnings(m),
           blocks_mined'[m] = blocks_mined[m],
           total_reward_base'[m] = total_reward_base[m]
    PROVE  Earnings(m)'
<1>1. m \in Miners /\ blocks_mined[m] \in Nat /\ total_reward_base[m] \in Nat
  BY CliAssumption DEF LocalTypes
<1>2. CASE Stays
  BY <1>2 DEF Stays, Earnings, Won, Paid
<1>3. CASE Closes
  <2>1. PICK b \in Block : blocks' = Append(blocks, b)
    BY <1>3 DEF Closes
  <2>2. b.reward \in Nat
    BY DEF Block
  <2>. QED BY <1>1, <2>1, <2>2, WonAppend DEF Earnings
<1>. QED BY <1>2, <1>3 DEF ChainStep

(* A miner that does nothing while time passes.                            *)
Untouched(m) ==
    /\ phase'[m] = phase[m] /\ cfg'[m] = cfg[m] /\ candidate'[m] = candidate[m]
    /\ current_height'[m] = current_height[m]
    /\ seen'[m].slot = seen[m].slot
    /\ seen[m].secs >= ROUND_STALL => seen'[m].secs >= ROUND_STALL
    /\ stall_for[m] = seen[m].secs => stall_for'[m] = seen'[m].secs
    /\ blocks_mined'[m] = blocks_mined[m] /\ total_reward_base'[m] = total_reward_base[m]

LEMMA UntouchedKept ==
    ASSUME TypeOK, SlotsPast, LocalTypes, ChainStep, NEW m \in Clients, MinerInv(m),
           Untouched(m)
    PROVE  MinerInv(m)'
<1>1. Seen(m) => Seen(m)'
  BY SeenKept DEF Untouched
<1>2. Watching(m)'
  <2>1. stall_for'[m] = seen'[m].secs /\ Watching(m)
    BY DEF Untouched, MinerInv, Watching
  <2>. QED BY <2>1, WatchingKept DEF Untouched
<1>3. Earnings(m)'
  BY EarningsKept DEF Untouched, MinerInv
<1>4. phase[m] = "submit" => Prepared(m)'
  BY DEF Untouched, MinerInv, Prepared
<1>5. phase[m] = "advance" => Advancing(m)'
  BY DEF Untouched, MinerInv, Advancing
<1>. QED BY <1>1, <1>2, <1>3, <1>4, <1>5 DEF Untouched, MinerInv

-----------------------------------------------------------------------------
(* Every step of the miners and of their surroundings is one of the        *)
(* program's, or invisible to it.                                          *)

LEMMA OwnSolution ==
    ASSUME TypeOK, HInv, NEW m \in Clients, Prepared(m), Mine(m, candidate[m])
    PROVE  candidate[m] \in Solutions /\ m \in Miners /\ cfg[m].height = block_height
<1>1. PICK h \in Hashes :
         candidate[m] = [input |-> build_input(cfg[m].challenge, m, cfg[m].height), hash |-> h]
  BY DEF Prepared
<1>2. /\ initialized
      /\ build_input(cfg[m].challenge, m, cfg[m].height)
           = build_input(current_challenge, m, block_height)
  BY <1>1 DEF Mine, verify_submission
<1>3. cfg[m].height = block_height
  BY <1>2 DEF build_input
<1>4. m \in Miners /\ block_height \in 0..block_height
  <2>1. m \in Miners
    BY CliAssumption
  <2>2. block_height \in 0..block_height
    BY RoundTypes
  <2>. QED BY <2>1, <2>2
<1>5. current_challenge \in Challenges
  <2>1. Len(current_challenge) \in 1..Len(current_challenge)
    BY <1>2, RoundTypes DEF HInv, ChainGrows
  <2>2. SubSeq(current_challenge, 1, Len(current_challenge)) = current_challenge
    BY SubSeqFull DEF TypeOK
  <2>. QED BY <2>1, <2>2 DEF Challenges
<1>6. candidate[m] = [input |-> build_input(current_challenge, m, block_height), hash |-> h]
  BY <1>1, <1>2
<1>. QED BY <1>3, <1>4, <1>5, <1>6 DEF Solutions

LEMMA CliIsProgram ==
    ASSUME TypeOK, IInv, HInv, CliInv, [CNext]_allVars
    PROVE  [Next]_vars
<1>1. Admin \in Wallets
  BY DEF Wallets
<1>2. CASE UNCHANGED allVars
  BY <1>2 DEF allVars
<1>3. CASE Environment
  <2>1. CASE InitLocalnet \/ SeedTarget \/ RenounceAdmin(Admin)
    BY <1>1, <2>1 DEF InitLocalnet, SeedTarget, parseTargetArg, Next
  <2>2. CASE \E m \in Miners \ Clients : \E s \in Solutions : Mine(m, s)
    BY <2>2 DEF Next
  <2>3. CASE \/ AdvanceEmptyRound
             \/ \E w \in Wallets, h \in Holders, n \in Transfers : SplTransfer(w, h, n)
             \/ \E d \in TsSteps : Tick(d)
    BY <2>3 DEF Next
  <2>. QED BY <1>3, <2>1, <2>2, <2>3 DEF Environment
<1>4. ASSUME NEW m \in Clients, Cli(m) PROVE [Next]_vars
  <2>1. CASE MineLands(m)
    <3>1. Prepared(m) /\ Mine(m, candidate[m])
      BY <2>1 DEF MineLands, CliInv, MinerInv
    <3>. QED BY <3>1, OwnSolution DEF Next
  <2>2. CASE AdvanceLands(m)
    BY <2>2 DEF AdvanceLands, Next
  <2>3. CASE \/ Fetch(m) \/ FetchFails(m) \/ Solve(m) \/ MineRefused(m) \/ MineLost(m)
             \/ AdvanceRefused(m) \/ AdvanceLost(m)
    BY <2>3 DEF Fetch, FetchFails, Solve, MineRefused, MineLost, AdvanceRefused, AdvanceLost
  <2>. QED BY <1>4, <2>1, <2>2, <2>3 DEF Cli
<1>5. CASE Second
  BY <1>5 DEF Second
<1>. QED BY <1>2, <1>3, <1>4, <1>5 DEF CNext

-----------------------------------------------------------------------------
(* The miners' own steps.                                                  *)

LEMMA LocalTypeStep ==
    ASSUME TypeOK, LocalTypes, \A m \in Clients : MinerInv(m), [CNext]_allVars
    PROVE  LocalTypes'
<1>1. CASE UNCHANGED local
  BY <1>1 DEF local, watchdog, earnings, LocalTypes
<1>2. ASSUME NEW m \in Clients, Cli(m) PROVE LocalTypes'
  <2> USE DEF LocalTypes, Phases
  <2>1. CASE Fetch(m)
    <3>1. Snapshot \in Configs
      BY DEF Snapshot, Configs, TypeOK, Challenge
    <3>2. cfg' \in [Clients -> Configs \union {None}] /\ DOMAIN said' = Clients
          /\ UNCHANGED <<candidate, earnings>>
      BY <2>1, <3>1 DEF Fetch, Say
    <3>0. seen' \in [Clients -> [slot : Nat, secs : Nat]]
      BY <2>1, RoundTypes DEF Fetch, FirstSight
    <3>3. CASE Stalled(m)
      BY <2>1, <3>0, <3>2, <3>3 DEF Fetch, Goto, earnings
    <3>4. CASE ~Stalled(m)
      <4>1. ObserveHeight(m) /\ Goto(m, "solve")
        BY <2>1, <3>4 DEF Fetch
      <4>2. /\ current_height' \in [Clients -> Nat \union {None}]
            /\ stall_for' \in [Clients -> Nat] /\ DOMAIN rested' = Clients
        BY <4>1, RoundTypes DEF ObserveHeight
      <4>. QED BY <3>0, <3>2, <4>1, <4>2 DEF Goto, earnings
    <3>. QED BY <3>3, <3>4
  <2>2. CASE Solve(m)
    BY <2>2 DEF Solve, Goto, watchdog, earnings
  <2>3. CASE MineLands(m)
    <3>1. cfg[m].reward \in Nat
      BY <2>3 DEF MineLands, MinerInv, Seen, Configs
    <3>2. /\ DOMAIN candidate' = Clients
          /\ UNCHANGED <<cfg, current_height, stall_for, rested, seen>>
      BY <2>3 DEF MineLands, watchdog
    <3>3. CASE CountBlock(m)
      <4>1. /\ blocks_mined' = [blocks_mined EXCEPT ![m] = blocks_mined[m] + 1]
            /\ total_reward_base'
                 = [total_reward_base EXCEPT ![m] = total_reward_base[m] + cfg[m].reward]
        BY <3>3 DEF CountBlock
      <4>2. blocks_mined[m] + 1 \in Nat /\ total_reward_base[m] + cfg[m].reward \in Nat
        BY <3>1
      <4>3. blocks_mined' \in [Clients -> Nat] /\ total_reward_base' \in [Clients -> Nat]
        BY <4>1, <4>2
      <4>4. phase' \in [Clients -> Phases] /\ DOMAIN said' = Clients
        BY <3>3 DEF CountBlock, Goto, Say
      <4>. QED BY <3>2, <4>3, <4>4
    <3>4. CASE Goto(m, "fetch") /\ Say(m, "submit error") /\ UNCHANGED earnings
      BY <3>2, <3>4 DEF Goto, Say, earnings
    <3>. QED BY <2>3, <3>3, <3>4 DEF MineLands
  <2>4. CASE FetchFails(m) \/ MineRefused(m) \/ MineLost(m)
             \/ AdvanceLands(m) \/ AdvanceRefused(m) \/ AdvanceLost(m)
    BY <2>4 DEF FetchFails, MineRefused, MineLost, AdvanceLands, AdvanceRefused,
       AdvanceLost, Goto, Say, watchdog, earnings
  <2>. QED BY <1>2, <2>1, <2>2, <2>3, <2>4 DEF Cli
<1>3. CASE Second
  <2>0. ROUND_STALL \in Nat
    BY CliAssumption
  <2>1. /\ \A n \in Nat : Elapsed(n, ROUND_STALL) \in Nat
        /\ UNCHANGED <<phase, cfg, current_height, candidate, blocks_mined,
                       total_reward_base, said>>
    BY <1>3, <2>0 DEF Second, Elapsed, earnings
  <2>2. stall_for' \in [Clients -> Nat] /\ DOMAIN rested' = Clients
    BY <1>3, <2>1 DEF Second, LocalTypes
  <2>3. seen' \in [Clients -> [slot : Nat, secs : Nat]]
    <3> DEFINE S == [slot : Nat, secs : Nat]
    <3>1. \A k \in Clients :
             [slot |-> seen[k].slot, secs |-> Elapsed(seen[k].secs, ROUND_STALL)] \in S
      <4> TAKE k \in Clients
      <4>1. seen[k] \in S
        BY DEF LocalTypes
      <4>2. Elapsed(seen[k].secs, ROUND_STALL) \in Nat
        BY <2>1, <4>1
      <4>. QED BY <4>1, <4>2
    <3>. QED BY <1>3, <3>1 DEF Second
  <2>. QED BY <2>1, <2>2, <2>3 DEF LocalTypes
<1>. QED BY <1>1, <1>2, <1>3 DEF CNext, Environment, allVars

(* A second touches nobody but the clocks.                                 *)
LEMMA SecondUntouched ==
    ASSUME LocalTypes, Second, NEW m \in Clients
    PROVE  Untouched(m)
<1>1. /\ UNCHANGED <<phase, cfg, current_height, candidate, blocks_mined, total_reward_base>>
      /\ stall_for'[m] = Elapsed(stall_for[m], ROUND_STALL)
      /\ seen'[m] = [slot |-> seen[m].slot, secs |-> Elapsed(seen[m].secs, ROUND_STALL)]
  BY DEF Second, earnings
<1>2. seen[m] \in [slot : Nat, secs : Nat] /\ ROUND_STALL \in Nat
  BY CliAssumption DEF LocalTypes
<1>3. /\ seen'[m].slot = seen[m].slot
      /\ seen'[m].secs = Elapsed(seen[m].secs, ROUND_STALL)
  BY <1>1, <1>2
<1>4. seen[m].secs >= ROUND_STALL => seen'[m].secs >= ROUND_STALL
  BY <1>2, <1>3 DEF Elapsed
<1>. QED BY <1>1, <1>3, <1>4 DEF Untouched

(* A step of one miner leaves the others alone.                            *)
LEMMA OthersUntouched ==
    ASSUME LocalTypes, NEW m \in Clients, Cli(m), NEW k \in Clients, k # m
    PROVE  Untouched(k)
<1> USE DEF LocalTypes, Untouched, Goto, Say, watchdog, earnings
<1>1. CASE Fetch(m)
  BY <1>1 DEF Fetch, ObserveHeight, FirstSight
<1>2. CASE Solve(m)
  BY <1>2 DEF Solve
<1>3. CASE MineLands(m)
  BY <1>3 DEF MineLands, CountBlock
<1>4. CASE FetchFails(m) \/ MineRefused(m) \/ MineLost(m)
  BY <1>4 DEF FetchFails, MineRefused, MineLost
<1>5. CASE AdvanceLands(m) \/ AdvanceRefused(m) \/ AdvanceLost(m)
  BY <1>5 DEF AdvanceLands, AdvanceRefused, AdvanceLost
<1>. QED BY <1>1, <1>2, <1>3, <1>4, <1>5 DEF Cli

(* A fetch: the copy is current, and a stall was watched to the end.       *)
LEMMA FetchKeeps ==
    ASSUME TypeOK, SlotsPast, LocalTypes, NEW m \in Clients, MinerInv(m), Fetch(m)
    PROVE  MinerInv(m)'
<1>1. /\ initialized /\ UNCHANGED vars /\ cfg'[m] = Snapshot /\ FirstSight(m)
      /\ phase'[m] \in {"solve", "advance"}
      /\ UNCHANGED <<blocks_mined, total_reward_base>>
  BY DEF Fetch, Goto, LocalTypes, earnings
<1>2. UNCHANGED <<initialized, block_height, current_challenge, current_epoch_reward, slot,
                  current_round_open_slot, opened_slot, blocks>>
  BY <1>1 DEF vars, clock, launch, round, schedule
<1>3. Seen(m)' /\ cfg'[m].height = block_height
  <2>1. Snapshot \in Configs /\ Snapshot.height = block_height
        /\ Snapshot.challenge = current_challenge /\ Snapshot.reward = current_epoch_reward
    BY DEF Snapshot, Configs, TypeOK, Challenge
  <2>. QED BY <1>1, <1>2, <2>1, RoundTypes DEF Seen
<1>4. Earnings(m)'
  BY <1>1, <1>2 DEF MinerInv, Earnings, Won, Paid
<1>6. CASE Stalled(m)
  <2>1. /\ phase'[m] = "advance" /\ UNCHANGED <<current_height, stall_for>>
        /\ current_height[m] = block_height /\ stall_for[m] = ROUND_STALL
    BY <1>6 DEF Fetch, Goto, LocalTypes, Stalled
  <2>2. UNCHANGED seen
    BY <1>1, <2>1 DEF FirstSight
  <2>3. Watching(m)'
    BY <1>2, <2>1, <2>2 DEF MinerInv, Watching
  <2>4. Advancing(m)'
    <3>1. ROUND_STALL \in Nat /\ stall_for[m] = seen[m].secs
      BY CliAssumption DEF MinerInv, Watching
    <3>2. seen[m].secs >= ROUND_STALL
      BY <2>1, <3>1
    <3>. QED BY <1>3, <2>1, <2>2, <3>2 DEF Advancing
  <2>. QED BY <1>3, <1>4, <2>1, <2>3, <2>4 DEF MinerInv
<1>7. CASE ~Stalled(m)
  <2>1. phase'[m] = "solve" /\ ObserveHeight(m)
    BY <1>7 DEF Fetch, Goto, LocalTypes
  <2>2. Watching(m)'
    <3>1. CASE current_height[m] # block_height
      <4>1. /\ current_height'[m] = block_height /\ stall_for'[m] = 0
            /\ seen'[m] = [slot |-> slot, secs |-> 0]
        BY <1>1, <2>1, <3>1 DEF ObserveHeight, FirstSight, LocalTypes
      <4>. QED BY <1>1, <1>2, <4>1, RoundTypes DEF SlotsPast, Watching
    <3>2. CASE current_height[m] = block_height
      <4>1. UNCHANGED <<current_height, stall_for, seen>>
        BY <1>1, <2>1, <3>2 DEF ObserveHeight, FirstSight
      <4>. QED BY <1>2, <4>1 DEF MinerInv, Watching
    <3>. QED BY <3>1, <3>2
  <2>. QED BY <1>3, <1>4, <2>1, <2>2 DEF MinerInv
<1>. QED BY <1>6, <1>7

(* The other steps leave the program's accounts and the miner's watchdog   *)
(* alone.                                                                  *)
AtHome(m) ==
    /\ UNCHANGED vars /\ UNCHANGED watchdog /\ cfg'[m] = cfg[m]
    /\ blocks_mined'[m] = blocks_mined[m] /\ total_reward_base'[m] = total_reward_base[m]

LEMMA AtHomeKeeps ==
    ASSUME TypeOK, NEW m \in Clients, AtHome(m), MinerInv(m)
    PROVE  Watching(m)' /\ Earnings(m)' /\ (Seen(m) => Seen(m)')
<1>1. UNCHANGED <<initialized, block_height, current_challenge, current_epoch_reward, slot,
                  current_round_open_slot, opened_slot, blocks>>
  BY DEF AtHome, vars, clock, launch, round, schedule
<1>2. UNCHANGED <<current_height, stall_for, seen>>
  BY DEF AtHome, watchdog
<1>. QED BY <1>1, <1>2 DEF AtHome, MinerInv, Watching, Earnings, Won, Paid, Seen

(* Back to the fetch, whatever the answer.                                 *)
LEMMA HomeKeeps ==
    ASSUME TypeOK, LocalTypes, NEW m \in Clients, MinerInv(m),
           \/ FetchFails(m) \/ MineRefused(m) \/ MineLost(m)
           \/ AdvanceRefused(m) \/ AdvanceLost(m)
    PROVE  MinerInv(m)'
<1>1. AtHome(m) /\ phase'[m] \in {"fetch", "exited"}
  BY DEF FetchFails, MineRefused, MineLost, AdvanceRefused, AdvanceLost, AtHome, earnings,
     Goto, LocalTypes
<1>. QED BY <1>1, AtHomeKeeps DEF MinerInv

LEMMA SolveKeeps ==
    ASSUME TypeOK, LocalTypes, NEW m \in Clients, MinerInv(m), Solve(m)
    PROVE  MinerInv(m)'
<1>1. AtHome(m) /\ UNCHANGED cfg
  BY DEF Solve, AtHome, earnings
<1>2. Watching(m)' /\ Earnings(m)' /\ Seen(m)'
  BY <1>1, AtHomeKeeps DEF Solve, MinerInv
<1>5. CASE \E h \in Hashes :
             /\ candidate' = [candidate EXCEPT ![m] =
                   [input |-> build_input(cfg[m].challenge, m, cfg[m].height), hash |-> h]]
             /\ Goto(m, "submit")
  <2>1. phase'[m] = "submit"
    BY <1>5 DEF Goto, LocalTypes
  <2>2. Prepared(m)'
    BY <1>1, <1>5 DEF Prepared, LocalTypes
  <2>. QED BY <1>2, <2>1, <2>2 DEF MinerInv
<1>6. CASE Goto(m, "fetch")
  <2>1. phase'[m] = "fetch"
    BY <1>6 DEF Goto, LocalTypes
  <2>. QED BY <1>2, <2>1 DEF MinerInv
<1>. QED BY <1>5, <1>6 DEF Solve

(* A confirmed block is credited at what it paid: the copy it was solved   *)
(* from is of the round that it closed.                                    *)
LEMMA MineLandsKeeps ==
    ASSUME TypeOK, HInv, SlotsPast, LocalTypes, ChainStep,
           NEW m \in Clients, MinerInv(m), MineLands(m)
    PROVE  MinerInv(m)'
<1>1. /\ phase[m] = "submit" /\ Mine(m, candidate[m]) /\ UNCHANGED cfg
      /\ UNCHANGED <<current_height, stall_for, seen>>
  BY DEF MineLands, watchdog
<1>2. Seen(m) /\ Prepared(m) /\ Watching(m) /\ Earnings(m)
  BY <1>1 DEF MinerInv
<1>3. /\ candidate[m] \in Solutions /\ m \in Miners /\ cfg[m].height = block_height
      /\ cfg[m].reward = current_epoch_reward
  BY <1>1, <1>2, OwnSolution DEF Seen
<1>4. Watching(m)'
  BY <1>1, <1>2, WatchingKept DEF Watching
<1>5. /\ phase'[m] \in {"fetch", "exited"}
      /\ \/ /\ blocks_mined'[m] = blocks_mined[m] + 1
            /\ total_reward_base'[m] = total_reward_base[m] + cfg[m].reward
         \/ /\ blocks_mined'[m] = blocks_mined[m]
            /\ total_reward_base'[m] = total_reward_base[m]
  <2>1. CASE CountBlock(m)
    BY <2>1 DEF CountBlock, Goto, LocalTypes
  <2>2. CASE Goto(m, "fetch") /\ Say(m, "submit error") /\ UNCHANGED earnings
    BY <2>2 DEF Goto, earnings, LocalTypes
  <2>. QED BY <2>1, <2>2 DEF MineLands
<1>6. Earnings(m)'
  <2> DEFINE b == [winner |-> m, reward |-> current_epoch_reward, solution |-> candidate[m]]
  <2>1. /\ b \in Block /\ b.winner = m /\ b.reward = current_epoch_reward
        /\ current_epoch_reward \in Nat
    BY <1>3, SolutionsTyped DEF Block, TypeOK, Challenge
  <2>2. blocks' = Append(blocks, b)
    BY <1>1 DEF Mine
  <2>3. blocks_mined[m] \in Nat /\ total_reward_base[m] \in Nat
    BY DEF LocalTypes
  <2> HIDE DEF b
  <2>4. /\ Cardinality(Won(m)) \in Nat /\ SumFunctionOnSet(Paid, Won(m)) \in Nat
        /\ Cardinality(Won(m)') = Cardinality(Won(m)) + 1
        /\ SumFunctionOnSet(Paid', Won(m)')
             = SumFunctionOnSet(Paid, Won(m)) + current_epoch_reward
    BY <1>3, <2>1, <2>2, WonAppend
  <2>5. /\ blocks_mined[m] <= Cardinality(Won(m))
        /\ total_reward_base[m] <= SumFunctionOnSet(Paid, Won(m))
    BY <1>2 DEF Earnings
  <2>6. /\ blocks_mined'[m] <= Cardinality(Won(m)')
        /\ total_reward_base'[m] <= SumFunctionOnSet(Paid', Won(m)')
    <3> DEFINE p == SumFunctionOnSet(Paid, Won(m))
               q == SumFunctionOnSet(Paid', Won(m)')
               c == Cardinality(Won(m))
               d == Cardinality(Won(m)')
    <3>1. /\ c \in Nat /\ p \in Nat /\ d = c + 1 /\ q = p + current_epoch_reward
          /\ blocks_mined[m] <= c /\ total_reward_base[m] <= p
      BY <2>4, <2>5
    <3>2. \/ /\ blocks_mined'[m] = blocks_mined[m] + 1
             /\ total_reward_base'[m] = total_reward_base[m] + current_epoch_reward
          \/ /\ blocks_mined'[m] = blocks_mined[m]
             /\ total_reward_base'[m] = total_reward_base[m]
      BY <1>3, <1>5
    <3>3. current_epoch_reward \in Nat
      BY <2>1
    <3> HIDE DEF p, q, c, d
    <3>4. blocks_mined'[m] <= d /\ total_reward_base'[m] <= q
      BY <2>3, <3>1, <3>2, <3>3
    <3>. QED BY <3>4 DEF q, d
  <2>. QED BY <2>6 DEF Earnings
<1>. QED BY <1>4, <1>5, <1>6 DEF MinerInv

LEMMA AdvanceLandsKeeps ==
    ASSUME TypeOK, SlotsPast, LocalTypes, ChainStep,
           NEW m \in Clients, MinerInv(m), AdvanceLands(m)
    PROVE  MinerInv(m)'
<1>1. /\ phase'[m] = "fetch"
      /\ UNCHANGED <<current_height, stall_for, seen, blocks_mined, total_reward_base>>
  BY DEF AdvanceLands, Goto, LocalTypes, watchdog, earnings
<1>2. Watching(m)'
  BY <1>1, WatchingKept DEF MinerInv, Watching
<1>3. Earnings(m)'
  BY <1>1, EarningsKept DEF MinerInv
<1>. QED BY <1>1, <1>2, <1>3 DEF MinerInv

LEMMA CliStep == TypeOK /\ IInv /\ HInv /\ CliInv /\ [CNext]_allVars => CliInv'
<1> SUFFICES ASSUME TypeOK, IInv, HInv, CliInv, [CNext]_allVars PROVE CliInv'
  OBVIOUS
<1>1. ChainStep /\ SlotsPast /\ LocalTypes /\ \A m \in Clients : MinerInv(m)
  BY CliIsProgram, ChainSteps DEF CliInv
<1>2. SlotsPast' /\ LocalTypes'
  BY <1>1, SlotsStayPast, LocalTypeStep
<1>3. ASSUME NEW k \in Clients PROVE MinerInv(k)'
  <2>1. CASE UNCHANGED local
    <3>1. Untouched(k)
      BY <2>1 DEF local, watchdog, earnings, Untouched
    <3>. QED BY <1>1, <3>1, UntouchedKept
  <2>2. ASSUME NEW m \in Clients, Cli(m) PROVE MinerInv(k)'
    <3>1. CASE k # m
      <4>1. Untouched(k)
        BY <1>1, <2>2, <3>1, OthersUntouched
      <4>. QED BY <1>1, <4>1, UntouchedKept
    <3>2. CASE k = m
      <4>1. Cli(k) /\ MinerInv(k)
        BY <1>1, <2>2, <3>2
      <4>2. CASE Fetch(k)
        BY <1>1, <4>1, <4>2, FetchKeeps
      <4>3. CASE Solve(k)
        BY <1>1, <4>1, <4>3, SolveKeeps
      <4>4. CASE MineLands(k)
        BY <1>1, <4>1, <4>4, MineLandsKeeps
      <4>5. CASE AdvanceLands(k)
        BY <1>1, <4>1, <4>5, AdvanceLandsKeeps
      <4>6. CASE \/ FetchFails(k) \/ MineRefused(k) \/ MineLost(k)
                 \/ AdvanceRefused(k) \/ AdvanceLost(k)
        BY <1>1, <4>1, <4>6, HomeKeeps
      <4>. QED BY <4>1, <4>2, <4>3, <4>4, <4>5, <4>6 DEF Cli
    <3>. QED BY <3>1, <3>2
  <2>3. CASE Second
    BY <1>1, <2>3, SecondUntouched, UntouchedKept
  <2>. QED BY <2>1, <2>2, <2>3 DEF CNext, Environment, allVars
<1>. QED BY <1>2, <1>3 DEF CliInv

LEMMA CliStart == CInit => CliInv
<1> SUFFICES ASSUME CInit PROVE CliInv
  OBVIOUS
<1>1. None \notin Nat
  BY CliAssumption
<1>2. Init /\ blocks = <<>>
  BY DEF CInit, Init
<1>3. TypeOK
  BY <1>2, TypeStart
<1>4. SlotsPast
  BY <1>2 DEF Init, SlotsPast
<1>5. LocalTypes
  <2>1. slot \in Nat
    BY <1>3, RoundTypes
  <2>. QED BY <2>1 DEF CInit, LocalTypes, Phases
<1>6. ASSUME NEW m \in Clients PROVE MinerInv(m)
  <2>1. /\ phase[m] = "fetch" /\ current_height[m] = None
        /\ stall_for[m] = 0 /\ seen[m] = [slot |-> slot, secs |-> 0]
        /\ blocks_mined[m] = 0 /\ total_reward_base[m] = 0
    BY DEF CInit
  <2>2. Watching(m)
    <3>1. slot \in Nat /\ block_height \in Nat
      BY <1>3, RoundTypes
    <3>2. seen[m].slot <= slot /\ stall_for[m] = seen[m].secs
      BY <2>1, <3>1
    <3>3. current_height[m] \notin Nat /\ current_height[m] # block_height
      BY <1>1, <2>1, <3>1
    <3>. QED BY <3>2, <3>3 DEF Watching
  <2>3. Won(m) = {}
    BY <1>2 DEF Won
  <2>4. Earnings(m)
    BY <2>1, <2>3, FS_EmptySet, SumEmpty DEF Earnings
  <2>. QED BY <2>1, <2>2, <2>4 DEF MinerInv
<1>. QED BY <1>4, <1>5, <1>6 DEF CliInv

(* The miners, their RPC failures and their surroundings together are a    *)
(* behaviour of the program: what was proved of the program holds for them.*)
THEOREM MinersRunProgram == CSpec => Spec /\ []CliInv
<1>1. CInit => Init /\ CliInv
  BY CliStart DEF CInit
<1>2. Init => TypeOK /\ IInv /\ HInv
  BY TypeStart, InvariantStart, HistoryStart
<1>3. TypeOK /\ IInv /\ HInv /\ CliInv /\ [CNext]_allVars
        => [Next]_vars
  BY CliIsProgram
<1>4. TypeOK /\ IInv /\ HInv /\ [Next]_vars => TypeOK' /\ IInv' /\ HInv'
  <2>1. TypeOK /\ [Next]_vars => TypeOK'
    BY TypeStep
  <2>2. TypeOK /\ IInv /\ [Next]_vars => IInv'
    BY InvariantStep
  <2>3. TypeOK /\ TypeOK' /\ IInv /\ HInv /\ [Next]_vars => HInv'
    BY HistoryStep
  <2>. QED BY <2>1, <2>2, <2>3
<1>. QED BY <1>1, <1>2, <1>3, <1>4, CliStep, PTL DEF CSpec, Spec

(* What a miner says it mined and earned never exceeds what the program    *)
(* paid it, whatever it lost, missed or was told late.                     *)
THEOREM EarningsReal == CSpec => []EarningsAreReal
<1>1. CliInv => EarningsAreReal
  BY DEF CliInv, MinerInv, Earnings, EarningsAreReal
<1>. QED BY <1>1, MinersRunProgram, PTL

(* A refusal that a miner makes a stale challenge of: its copy of the      *)
(* config is of an earlier round.                                          *)
LEMMA StaleIsClosed ==
    ASSUME TypeOK, LocalTypes, NEW m \in Clients, MinerInv(m), MineRefused(m)
    PROVE  said'[m] # "another miner beat us to it"
           /\ (said'[m] = "stale challenge" => Closed(m))
<1>1. phase[m] = "submit" /\ said'[m] = classify_submit_err(mine_error(m))
  BY DEF MineRefused, Say, LocalTypes
<1>2. said'[m] # "another miner beat us to it"
  BY <1>1 DEF classify_submit_err
<1>3. ASSUME said'[m] = "stale challenge" PROVE Closed(m)
  <2>1. Seen(m) /\ Prepared(m)
    BY <1>1 DEF MinerInv
  <2>2. candidate[m].input # build_input(current_challenge, m, block_height)
    BY <1>1, <1>3 DEF classify_submit_err, mine_error
  <2>3. candidate[m].input = build_input(cfg[m].challenge, m, cfg[m].height)
    BY <2>1 DEF Prepared
  <2>. QED BY <2>1, <2>2, <2>3, RoundTypes DEF Seen, Configs, Closed
<1>. QED BY <1>2, <1>3

(* A refused advance: the round of the fetch is over, or it was watched    *)
(* for ROUND_STALL seconds, from a slot after it opened.                   *)
LEMMA RefusalExplained ==
    ASSUME TypeOK, SlotsPast, LocalTypes, NEW m \in Clients, MinerInv(m), AdvanceRefused(m)
    PROVE  /\ said'[m] # "stale challenge"
           /\ said'[m] = "another miner beat us to it" =>
                 Closed(m) \/ Restarted(m) \/ SlowSlots(m)
<1>1. /\ phase[m] = "advance"
      /\ mining_open => ~RoundStalled
      /\ said'[m] = (IF mining_open THEN "another miner beat us to it" ELSE "couldn't advance")
  BY DEF AdvanceRefused, Say, LocalTypes
<1>2. Seen(m) /\ Advancing(m) /\ Watching(m)
  <2>1. phase[m] = "advance"
    BY <1>1
  <2>. QED BY <2>1 DEF MinerInv
<1>3. /\ cfg[m].height \in Nat /\ cfg[m].height <= block_height
      /\ seen[m].slot \in Nat /\ ROUND_TIMEOUT_SLOTS \in Nat
  BY <1>2, ScheduleAssumption DEF Seen, Configs, LocalTypes
<1>4. ASSUME mining_open, cfg[m].height = block_height PROVE Restarted(m) \/ SlowSlots(m)
  <2>1. \/ current_round_open_slot <= seen[m].slot
        \/ block_height = 0 /\ seen[m].slot <= opened_slot
    BY <1>2, <1>4 DEF Advancing, Watching
  <2>2. slot - current_round_open_slot < ROUND_TIMEOUT_SLOTS
    <3>1. ~RoundStalled
      BY <1>1, <1>4
    <3>. QED BY <1>3, <3>1, RoundTypes DEF RoundStalled, SlotsPast
  <2>3. CASE current_round_open_slot <= seen[m].slot
    BY <1>2, <1>3, <2>2, <2>3, RoundTypes DEF Advancing, SlowSlots
  <2>4. CASE block_height = 0 /\ seen[m].slot <= opened_slot
    BY <1>4, <2>4 DEF Restarted
  <2>. QED BY <2>1, <2>3, <2>4
<1>5. cfg[m].height # block_height => Closed(m)
  BY <1>3, RoundTypes DEF Closed
<1>. QED BY <1>1, <1>4, <1>5

(* What a miner tells of a refusal is so, for every speed of its seconds   *)
(* against the slots: the round of its fetch was closed, or restarted by   *)
(* fund_vault, or the slots were too slow for its watchdog.                *)
THEOREM ReasonsTrue == CSpec => ReasonsAreTrue
<1> DEFINE P(m) ==
      /\ Says(m, "stale challenge") => Closed(m)
      /\ Says(m, "another miner beat us to it") =>
            Closed(m) \/ Restarted(m) \/ SlowSlots(m)
<1>1. ASSUME TypeOK, CliInv, [CNext]_allVars
      PROVE  [\A m \in Clients : P(m)]_allVars
  <2> SUFFICES ASSUME CNext, NEW m \in Clients PROVE P(m)
    BY <1>1
  <2>1. LocalTypes /\ SlotsPast /\ \A k \in Clients : MinerInv(k)
    BY <1>1 DEF CliInv
  <2>2. None # "stale challenge" /\ None # "another miner beat us to it"
    BY CliAssumption
  <2>3. CASE Environment \/ Second
    BY <2>3 DEF Environment, Second, local, Says
  <2>4. ASSUME NEW k \in Clients, Cli(k), k # m PROVE P(m)
    <3>1. said'[m] = said[m]
      BY <2>1, <2>4 DEF Cli, Fetch, FetchFails, Solve, MineLands, CountBlock, MineRefused,
         MineLost, AdvanceLands, AdvanceRefused, AdvanceLost, Say, LocalTypes
    <3>. QED BY <3>1 DEF Says
  <2>5. ASSUME Cli(m) PROVE P(m)
    <3>1. CASE MineRefused(m)
      BY <1>1, <2>1, <3>1, StaleIsClosed DEF Says
    <3>2. CASE AdvanceRefused(m)
      BY <1>1, <2>1, <3>2, RefusalExplained DEF Says
    <3>3. CASE Solve(m)
      BY <3>3 DEF Solve, Says
    <3>4. CASE \/ Fetch(m) \/ FetchFails(m) \/ MineLands(m) \/ MineLost(m)
               \/ AdvanceLands(m) \/ AdvanceLost(m)
      <4>1. said'[m] \in {None, "mined", "submit error", "advanced", "couldn't advance"}
        BY <2>1, <3>4 DEF Fetch, FetchFails, MineLands, CountBlock, MineLost, AdvanceLands,
           AdvanceLost, Say, LocalTypes
      <4>. QED BY <2>2, <4>1 DEF Says
    <3>. QED BY <2>5, <3>1, <3>2, <3>3, <3>4 DEF Cli
  <2>. QED BY <2>3, <2>4, <2>5 DEF CNext
<1>2. CSpec => []TypeOK
  BY MinersRunProgram, TypeCorrect, PTL
<1>. QED BY <1>1, <1>2, MinersRunProgram, PTL DEF CSpec, ReasonsAreTrue

=============================================================================
