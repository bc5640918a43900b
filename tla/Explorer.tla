------------------------------ MODULE Explorer ------------------------------
(***************************************************************************)
(* The explorer: what the site's server reads off the chain                *)
(* (src/clients/website/src/lib/rpc.ts, app/api/state/route.ts) and what   *)
(* the page makes of it while it polls (components/ExplorerDashboard.tsx,  *)
(* app/explorer/page.tsx).                                                 *)
(*                                                                         *)
(* The chain is the config account and the log of the program's            *)
(* transactions, newest first.  An answer takes any time to come back, so  *)
(* that answers overtake each other; whether it is all that the server can *)
(* read is noted on it, for the fairness and nothing else.  What the page  *)
(* shows does not depend on time but for the chart, whose buckets are      *)
(* operators on ages.                                                      *)
(***************************************************************************)
EXTENDS Integers, FiniteSets, SequencesExt

CONSTANTS
    Miners,
    Minute,      \* ticks in 60 s
    Buckets,     \* bucketCount of fetchHashrateSeries
    RecentScan,  \* signatures read by fetchRecentBlocks
    Limit,       \* blocks it returns
    Scan,        \* signatures read for leaderboard and chart
    Take,        \* rows of the leaderboard
    TwoTo256,    \* 2^256
    MaxTxs,      \* bound: transactions of the program
    MaxAnswers,  \* bound: answers in flight
    Null

ASSUME ExplorerAssumption ==
    /\ Minute \in Nat \ {0} /\ Buckets \in Nat \ {0} /\ TwoTo256 \in Nat
    /\ Null \notin Miners

VARIABLES
    stage,      \* of the program: "absent", "closed", "open"
    log,        \* its transactions
    answers,    \* answers of /api/state on their way: [read, full]
    view        \* what the page shows, Null when it is closed

evars == <<stage, log, answers, view>>

EInit ==
    /\ stage = "absent" /\ log = <<>>
    /\ answers = {} /\ view = Null

-----------------------------------------------------------------------------
(* The chain.                                                              *)

(* What a transaction did: it mined a block, it closed a round empty, or   *)
(* neither, because it failed.                                             *)
Mined(tx) == tx.did = "mine"
Closed(tx) == tx.did # "fail"

(* config.block_height after the transactions l: every closed round counts,*)
(* so that blocks have gaps in their heights where rounds were closed empty*)
HeightAfter(l) == Len(SelectSeq(l, Closed))
height == HeightAfter(log)

Recorded(did, by, l) == <<[did |-> did, by |-> by, height |-> HeightAfter(l)]>> \o l

Record(did, by) ==
    /\ stage = "open" /\ Len(log) < MaxTxs
    /\ log' = Recorded(did, by, log)
    /\ UNCHANGED <<stage, answers, view>>

Launch ==
    /\ stage # "open"
    /\ stage' = IF stage = "absent" THEN "closed" ELSE "open"
    /\ UNCHANGED <<log, answers, view>>

MineBlock(m) == Record("mine", m)

(* Skipped by the server for its log, respectively for its error, each     *)
(* takes its place among the signatures.                                   *)
AdvanceEmpty == Record("advance", Null)
FailedTx == Record("fail", Null)

-----------------------------------------------------------------------------
(* The server, on a log l.  Transactions in gone are not found by          *)
(* getTransaction.                                                         *)

FirstOf(s, n) == SubSeq(s, 1, IF n < Len(s) THEN n ELSE Len(s))

Found(l, n, gone) == SelectSeq(FirstOf(l, n), LAMBDA tx : tx \notin gone /\ Mined(tx))

Brief(tx) == [by |-> tx.by, height |-> tx.height]

(* Mutant: the limit is applied to the signatures, not to the blocks.      *)
fetchRecentBlocks_limit_first(l, gone) ==
    LET blocks == Found(l, IF Limit < RecentScan THEN Limit ELSE RecentScan, gone)
    IN  [i \in DOMAIN blocks |-> Brief(blocks[i])]

fetchRecentBlocks(l, gone) ==
    LET blocks == FirstOf(Found(l, RecentScan, gone), Limit)
    IN  [i \in DOMAIN blocks |-> Brief(blocks[i])]

fetchAllMinedInRange(l, gone) == Found(l, Scan, gone)

(* Mutant: the rows are cut before they are sorted.                        *)
fetchLeaderboard_cut_first(l, gone) ==
    LET blocks == fetchAllMinedInRange(l, gone)
        first(m) == CHOOSE i \in DOMAIN blocks :
                       /\ blocks[i].by = m
                       /\ \A j \in 1 .. i - 1 : blocks[j].by # m
        won(m) == Len(SelectSeq(blocks, LAMBDA b : b.by = m))
        rows == SetToSortSeq({blocks[i].by : i \in DOMAIN blocks},
                             LAMBDA m, n : first(m) < first(n))
    IN  [i \in DOMAIN FirstOf(rows, Take) |->
            [miner |-> rows[i], blocks |-> won(rows[i]),
             lastHeight |-> blocks[first(rows[i])].height]]

(* One row per winner in the order of the Map, then sorted by blocks.      *)
fetchLeaderboard(l, gone) ==
    LET blocks == fetchAllMinedInRange(l, gone)
        first(m) == CHOOSE i \in DOMAIN blocks :
                       /\ blocks[i].by = m
                       /\ \A j \in 1 .. i - 1 : blocks[j].by # m
        won(m) == Len(SelectSeq(blocks, LAMBDA b : b.by = m))
        above(m, n) == won(m) > won(n) \/ (won(m) = won(n) /\ first(m) < first(n))
        rows == SetToSortSeq({blocks[i].by : i \in DOMAIN blocks}, above)
    IN  [i \in DOMAIN FirstOf(rows, Take) |->
            [miner |-> rows[i], blocks |-> won(rows[i]),
             lastHeight |-> blocks[first(rows[i])].height]]

(* The chart.  A block mined age ticks ago, seen phase ticks into a minute:*)
(* how many places from the right it is counted.                           *)
(* Mutant: minutes are counted back from now, not from the full minute.    *)
offsetMin_from_now(age, phase) == age \div Minute

offsetMin(age, phase) == (age - phase) \div Minute

(* From a rate and the target; without a config there is no target, 0.     *)
estimateNetworkHashrate(rate, target) ==
    IF target = 0 THEN 0 ELSE rate * (TwoTo256 \div target)

(* The weight of a bucket, 0.85 of the next one's: a numerator over a      *)
(* power of 20.                                                            *)
power(base, n) ==
    LET p[i \in 0 .. n] == IF i = 0 THEN 1 ELSE base * p[i - 1]
    IN  p[n]

weight(k) == power(17, Buckets - k) * power(20, k - 1)

blocksPerMinute(ages, phase) ==
    [k \in 1 .. Buckets |->
        Cardinality({i \in DOMAIN ages : offsetMin(ages[i], phase) = Buckets - k})]

(* Blocks with these ages by the minute, oldest to newest, and what is made*)
(* of them.  Rates are numerators over a constant: averageBpm in blocks per*)
(* window, currentBpm in weighted blocks.  No first half to compare with is*)
(* a trend of 0.                                                           *)
fetchHashrateSeries(ages, phase, target) ==
    LET buckets == blocksPerMinute(ages, phase)
        half == Buckets \div 2
        firstHalf == SumFunctionOnSet(buckets, 1 .. half) * (Buckets - half)
        secondHalf == SumFunctionOnSet(buckets, half + 1 .. Buckets) * half
        weighted == [k \in 1 .. Buckets |-> buckets[k] * weight(k)]
        currentBpm == SumFunctionOnSet(weighted, 1 .. Buckets)
        averageBpm == SumFunctionOnSet(buckets, 1 .. Buckets)
    IN  [blocksPerMinute |-> buckets,
         trendPct |-> IF firstHalf > 0
                      THEN (100 * (secondHalf - firstHalf)) \div firstHalf ELSE 0,
         estimatedHps |-> estimateNetworkHashrate(currentBpm, target),
         averageHps |-> estimateNetworkHashrate(averageBpm, target)]

(* Reads in parallel; one that fails returns null or an empty list.  The   *)
(* leaderboard and the chart fail like the recent blocks and are taken     *)
(* over like them, whole: the answer carries the blocks for all three.     *)
State == IF stage = "absent" THEN Null ELSE [height |-> height, open |-> stage = "open"]

Read ==
    [state  : {Null, State},
     blocks : {<<>>} \union {fetchRecentBlocks(log, gone) :
                                gone \in SUBSET {tx \in Range(log) : Mined(tx)}}]

(* What a read returns when nothing fails.                                 *)
FullRead == [state |-> State, blocks |-> fetchRecentBlocks(log, {})]

-----------------------------------------------------------------------------
(* The page.                                                               *)

Open ==
    /\ view = Null
    /\ view' \in Read
    /\ UNCHANGED <<stage, log, answers>>

(* The interval fires; the server reads.                                   *)
Poll(full) ==
    /\ view # Null /\ Cardinality(answers) < MaxAnswers
    /\ \E r \in (IF full THEN {FullRead} ELSE Read \ {FullRead}) :
          answers' = answers \union {[read |-> r, full |-> full]}
    /\ UNCHANGED <<stage, log, view>>

(* Mutant: a failed read of the config counts as "not launched".           *)
Arrive_replacing(a) ==
    /\ a \in answers
    /\ answers' = answers \ {a}
    /\ view' = a.read
    /\ UNCHANGED <<stage, log>>

(* setState only if there is one; an empty list is not null.               *)
Arrive(a) ==
    /\ a \in answers
    /\ answers' = answers \ {a}
    /\ view' = [a.read EXCEPT !.state = IF @ = Null THEN view.state ELSE @]
    /\ UNCHANGED <<stage, log>>

(* fetch rejects, or the status is not ok.                                 *)
Fails(a) ==
    /\ a \in answers
    /\ answers' = answers \ {a}
    /\ UNCHANGED <<stage, log, view>>

(* Unmounted: the interval is cleared and answers are ignored.             *)
Leave ==
    /\ view # Null
    /\ view' = Null /\ answers' = {}
    /\ UNCHANGED <<stage, log>>

(* What the page says first.                                               *)
Screen(v) ==
    IF v.state = Null THEN "pre-launch"
    ELSE IF ~v.state.open THEN "vault-empty"
    ELSE IF v.blocks = <<>> THEN "no blocks mined yet"
    ELSE "live"

=============================================================================
