-------------------------------- MODULE Site --------------------------------
(***************************************************************************)
(* The two things the website serves while time passes: the explorer and   *)
(* the RPC proxy.                                                          *)
(***************************************************************************)
EXTENDS Explorer, RpcProxy

vars == <<evars, pvars>>

Init == EInit /\ PInit

Explore ==
    /\ \/ Launch \/ AdvanceEmpty \/ FailedTx \/ \E m \in Miners : MineBlock(m)
       \/ Open \/ Leave \/ \E full \in BOOLEAN : Poll(full)
       \/ \E a \in answers : Arrive(a) \/ Fails(a)
    /\ UNCHANGED pvars

Serve(ip) == Post(ip) /\ UNCHANGED evars

TimePasses == ProxyTick /\ UNCHANGED evars

Next == Explore \/ TimePasses \/ \E ip \in IPs : Serve(ip)

(* Time passes; an address goes on asking.  A request is answered or fails;*)
(* of the polls of an open page not all have a read that fails, and of the *)
(* answers without one not all are lost.  That the answer is a recent one, *)
(* or that it comes before or after any other, is not assumed.             *)
Fairness ==
    /\ WF_vars(TimePasses)
    /\ \A ip \in IPs : WF_vars(Serve(ip))
    /\ WF_vars(\E a \in answers : (Arrive(a) \/ Fails(a)) /\ UNCHANGED pvars)
    /\ SF_vars(Poll(TRUE) /\ UNCHANGED pvars)
    /\ SF_vars(\E a \in answers : a.full /\ Arrive(a) /\ UNCHANGED pvars)

Spec == Init /\ [][Next]_vars /\ Fairness

-----------------------------------------------------------------------------

(* What recent blocks and leaderboard ought to say of a log l, counted on  *)
(* the log itself.                                                         *)
Blocks(l, n) == {i \in 1 .. Len(l) : i <= n /\ l[i].did = "mine"}

RecentIsRight(blocks, l) ==
    LET recent == Blocks(l, RecentScan)
    IN  /\ Len(blocks) = IF Cardinality(recent) < Limit THEN Cardinality(recent) ELSE Limit
        /\ \A i \in DOMAIN blocks :
              \E j \in recent : /\ blocks[i].height = l[j].height /\ blocks[i].by = l[j].by
                               /\ Cardinality({k \in recent : l[k].height > l[j].height}) = i - 1

BoardIsRight(board, l) ==
    /\ \A m \in Miners :
          LET won == {i \in Blocks(l, Scan) : l[i].by = m}
              beat == {n \in Miners : Cardinality({i \in Blocks(l, Scan) : l[i].by = n})
                                         >= Cardinality(won)} \ {m}
          IN  \/ \E r \in Range(board) :
                    /\ r.miner = m /\ r.blocks = Cardinality(won)
                    /\ \A i \in won : l[i].height <= r.lastHeight
              \/ won = {} \/ Cardinality(beat) >= Take
    /\ \A i, j \in DOMAIN board : i < j => board[i].blocks >= board[j].blocks

ListsAreRight ==
    LET Did == {<<"mine", m>> : m \in Miners} \union {<<"advance", Null>>, <<"fail", Null>>}
        Log(s) == FoldLeft(LAMBDA l, d : Recorded(d[1], d[2], l), <<>>, s)
        Logs == {Log(s) : s \in UNION {[1 .. n -> Did] : n \in 0 .. Scan + 1}}
    IN  \A l \in Logs : /\ RecentIsRight(fetchRecentBlocks(l, {}), l)
                       /\ BoardIsRight(fetchLeaderboard(l, {}), l)

(* The page shows the open program after n transactions: the height they   *)
(* have brought it to, rounds closed empty included, and the blocks of that*)
(* same moment.                                                            *)
ShowsAfter(n) ==
    LET then == SubSeq(log, Len(log) - n + 1, Len(log))
        rounds == {i \in DOMAIN then : then[i].did # "fail"}
    IN  /\ view.state = [height |-> Cardinality(rounds), open |-> TRUE]
        /\ RecentIsRight(view.blocks, then)

(* However answers overtake each other and reads fail, whatever the chain  *)
(* has come to is shown by an open explorer in the end, or something later:*)
(* height and newest blocks of one moment, neither left at an older one    *)
(* (ExplorerDashboard.tsx:36-57).                                          *)
ExplorerCatchesUp ==
    \A n \in 0 .. MaxTxs :
        view # Null /\ stage = "open" /\ Len(log) >= n
            ~> view = Null \/ \E k \in n .. Len(log) : ShowsAfter(k)

(* "After initialize, state will populate and this branch becomes          *)
(* effectively unreachable" (ExplorerDashboard.tsx:62): a failing endpoint *)
(* never sends an open page back to "pre-launch".                          *)
StaysLaunched ==
    [][view # Null /\ view' # Null /\ Screen(view) # "pre-launch"
          => Screen(view') # "pre-launch"]_vars

(* A minute of the chart is final once the next one has begun: when a tick *)
(* passes, blocks of any age stay in their bucket or, when a minute begins,*)
(* move left by one with it.  And the hashrates the page estimates do not  *)
(* rise while the chart gets no new block (rpc.ts:305-348).                *)
Tick(ages, phase, target) ==
    LET now == fetchHashrateSeries(ages, phase, target)
        next == fetchHashrateSeries([i \in DOMAIN ages |-> ages[i] + 1],
                                    (phase + 1) % Minute, target)
    IN  /\ \A k \in 1 .. Buckets - 1 :
              next.blocksPerMinute[k] =
                 now.blocksPerMinute[IF phase + 1 = Minute THEN k + 1 ELSE k]
        /\ (\A i \in DOMAIN ages : offsetMin(ages[i], phase) >= 0) =>
              /\ next.estimatedHps <= now.estimatedHps
              /\ next.averageHps <= now.averageHps
              /\ next.trendPct >= -100

TicksAreStable ==
    LET Ages == 0 .. (Buckets + 1) * Minute
    IN  \A a, b \in Ages, phase \in 0 .. Minute - 1, target \in {0, 2} :
           Tick(<<a, b>>, phase, target)

ChartIsStable == height > 0 => TicksAreStable

(* Whatever the last transactions were, winners, empty rounds and failures *)
(* in any order, more of them than are scanned: the recent blocks are the  *)
(* newest ones, the newest first, and the ranking counts every miner's     *)
(* blocks and leaves out none with more than one it shows (rpc.ts:116-244).*)
ServerIsRight == height > 0 => ListsAreRight

=============================================================================
