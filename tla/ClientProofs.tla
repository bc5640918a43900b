---------------------------- MODULE ClientProofs ----------------------------
(***************************************************************************)
(* Proofs about the clients that share nothing with the program or with    *)
(* each other but the chain: what the website serves (Site), the           *)
(* stand-alone web miner and the GPU miner, for any number of addresses,   *)
(* answers, sessions, devices, endpoints and rounds.                       *)
(***************************************************************************)
EXTENDS Site, WebMiner, GpuMiner, SumProofs

-----------------------------------------------------------------------------
(* The rate limit: first the filter.  It is a recursive function: there is *)
(* one that satisfies its equation, so the chosen one does.                *)

(* The prefixes of ages, filtered.                                         *)
KeptUpTo(ages, g, n) ==
    g = [k \in 0 .. n |->
            IF k = 0 THEN <<>>
            ELSE IF ages[k] < Window THEN Append(g[k - 1], ages[k]) ELSE g[k - 1]]

LEMMA KeptUnfolds ==
    ASSUME NEW ages, NEW g, NEW n \in Nat, KeptUpTo(ages, g, n)
    PROVE  /\ g[0] = <<>>
           /\ \A k \in 1 .. n : g[k] = IF ages[k] < Window THEN Append(g[k - 1], ages[k])
                                       ELSE g[k - 1]
<1>1. g = [k \in 0 .. n |->
            IF k = 0 THEN <<>>
            ELSE IF ages[k] < Window THEN Append(g[k - 1], ages[k]) ELSE g[k - 1]]
  BY DEF KeptUpTo
<1>2. 0 \in 0 .. n /\ \A k \in 1 .. n : k \in 0 .. n /\ k # 0
  OBVIOUS
<1>. QED BY <1>1, <1>2

LEMMA KeptExists == ASSUME NEW ages PROVE \A n \in Nat : \E g : KeptUpTo(ages, g, n)
<1> DEFINE N == {n \in Nat : \E g : KeptUpTo(ages, g, n)}
<1>1. 0 \in N
  <2> DEFINE g == [k \in 0 .. 0 |-> <<>>]
  <2>1. \A k \in 0 .. 0 : k = 0
    OBVIOUS
  <2>2. KeptUpTo(ages, g, 0)
    BY <2>1 DEF KeptUpTo
  <2>. QED BY <2>2
<1>2. ASSUME NEW n \in Nat, n \in N PROVE n + 1 \in N
  <2>1. PICK g : KeptUpTo(ages, g, n)
    BY <1>2
  <2> DEFINE Kept(f, k) == IF k = 0 THEN <<>>
                           ELSE IF ages[k] < Window THEN Append(f[k - 1], ages[k])
                           ELSE f[k - 1]
             h == [k \in 0 .. (n + 1) |-> Kept(g, k)]
  <2>2. \A k \in 0 .. n : g[k] = Kept(g, k)
    <3>1. g = [k \in 0 .. n |-> Kept(g, k)]
      BY <2>1 DEF KeptUpTo
    <3> HIDE DEF Kept
    <3>. QED BY <3>1
  <2>3. \A k \in 0 .. (n + 1) : h[k] = Kept(g, k)
    OBVIOUS
  <2> HIDE DEF h
  <2>4. \A k \in 0 .. n : h[k] = g[k]
    <3> HIDE DEF Kept
    <3>. QED BY <2>2, <2>3
  <2>5. \A k \in 0 .. (n + 1) : k # 0 => k - 1 \in 0 .. n
    OBVIOUS
  <2>6. \A k \in 0 .. (n + 1) : Kept(g, k) = Kept(h, k)
    BY <2>4, <2>5
  <2>7. h = [k \in 0 .. (n + 1) |-> Kept(h, k)]
    <3> HIDE DEF Kept
    <3>. QED BY <2>6 DEF h
  <2>8. KeptUpTo(ages, h, n + 1)
    BY <2>7 DEF KeptUpTo
  <2>. QED BY <2>8
<1> HIDE DEF N
<1>3. \A n \in Nat : n \in N
  BY <1>1, <1>2, NatSetInduction
<1>. QED BY <1>3 DEF N

(* Equal prefixes are filtered alike.                                      *)
LEMMA KeptAgree ==
    ASSUME NEW n \in Nat, NEW m \in Nat, n <= m, NEW s, NEW t, NEW g, NEW h,
           KeptUpTo(s, g, n), KeptUpTo(t, h, m), \A k \in 1 .. n : s[k] = t[k]
    PROVE  g[n] = h[n]
<1> DEFINE N == {k \in Nat : k <= n => g[k] = h[k]}
<1>1. 0 \in N
  BY KeptUnfolds
<1>2. ASSUME NEW k \in Nat, k \in N PROVE k + 1 \in N
  <2> SUFFICES ASSUME k + 1 <= n PROVE g[k + 1] = h[k + 1]
    OBVIOUS
  <2>1. k + 1 \in 1 .. n /\ k + 1 \in 1 .. m /\ (k + 1) - 1 = k
    OBVIOUS
  <2>2. g[k] = h[k] /\ s[k + 1] = t[k + 1]
    BY <1>2, <2>1
  <2>3. g[k + 1] = IF s[k + 1] < Window THEN Append(g[k], s[k + 1]) ELSE g[k]
    BY <2>1, KeptUnfolds
  <2>4. h[k + 1] = IF t[k + 1] < Window THEN Append(h[k], t[k + 1]) ELSE h[k]
    BY <2>1, KeptUnfolds
  <2>. QED BY <2>2, <2>3, <2>4
<1> HIDE DEF N
<1>3. \A k \in Nat : k \in N
  BY <1>1, <1>2, NatSetInduction
<1>. QED BY <1>3 DEF N

LEMMA FreshIsKept ==
    ASSUME NEW s, Len(s) \in Nat
    PROVE  \E g : KeptUpTo(s, g, Len(s)) /\ Fresh(s) = g[Len(s)]
<1> DEFINE f == CHOOSE g : KeptUpTo(s, g, Len(s))
<1>1. KeptUpTo(s, f, Len(s))
  BY KeptExists
<1>2. Fresh(s) = f[Len(s)]
  BY DEF Fresh, KeptUpTo
<1> HIDE DEF f
<1>. QED BY <1>1, <1>2

(* What the filter does with one more entry.                               *)
LEMMA FreshEmpty == Fresh(<<>>) = <<>>
<1>1. Len(<<>>) = 0
  OBVIOUS
<1>. QED BY <1>1, FreshIsKept, KeptUnfolds

LEMMA FreshAppend ==
    ASSUME NEW s \in Seq(Nat), NEW a \in Nat
    PROVE  Fresh(Append(s, a)) = IF a < Window THEN Append(Fresh(s), a) ELSE Fresh(s)
<1> DEFINE t == Append(s, a)
           n == Len(s)
<1>1. n \in Nat /\ Len(t) = n + 1 /\ t[n + 1] = a /\ \A k \in 1 .. n : s[k] = t[k]
  OBVIOUS
<1> HIDE DEF t, n
<1>2. PICK g : KeptUpTo(s, g, n) /\ Fresh(s) = g[n]
  BY <1>1, FreshIsKept DEF n
<1>3. PICK h : KeptUpTo(t, h, n + 1) /\ Fresh(t) = h[n + 1]
  BY <1>1, FreshIsKept
<1>4. n <= n + 1 /\ n + 1 \in Nat /\ n + 1 \in 1 .. (n + 1) /\ (n + 1) - 1 = n
  BY <1>1
<1>5. g[n] = h[n]
  BY <1>1, <1>2, <1>3, <1>4, KeptAgree
<1>6. h[n + 1] = IF t[n + 1] < Window THEN Append(h[n], t[n + 1]) ELSE h[n]
  BY <1>3, <1>4, KeptUnfolds
<1>. QED BY <1>1, <1>2, <1>3, <1>5, <1>6 DEF t

(* A set that has the empty sequence and every extension of its sequences  *)
(* has them all.                                                           *)
LEMMA SeqInduction ==
    ASSUME NEW P, <<>> \in P,
           \A s \in Seq(Nat), a \in Nat : s \in P => Append(s, a) \in P
    PROVE  \A s \in Seq(Nat) : s \in P
<1> DEFINE N == {n \in Nat : \A s \in Seq(Nat) : Len(s) = n => s \in P}
<1>1. 0 \in N
  <2>1. \A s \in Seq(Nat) : Len(s) = 0 => s = <<>>
    OBVIOUS
  <2>. QED BY <2>1
<1>2. ASSUME NEW n \in Nat, n \in N PROVE n + 1 \in N
  <2> SUFFICES ASSUME NEW s \in Seq(Nat), Len(s) = n + 1 PROVE s \in P
    OBVIOUS
  <2> DEFINE f == SubSeq(s, 1, n)
  <2>1. f \in Seq(Nat) /\ Len(f) = n /\ s[n + 1] \in Nat /\ s = Append(f, s[n + 1])
    OBVIOUS
  <2>2. f \in P
    BY <1>2, <2>1
  <2> HIDE DEF f
  <2>. QED BY <2>1, <2>2
<1> HIDE DEF N
<1>3. \A n \in Nat : n \in N
  BY <1>1, <1>2, NatSetInduction
<1>. QED BY <1>3 DEF N

(* One tick.                                                               *)
Old(a) == IF a < Window THEN a + 1 ELSE Window

LEMMA OlderAppend ==
    ASSUME NEW s \in Seq(Nat), NEW a \in Nat
    PROVE  /\ Older(s) \in Seq(Nat) /\ Len(Older(s)) = Len(s)
           /\ Older(Append(s, a)) = Append(Older(s), Old(a))
<1> USE ProxyAssumption DEF Older, Old
<1>1. /\ Older(s) = [i \in 1 .. Len(s) |-> Old(s[i])]
      /\ \A i \in 1 .. Len(s) : Old(s[i]) \in Nat
  OBVIOUS
<1>2. Older(s) \in Seq(Nat) /\ Len(Older(s)) = Len(s)
  BY <1>1
<1> DEFINE t == Append(s, a)
<1>3. /\ t \in Seq(Nat) /\ Len(t) = Len(s) + 1 /\ t[Len(s) + 1] = a
      /\ \A i \in 1 .. Len(s) : t[i] = s[i]
  OBVIOUS
<1> HIDE DEF t
<1>4. Older(t) = [i \in 1 .. (Len(s) + 1) |-> Old(t[i])]
  BY <1>3
<1>5. /\ Len(Append(Older(s), Old(a))) = Len(s) + 1
      /\ \A i \in 1 .. (Len(s) + 1) :
            Append(Older(s), Old(a))[i] = IF i <= Len(s) THEN Older(s)[i] ELSE Old(a)
  BY <1>2
<1>. QED
  <2> HIDE DEF Older, Old
  <2>0. Old(a) \in Nat
    BY DEF Old
  <2>1. Append(Older(s), Old(a)) \in Seq(Nat) /\ Older(t) \in Seq(Nat)
    <3>1. \A i \in 1 .. (Len(s) + 1) : Old(t[i]) \in Nat
      BY <1>3 DEF Old
    <3>. QED BY <1>2, <1>4, <2>0, <3>1
  <2>2. Len(Older(t)) = Len(s) + 1
    BY <1>4, <2>1
  <2>3. \A i \in 1 .. (Len(s) + 1) : Older(t)[i] = Append(Older(s), Old(a))[i]
    BY <1>1, <1>3, <1>4, <1>5
  <2>4. Older(t) = Append(Older(s), Old(a))
    BY <1>5, <2>1, <2>2, <2>3
  <2>. QED BY <1>2, <2>4 DEF t

(* All within the window.                                                  *)
Young(s) == \A i \in 1 .. Len(s) : s[i] < Window

(* What is left after the filter is young, and no more than there was.     *)
LEMMA FreshTyped ==
    \A s \in Seq(Nat) : Fresh(s) \in Seq(Nat) /\ Len(Fresh(s)) <= Len(s) /\ Young(Fresh(s))
<1> DEFINE P == {s \in Seq(Nat) : /\ Fresh(s) \in Seq(Nat) /\ Len(Fresh(s)) <= Len(s)
                                  /\ Young(Fresh(s))}
<1>1. <<>> \in P
  <2> DEFINE none == <<>>
  <2>1. none \in Seq(Nat) /\ Len(none) = 0 /\ Fresh(none) = none
    BY FreshEmpty
  <2> HIDE DEF none
  <2>2. Young(none) /\ Len(none) <= Len(none)
    BY <2>1 DEF Young
  <2>3. none \in P
    BY <2>1, <2>2
  <2>. QED BY <2>3 DEF none
<1>2. ASSUME NEW s \in Seq(Nat), NEW a \in Nat, s \in P PROVE Append(s, a) \in P
  <2>1. CASE a < Window
    <3>1. Fresh(Append(s, a)) = Append(Fresh(s), a)
      BY <2>1, FreshAppend
    <3>2. Fresh(s) \in Seq(Nat) /\ Len(Fresh(s)) <= Len(s) /\ Young(Fresh(s))
      BY <1>2
    <3>3. Append(s, a) \in Seq(Nat) /\ Len(Append(s, a)) = Len(s) + 1
      OBVIOUS
    <3>4. /\ Append(Fresh(s), a) \in Seq(Nat)
          /\ Len(Append(Fresh(s), a)) = Len(Fresh(s)) + 1
          /\ Append(Fresh(s), a)[Len(Fresh(s)) + 1] = a
          /\ \A i \in 1 .. Len(Fresh(s)) : Append(Fresh(s), a)[i] = Fresh(s)[i]
      BY <3>2
    <3>5. Young(Append(Fresh(s), a))
      BY <2>1, <3>2, <3>4 DEF Young
    <3>6. Len(Append(Fresh(s), a)) <= Len(s) + 1
      BY <3>2, <3>4
    <3>. QED BY <3>1, <3>3, <3>4, <3>5, <3>6
  <2>2. CASE ~(a < Window)
    <3>1. Fresh(Append(s, a)) = Fresh(s)
      BY <2>2, FreshAppend
    <3>2. Append(s, a) \in Seq(Nat) /\ Len(Append(s, a)) = Len(s) + 1
      OBVIOUS
    <3>. QED BY <1>2, <3>1, <3>2
  <2>. QED BY <2>1, <2>2
<1> HIDE DEF P
<1>3. \A s \in Seq(Nat) : s \in P
  BY <1>1, <1>2, SeqInduction
<1>. QED BY <1>3 DEF P

(* The filter leaves the young alone.                                      *)
LEMMA FreshYoung == \A s \in Seq(Nat) : Young(s) => Fresh(s) = s
<1> DEFINE P == {s \in Seq(Nat) : Young(s) => Fresh(s) = s}
<1>1. <<>> \in P
  BY FreshEmpty
<1>2. ASSUME NEW s \in Seq(Nat), NEW a \in Nat, s \in P PROVE Append(s, a) \in P
  <2>1. /\ Append(s, a) \in Seq(Nat) /\ Len(Append(s, a)) = Len(s) + 1
        /\ Append(s, a)[Len(s) + 1] = a /\ \A i \in 1 .. Len(s) : Append(s, a)[i] = s[i]
    OBVIOUS
  <2> SUFFICES ASSUME Young(Append(s, a)) PROVE Fresh(Append(s, a)) = Append(s, a)
    BY <2>1
  <2>2. a < Window /\ Young(s)
    BY <2>1 DEF Young
  <2>. QED BY <1>2, <2>2, FreshAppend
<1> HIDE DEF P
<1>3. \A s \in Seq(Nat) : s \in P
  BY <1>1, <1>2, SeqInduction
<1>. QED BY <1>3 DEF P

(* Whether what is no longer young is dropped before a tick or only after  *)
(* it makes no difference.                                                 *)
LEMMA FreshOlder == \A s \in Seq(Nat) : Fresh(Older(Fresh(s))) = Fresh(Older(s))
<1> DEFINE P == {s \in Seq(Nat) : Fresh(Older(Fresh(s))) = Fresh(Older(s))}
<1>1. <<>> \in P
  BY FreshEmpty
<1>2. ASSUME NEW s \in Seq(Nat), NEW a \in Nat, s \in P PROVE Append(s, a) \in P
  <2>1. Fresh(s) \in Seq(Nat) /\ Older(s) \in Seq(Nat) /\ Older(Fresh(s)) \in Seq(Nat)
    BY FreshTyped, OlderAppend
  <2>2. Old(a) \in Nat /\ (~(a < Window) => ~(Old(a) < Window))
    BY ProxyAssumption DEF Old
  <2>3. Fresh(Older(Append(s, a))) =
          IF Old(a) < Window THEN Append(Fresh(Older(s)), Old(a)) ELSE Fresh(Older(s))
    BY <2>1, <2>2, OlderAppend, FreshAppend
  <2>4. CASE a < Window
    <3>1. Fresh(Older(Fresh(Append(s, a)))) =
            IF Old(a) < Window THEN Append(Fresh(Older(Fresh(s))), Old(a))
                               ELSE Fresh(Older(Fresh(s)))
      <4>1. Fresh(Append(s, a)) = Append(Fresh(s), a)
        BY <2>4, FreshAppend
      <4>2. Older(Append(Fresh(s), a)) = Append(Older(Fresh(s)), Old(a))
        BY <2>1, OlderAppend
      <4>. QED BY <2>1, <2>2, <4>1, <4>2, FreshAppend
    <3>. QED BY <1>2, <2>3, <3>1
  <2>5. CASE ~(a < Window)
    <3>1. Fresh(Append(s, a)) = Fresh(s)
      BY <2>5, FreshAppend
    <3>. QED BY <1>2, <2>2, <2>3, <2>5, <3>1
  <2>. QED BY <2>4, <2>5
<1> HIDE DEF P
<1>3. \A s \in Seq(Nat) : s \in P
  BY <1>1, <1>2, SeqInduction
<1>. QED BY <1>3 DEF P

-----------------------------------------------------------------------------
(* The rate limit: the inductive invariant.  What is fresh in the bucket is*)
(* what was granted in the last window.                                    *)
ProxyInv ==
    /\ ipBuckets \in [IPs -> Seq(Nat)] /\ granted \in [IPs -> Seq(Nat)]
    /\ \A ip \in IPs : granted[ip] = Fresh(ipBuckets[ip]) /\ Len(granted[ip]) <= MaxReqs

LEMMA ProxyStart == PInit => ProxyInv
BY FreshEmpty, ProxyAssumption DEF PInit, ProxyInv

LEMMA PostKeeps == ASSUME ProxyInv, NEW ip \in IPs, Post(ip) PROVE ProxyInv'
<1> DEFINE fresh == Fresh(ipBuckets[ip])
           bucket == rateLimit(ip).bucket
           grant == IF rateLimit(ip).ok THEN Append(granted[ip], 0) ELSE granted[ip]
<1>1. /\ ipBuckets' = [ipBuckets EXCEPT ![ip] = bucket]
      /\ granted' = [granted EXCEPT ![ip] = grant]
  BY DEF Post, ProxyInv
<1>2. /\ fresh \in Seq(Nat) /\ Young(fresh) /\ granted[ip] = fresh
      /\ Len(fresh) <= MaxReqs /\ Fresh(fresh) = fresh
  BY FreshTyped, FreshYoung DEF ProxyInv
<1>3. /\ bucket \in Seq(Nat) /\ grant \in Seq(Nat)
      /\ grant = Fresh(bucket) /\ Len(grant) <= MaxReqs
  <2> HIDE DEF fresh
  <2>1. CASE Len(fresh) >= MaxReqs
    <3>1. bucket = fresh /\ grant = granted[ip]
      BY <2>1 DEF rateLimit, fresh
    <3>. QED BY <1>2, <3>1
  <2>2. CASE ~(Len(fresh) >= MaxReqs)
    <3>1. bucket = Append(fresh, 0) /\ grant = Append(granted[ip], 0)
      BY <2>2 DEF rateLimit, fresh
    <3>2. 0 < Window /\ MaxReqs \in Nat
      BY ProxyAssumption
    <3>3. Fresh(bucket) = Append(Fresh(fresh), 0)
      BY <1>2, <3>1, <3>2, FreshAppend
    <3>. QED BY <1>2, <2>2, <3>1, <3>2, <3>3
  <2>. QED BY <2>1, <2>2
<1> HIDE DEF bucket, grant
<1>. QED BY <1>1, <1>3 DEF ProxyInv

LEMMA TickKeeps == ProxyInv /\ ProxyTick => ProxyInv'
<1> SUFFICES ASSUME ProxyInv, ProxyTick, NEW ip \in IPs
             PROVE  /\ Older(ipBuckets[ip]) \in Seq(Nat)
                    /\ Fresh(Older(granted[ip])) \in Seq(Nat)
                    /\ Fresh(Older(granted[ip])) = Fresh(Older(ipBuckets[ip]))
                    /\ Len(Fresh(Older(granted[ip]))) <= MaxReqs
  BY DEF ProxyTick, ProxyInv
<1>1. /\ ipBuckets[ip] \in Seq(Nat) /\ granted[ip] \in Seq(Nat)
      /\ granted[ip] = Fresh(ipBuckets[ip]) /\ Len(granted[ip]) <= MaxReqs
  BY DEF ProxyInv
<1>2. /\ Older(ipBuckets[ip]) \in Seq(Nat) /\ Older(granted[ip]) \in Seq(Nat)
      /\ Len(Older(granted[ip])) = Len(granted[ip])
  BY <1>1, OlderAppend
<1>3. /\ Fresh(Older(granted[ip])) \in Seq(Nat)
      /\ Len(Fresh(Older(granted[ip]))) <= Len(Older(granted[ip]))
  BY <1>2, FreshTyped
<1>4. Fresh(Older(granted[ip])) = Fresh(Older(ipBuckets[ip]))
  BY <1>1, FreshOlder
<1>5. Len(Fresh(Older(granted[ip]))) <= MaxReqs
  BY <1>1, <1>2, <1>3, ProxyAssumption
<1>. QED BY <1>2, <1>3, <1>4, <1>5

(* No address is granted more than MaxReqs requests in any stretch of time *)
(* of one window (route.ts:49-64), for any limit, window and number of     *)
(* addresses.                                                              *)
THEOREM WindowAlwaysHolds == Spec => []WindowHolds
<1>1. Init => ProxyInv
  BY ProxyStart DEF Init
<1>2. ProxyInv /\ [Next]_vars => ProxyInv'
  <2>1. ProxyInv /\ UNCHANGED pvars => ProxyInv'
    BY DEF ProxyInv, pvars
  <2>. QED BY <2>1, PostKeeps, TickKeeps DEF Next, vars, Explore, Serve, TimePasses
<1>3. ProxyInv => WindowHolds
  BY DEF ProxyInv, WindowHolds
<1>. QED BY <1>1, <1>2, <1>3, PTL DEF Spec

-----------------------------------------------------------------------------
(* The explorer.                                                           *)

(* What is on its way and what is shown are answers: a state or none, and  *)
(* blocks.                                                                 *)
IsAnswer(a) == a = [state |-> a.state, blocks |-> a.blocks]

PageInv == /\ \A a \in answers : IsAnswer(a.read)
           /\ view # Null => IsAnswer(view)

LEMMA ReadsAreAnswers == \A a \in Read \union {FullRead} : IsAnswer(a)
BY DEF Read, FullRead, IsAnswer

LEMMA ExploreKeeps == PageInv /\ Explore => PageInv'
<1> SUFFICES ASSUME PageInv, Explore PROVE PageInv'
  OBVIOUS
<1>1. CASE Launch \/ AdvanceEmpty \/ FailedTx \/ \E m \in Miners : MineBlock(m)
  BY <1>1 DEF Launch, AdvanceEmpty, FailedTx, MineBlock, Record, PageInv
<1>2. CASE Open
  BY <1>2, ReadsAreAnswers DEF Open, PageInv
<1>3. CASE Leave
  BY <1>3 DEF Leave, PageInv
<1>4. CASE \E full \in BOOLEAN : Poll(full)
  <2>1. PICK r \in Read \union {FullRead}, full \in BOOLEAN :
           answers' = answers \union {[read |-> r, full |-> full]} /\ view' = view
    BY <1>4 DEF Poll
  <2>. QED BY <2>1, ReadsAreAnswers DEF PageInv
<1>5. CASE \E a \in answers : Arrive(a)
  <2>1. PICK a \in answers : Arrive(a)
    BY <1>5
  <2> DEFINE r == a.read
             state == IF r.state = Null THEN view.state ELSE r.state
  <2>2. view' = [state |-> state, blocks |-> r.blocks]
    <3>1. r = [state |-> r.state, blocks |-> r.blocks]
      BY <2>1 DEF PageInv, IsAnswer
    <3>2. view' = [r EXCEPT !.state = state]
      BY <2>1 DEF Arrive
    <3> HIDE DEF state, r
    <3>3. DOMAIN r = {"state", "blocks"} /\ r.blocks = r.blocks
      BY <3>1
    <3>. QED BY <3>1, <3>2, <3>3
  <2> HIDE DEF state, r
  <2>3. IsAnswer(view)'
    BY <2>2 DEF IsAnswer
  <2>. QED BY <2>1, <2>3 DEF Arrive, PageInv
<1>6. CASE \E a \in answers : Fails(a)
  BY <1>6 DEF Fails, PageInv
<1>. QED BY <1>1, <1>2, <1>3, <1>4, <1>5, <1>6 DEF Explore

(* A page that shows the program keeps showing it: an answer without a     *)
(* state leaves the one on the screen.                                     *)
LEMMA ArriveKeepsLaunched ==
    ASSUME PageInv, NEW a \in answers, Arrive(a), Screen(view) # "pre-launch"
    PROVE  Screen(view') # "pre-launch"
<1> DEFINE r == a.read
<1>1. r = [state |-> r.state, blocks |-> r.blocks]
  BY DEF PageInv, IsAnswer
<1>2. view' = [r EXCEPT !.state = IF r.state = Null THEN view.state ELSE r.state]
  BY DEF Arrive
<1> HIDE DEF r
<1>3. view'.state = IF r.state = Null THEN view.state ELSE r.state
  BY <1>1, <1>2
<1>4. view.state # Null
  BY DEF Screen
<1>. QED BY <1>3, <1>4 DEF Screen

(* A failing endpoint never sends an open page back to "pre-launch"        *)
(* (ExplorerDashboard.tsx:36-62), whatever answers overtake each other, for*)
(* any number of them and any log.                                         *)
THEOREM PageStaysLaunched == Spec => StaysLaunched
<1>1. Init => PageInv
  BY DEF Init, EInit, PageInv
<1>2. PageInv /\ [Next]_vars => PageInv'
  <2>1. PageInv /\ UNCHANGED evars => PageInv'
    BY DEF PageInv, evars
  <2>. QED BY <2>1, ExploreKeeps DEF Next, vars, Serve, TimePasses
<1>3. PageInv /\ [Next]_vars =>
        [view # Null /\ view' # Null /\ Screen(view) # "pre-launch"
            => Screen(view') # "pre-launch"]_vars
  <2> SUFFICES ASSUME PageInv, Next, view # Null, view' # Null, Screen(view) # "pre-launch"
               PROVE  Screen(view') # "pre-launch"
    OBVIOUS
  <2>1. CASE view' = view
    BY <2>1 DEF Screen
  <2>2. CASE \E a \in answers : Arrive(a)
    BY <2>2, ArriveKeepsLaunched
  <2>3. view' = view \/ \E a \in answers : Arrive(a)
    BY DEF Next, Explore, Launch, AdvanceEmpty, FailedTx, MineBlock, Record, Open, Leave, Poll, Fails,
           Serve, TimePasses, evars
  <2>. QED BY <2>1, <2>2, <2>3
<1>. QED BY <1>1, <1>2, <1>3, PTL DEF Spec, StaysLaunched

-----------------------------------------------------------------------------
(* The chart.  First the powers that weigh the buckets, a recursive        *)
(* function like the filter.                                               *)
PowersUpTo(b, g, n) == g = [k \in 0 .. n |-> IF k = 0 THEN 1 ELSE b * g[k - 1]]

LEMMA PowersUnfold ==
    ASSUME NEW b, NEW g, NEW n \in Nat, PowersUpTo(b, g, n)
    PROVE  g[0] = 1 /\ \A k \in 1 .. n : g[k] = b * g[k - 1]
<1>1. g = [k \in 0 .. n |-> IF k = 0 THEN 1 ELSE b * g[k - 1]]
  BY DEF PowersUpTo
<1>2. 0 \in 0 .. n /\ \A k \in 1 .. n : k \in 0 .. n /\ k # 0
  OBVIOUS
<1>. QED BY <1>1, <1>2

LEMMA PowersExist == ASSUME NEW b PROVE \A n \in Nat : \E g : PowersUpTo(b, g, n)
<1> DEFINE N == {n \in Nat : \E g : PowersUpTo(b, g, n)}
           Following(f, k) == IF k = 0 THEN 1 ELSE b * f[k - 1]
<1>1. 0 \in N
  <2> DEFINE g == [k \in 0 .. 0 |-> 1]
  <2>1. \A k \in 0 .. 0 : k = 0
    OBVIOUS
  <2>2. PowersUpTo(b, g, 0)
    BY <2>1 DEF PowersUpTo
  <2>. QED BY <2>2
<1>2. ASSUME NEW n \in Nat, n \in N PROVE n + 1 \in N
  <2>1. PICK g : PowersUpTo(b, g, n)
    BY <1>2
  <2> DEFINE h == [k \in 0 .. (n + 1) |-> Following(g, k)]
  <2>2. \A k \in 0 .. n : g[k] = Following(g, k)
    <3>1. g = [k \in 0 .. n |-> Following(g, k)]
      BY <2>1 DEF PowersUpTo
    <3> HIDE DEF Following
    <3>. QED BY <3>1
  <2>3. \A k \in 0 .. (n + 1) : h[k] = Following(g, k)
    OBVIOUS
  <2> HIDE DEF h
  <2>4. \A k \in 0 .. n : h[k] = g[k]
    <3> HIDE DEF Following
    <3>. QED BY <2>2, <2>3
  <2>5. \A k \in 0 .. (n + 1) : k # 0 => k - 1 \in 0 .. n
    OBVIOUS
  <2>6. \A k \in 0 .. (n + 1) : Following(g, k) = Following(h, k)
    BY <2>4, <2>5
  <2>7. h = [k \in 0 .. (n + 1) |-> Following(h, k)]
    <3> HIDE DEF Following
    <3>. QED BY <2>6 DEF h
  <2>8. PowersUpTo(b, h, n + 1)
    BY <2>7 DEF PowersUpTo
  <2>. QED BY <2>8
<1> HIDE DEF N
<1>3. \A n \in Nat : n \in N
  BY <1>1, <1>2, NatSetInduction
<1>. QED BY <1>3 DEF N

LEMMA PowerIs ==
    ASSUME NEW b, NEW n \in Nat
    PROVE  \E g : PowersUpTo(b, g, n) /\ power(b, n) = g[n]
<1> DEFINE f == CHOOSE g : PowersUpTo(b, g, n)
<1>1. PowersUpTo(b, f, n)
  BY PowersExist
<1>2. power(b, n) = f[n]
  BY DEF power, PowersUpTo
<1> HIDE DEF f
<1>. QED BY <1>1, <1>2

LEMMA PowerZero == ASSUME NEW b PROVE power(b, 0) = 1
BY PowerIs, PowersUnfold

LEMMA PowerNext ==
    ASSUME NEW b, NEW n \in Nat
    PROVE  power(b, n + 1) = b * power(b, n)
<1>1. PICK g : PowersUpTo(b, g, n) /\ power(b, n) = g[n]
  BY PowerIs
<1>2. PICK h : PowersUpTo(b, h, n + 1) /\ power(b, n + 1) = h[n + 1]
  BY PowerIs
<1> DEFINE N == {k \in Nat : k <= n => g[k] = h[k]}
<1>3. 0 \in N
  BY <1>1, <1>2, PowersUnfold
<1>4. ASSUME NEW k \in Nat, k \in N PROVE k + 1 \in N
  <2> SUFFICES ASSUME k + 1 <= n PROVE g[k + 1] = h[k + 1]
    OBVIOUS
  <2>1. k + 1 \in 1 .. n /\ k + 1 \in 1 .. (n + 1) /\ (k + 1) - 1 = k
    OBVIOUS
  <2>2. g[k] = h[k]
    BY <1>4
  <2>3. g[k + 1] = b * g[k]
    BY <1>1, <2>1, PowersUnfold
  <2>4. h[k + 1] = b * h[k]
    BY <1>2, <2>1, PowersUnfold
  <2>. QED BY <2>2, <2>3, <2>4
<1> HIDE DEF N
<1>5. \A k \in Nat : k \in N
  BY <1>3, <1>4, NatSetInduction
<1>6. g[n] = h[n]
  BY <1>5 DEF N
<1>7. n + 1 \in 1 .. (n + 1) /\ (n + 1) - 1 = n
  OBVIOUS
<1>. QED BY <1>1, <1>2, <1>6, <1>7, PowersUnfold

LEMMA PowerTyped == ASSUME NEW b \in Nat PROVE \A n \in Nat : power(b, n) \in Nat
<1> DEFINE N == {n \in Nat : power(b, n) \in Nat}
<1>1. 0 \in N
  BY PowerZero
<1>2. ASSUME NEW n \in Nat, n \in N PROVE n + 1 \in N
  <2>1. power(b, n + 1) = b * power(b, n) /\ power(b, n) \in Nat
    BY <1>2, PowerNext
  <2>. QED BY <2>1
<1> HIDE DEF N
<1>3. \A n \in Nat : n \in N
  BY <1>1, <1>2, NatSetInduction
<1>. QED BY <1>3 DEF N

(* A later minute weighs no less than the one before it.                   *)
LEMMA WeightsRise ==
    /\ \A k \in 1 .. Buckets : weight(k) \in Nat
    /\ \A k \in 1 .. Buckets - 1 : weight(k) <= weight(k + 1)
<1>1. ASSUME NEW k \in 1 .. Buckets PROVE weight(k) \in Nat
  <2>1. Buckets - k \in Nat /\ k - 1 \in Nat
    BY ExplorerAssumption
  <2>2. power(17, Buckets - k) \in Nat /\ power(20, k - 1) \in Nat
    BY <2>1, PowerTyped
  <2>. QED BY <2>2 DEF weight
<1>2. ASSUME NEW k \in 1 .. Buckets - 1 PROVE weight(k) <= weight(k + 1)
  <2> DEFINE i == Buckets - (k + 1)
             j == k - 1
             P == power(17, i)
             Q == power(20, j)
  <2>1. /\ i \in Nat /\ j \in Nat
        /\ Buckets - k = i + 1 /\ (k + 1) - 1 = j + 1
    BY ExplorerAssumption
  <2>2. P \in Nat /\ Q \in Nat
    BY <2>1, PowerTyped
  <2>3. weight(k) = (17 * P) * Q
    BY <2>1, PowerNext DEF weight
  <2>4. weight(k + 1) = P * (20 * Q)
    BY <2>1, PowerNext DEF weight
  <2> HIDE DEF P, Q
  <2>5. P * Q \in Nat /\ (17 * P) * Q = 17 * (P * Q) /\ P * (20 * Q) = 20 * (P * Q)
    BY <2>2
  <2> DEFINE R == P * Q
  <2> HIDE DEF R
  <2>6. R \in Nat /\ weight(k) = 17 * R /\ weight(k + 1) = 20 * R
    BY <2>3, <2>4, <2>5 DEF R
  <2>. QED BY <2>6
<1>. QED BY <1>1, <1>2

(* Sums of what has moved left by one, and lost its last place.            *)
LEMMA ShiftedSum ==
    ASSUME NEW f, NEW e, NEW n \in Nat,
           \A k \in 1 .. n : f[k] \in Nat /\ e[k] \in Nat,
           \A k \in 1 .. n : k < n => e[k] <= f[k + 1],
           \A k \in 1 .. n : k = n => e[k] = 0
    PROVE  SumFunctionOnSet(e, 1 .. n) <= SumFunctionOnSet(f, 1 .. n)
<1> DEFINE E(k) == SumFunctionOnSet(e, 1 .. k)
           F(k) == SumFunctionOnSet(f, 1 .. k)
           N == {m \in Nat : m < n => E(m) <= F(m + 1)}
<1>1. ASSUME NEW m \in Nat, m < n
      PROVE  /\ E(m) \in Nat /\ F(m) \in Nat
             /\ E(m + 1) = E(m) + e[m + 1]
             /\ F(m + 1) = F(m) + f[m + 1]
  <2> DEFINE S == 1 .. m
             x == m + 1
  <2>1. IsFiniteSet(S) /\ x \notin S /\ 1 .. (m + 1) = S \union {x}
    BY FS_Interval
  <2>2. \A k \in S \union {x} : e[k] \in Nat /\ f[k] \in Nat
    BY <1>1
  <2>3. \A k \in S \union {x} : e[k] \in Int /\ f[k] \in Int
    BY <2>2
  <2> HIDE DEF S, x
  <2>4. SumFunctionOnSet(e, S) \in Nat /\ SumFunctionOnSet(f, S) \in Nat
    BY <2>1, <2>2, <2>3, SumTyped
  <2>5. SumFunctionOnSet(e, S \union {x}) = SumFunctionOnSet(e, S) + e[x]
    BY <2>1, <2>3, SumAdd
  <2>6. SumFunctionOnSet(f, S \union {x}) = SumFunctionOnSet(f, S) + f[x]
    BY <2>1, <2>3, SumAdd
  <2>. QED BY <2>1, <2>4, <2>5, <2>6 DEF S, x
<1>2. 1 .. 0 = {}
  OBVIOUS
<1>3. E(0) = 0 /\ F(0) = 0
  BY <1>2, SumEmpty
<1> HIDE DEF E, F
<1>4. 0 \in N
  <2> SUFFICES ASSUME 0 < n PROVE E(0) <= F(0 + 1)
    OBVIOUS
  <2>1. F(0 + 1) = F(0) + f[0 + 1] /\ f[0 + 1] \in Nat
    BY <1>1
  <2>. QED BY <1>3, <2>1
<1>5. ASSUME NEW m \in Nat, m \in N PROVE m + 1 \in N
  <2> SUFFICES ASSUME m + 1 < n PROVE E(m + 1) <= F((m + 1) + 1)
    OBVIOUS
  <2>1. E(m) <= F(m + 1) /\ E(m) \in Nat /\ F(m + 1) \in Nat
    BY <1>1, <1>5
  <2>2. E(m + 1) = E(m) + e[m + 1]
    BY <1>1
  <2>3. F((m + 1) + 1) = F(m + 1) + f[(m + 1) + 1]
    BY <1>1
  <2>4. m + 1 \in 1 .. n /\ (m + 1) + 1 \in 1 .. n
    OBVIOUS
  <2>5. e[m + 1] <= f[(m + 1) + 1] /\ e[m + 1] \in Nat /\ f[(m + 1) + 1] \in Nat
    BY <2>4
  <2>. QED BY <2>1, <2>2, <2>3, <2>5
<1> HIDE DEF N
<1>6. \A m \in Nat : m \in N
  BY <1>4, <1>5, NatSetInduction
<1>7. CASE n = 0
  BY <1>3, <1>7 DEF E, F
<1>8. CASE n # 0
  <2> DEFINE m == n - 1
  <2>1. m \in Nat /\ m < n /\ n = m + 1
    BY <1>8
  <2>2. E(m) <= F(n)
    BY <1>6, <2>1 DEF N
  <2>3. E(n) = E(m) + e[n] /\ E(m) \in Nat
    BY <1>1, <2>1
  <2>4. e[n] = 0
    BY <2>1
  <2>. QED BY <2>2, <2>3, <2>4 DEF E, F
<1>. QED BY <1>7, <1>8

(* A block keeps its place within a minute, and loses one with the next.   *)
LEMMA OffsetOfTick ==
    ASSUME NEW age \in Int, NEW phase \in 0 .. Minute - 1
    PROVE  /\ offsetMin(age, phase) \in Int
           /\ offsetMin(age + 1, (phase + 1) % Minute)
                = offsetMin(age, phase) + (IF phase + 1 = Minute THEN 1 ELSE 0)
<1> DEFINE x == age - phase
           q == x \div Minute
           r == x % Minute
<1>1. Minute \in Nat \ {0}
  BY ExplorerAssumption
<1>2. q \in Int /\ r \in 0 .. (Minute - 1) /\ x = Minute * q + r /\ x \in Int
  BY <1>1, FloorFacts
<1>3. CASE phase + 1 = Minute
  <2>1. (phase + 1) % Minute = 0
    BY <1>1, <1>3
  <2>2. (age + 1) - 0 = x + Minute
    BY <1>1, <1>3
  <2> HIDE DEF x, q, r
  <2>3. x + Minute = Minute * (q + 1) + r
    BY <1>1, <1>2
  <2>4. (x + Minute) \div Minute = q + 1
    BY <1>1, <1>2, <2>3, QuotientIs
  <2>. QED BY <1>2, <1>3, <2>1, <2>2, <2>4 DEF offsetMin, q, x
<1>4. CASE phase + 1 # Minute
  <2>1. (phase + 1) % Minute = phase + 1
    BY <1>1, <1>4
  <2>2. (age + 1) - (phase + 1) = x
    BY <1>1
  <2>. QED BY <1>2, <1>4, <2>1, <2>2 DEF offsetMin
<1>. QED BY <1>3, <1>4

(* The ages of the same blocks a tick later.                               *)
Aged(ages) == [i \in DOMAIN ages |-> ages[i] + 1]

LEMMA BucketsCount ==
    ASSUME NEW ages, IsFiniteSet(DOMAIN ages), NEW phase
    PROVE  \A k \in 1 .. Buckets : blocksPerMinute(ages, phase)[k] \in Nat
<1>1. ASSUME NEW k \in 1 .. Buckets PROVE blocksPerMinute(ages, phase)[k] \in Nat
  <2> DEFINE S == {i \in DOMAIN ages : offsetMin(ages[i], phase) = Buckets - k}
  <2>1. IsFiniteSet(S)
    BY FS_Subset
  <2>2. Cardinality(S) \in Nat
    BY <2>1, FS_CardinalityType
  <2>. QED BY <2>2 DEF blocksPerMinute
<1>. QED BY <1>1

(* The buckets stay where they are within a minute, and move left by one   *)
(* with the next, which starts empty if every block was in a bucket.       *)
LEMMA BucketsShift ==
    ASSUME NEW ages, \A i \in DOMAIN ages : ages[i] \in Int, NEW phase \in 0 .. Minute - 1
    PROVE  LET now == blocksPerMinute(ages, phase)
               next == blocksPerMinute(Aged(ages), (phase + 1) % Minute)
           IN  /\ phase + 1 # Minute => next = now
               /\ phase + 1 = Minute =>
                     /\ \A k \in 1 .. Buckets - 1 : next[k] = now[k + 1]
                     /\ (\A i \in DOMAIN ages : offsetMin(ages[i], phase) >= 0)
                           => next[Buckets] = 0
<1> DEFINE after == (phase + 1) % Minute
           At(j) == {i \in DOMAIN ages : offsetMin(ages[i], phase) = j}
           Then(j) == {i \in DOMAIN Aged(ages) : offsetMin(Aged(ages)[i], after) = j}
           now == blocksPerMinute(ages, phase)
           next == blocksPerMinute(Aged(ages), after)
           d == IF phase + 1 = Minute THEN 1 ELSE 0
<1>1. \A i \in DOMAIN ages :
         /\ offsetMin(ages[i], phase) \in Int
         /\ offsetMin(ages[i] + 1, after) = offsetMin(ages[i], phase) + d
  BY OffsetOfTick
<1>2. DOMAIN Aged(ages) = DOMAIN ages /\ \A i \in DOMAIN ages : Aged(ages)[i] = ages[i] + 1
  BY DEF Aged
<1>3. d \in Int /\ Buckets \in Nat \ {0}
  BY ExplorerAssumption
<1>4. \A k \in 1 .. Buckets : /\ now[k] = Cardinality(At(Buckets - k))
                               /\ next[k] = Cardinality(Then(Buckets - k))
  BY DEF blocksPerMinute
<1> HIDE DEF after, d
<1>5. \A j \in Int : Then(j) = At(j - d)
  BY <1>1, <1>2, <1>3
<1> HIDE DEF At, Then
<1>6. \A k \in 1 .. Buckets : next[k] = Cardinality(At((Buckets - k) - d))
  BY <1>3, <1>4, <1>5
<1>7. ASSUME phase + 1 # Minute PROVE next = now
  <2>1. d = 0
    BY <1>7 DEF d
  <2>2. \A k \in 1 .. Buckets : next[k] = now[k]
    BY <1>3, <1>4, <1>6, <2>1
  <2>. QED BY <2>2 DEF blocksPerMinute
<1>8. ASSUME phase + 1 = Minute
      PROVE  /\ \A k \in 1 .. Buckets - 1 : next[k] = now[k + 1]
             /\ (\A i \in DOMAIN ages : offsetMin(ages[i], phase) >= 0)
                   => next[Buckets] = 0
  <2>1. d = 1
    BY <1>8 DEF d
  <2>2. ASSUME NEW k \in 1 .. Buckets - 1 PROVE next[k] = now[k + 1]
    <3>1. k \in 1 .. Buckets /\ k + 1 \in 1 .. Buckets
          /\ (Buckets - k) - 1 = Buckets - (k + 1)
      BY <1>3
    <3>. QED BY <1>4, <1>6, <2>1, <3>1
  <2>3. ASSUME \A i \in DOMAIN ages : offsetMin(ages[i], phase) >= 0
        PROVE  next[Buckets] = 0
    <3>1. At(-1) = {}
      BY <1>1, <2>3 DEF At
    <3>2. Buckets \in 1 .. Buckets /\ (Buckets - Buckets) - 1 = -1
      BY <1>3
    <3>3. next[Buckets] = Cardinality(At(-1))
      BY <1>6, <2>1, <3>2
    <3>. QED BY <3>1, <3>3, FS_EmptySet
  <2>. QED BY <2>2, <2>3
<1>. QED BY <1>7, <1>8 DEF after

(* More blocks are no lower rate.                                          *)
LEMMA EstimateMonotonic ==
    ASSUME NEW r \in Nat, NEW s \in Nat, r <= s, NEW target \in Nat
    PROVE  estimateNetworkHashrate(r, target) <= estimateNetworkHashrate(s, target)
<1>1. CASE target = 0
  BY <1>1 DEF estimateNetworkHashrate
<1>2. CASE target # 0
  <2> DEFINE c == TwoTo256 \div target
  <2>1. c \in Nat
    BY <1>2, ExplorerAssumption
  <2> HIDE DEF c
  <2>2. r * c <= s * c
    BY <2>1
  <2>. QED BY <1>2, <2>2 DEF estimateNetworkHashrate, c
<1>. QED BY <1>1, <1>2

(* The trend of counts is no fall by more than everything.                 *)
LEMMA TrendBounded ==
    ASSUME NEW f \in Nat, NEW s \in Nat, f > 0
    PROVE  (100 * (s - f)) \div f >= -100
<1> DEFINE x == 100 * (s - f)
           q == x \div f
<1>1. x \in Int /\ x >= -(100 * f)
  OBVIOUS
<1>2. q \in Int /\ x % f \in 0 .. (f - 1) /\ x = f * q + (x % f)
  BY <1>1, FloorFacts
<1> HIDE DEF x, q
<1>3. ASSUME q < -100 PROVE FALSE
  <2>1. q <= -101
    BY <1>2, <1>3
  <2>2. f * q <= f * (-101)
    BY <1>2, <2>1
  <2>3. f * (-101) = -(101 * f)
    OBVIOUS
  <2>. QED BY <1>1, <1>2, <2>2, <2>3
<1>. QED BY <1>2, <1>3 DEF x, q

(* Sums of counts are counts.                                              *)
LEMMA CountsAddUp ==
    ASSUME NEW f, NEW m \in Nat, NEW n \in Nat, \A k \in m .. n : f[k] \in Nat
    PROVE  SumFunctionOnSet(f, m .. n) \in Nat
<1>1. IsFiniteSet(m .. n) /\ \A k \in m .. n : f[k] \in Int
  BY FS_Interval
<1>. QED BY <1>1, SumTyped

(* Neither sum of the chart rises with a tick that brings no block.        *)
Weighted(buckets) == [k \in 1 .. Buckets |-> buckets[k] * weight(k)]

LEMMA RatesFall ==
    ASSUME NEW ages, IsFiniteSet(DOMAIN ages), \A i \in DOMAIN ages : ages[i] \in Int,
           NEW phase \in 0 .. Minute - 1,
           \A i \in DOMAIN ages : offsetMin(ages[i], phase) >= 0
    PROVE  LET now == blocksPerMinute(ages, phase)
               next == blocksPerMinute(Aged(ages), (phase + 1) % Minute)
           IN  /\ SumFunctionOnSet(now, 1 .. Buckets) \in Nat
               /\ SumFunctionOnSet(next, 1 .. Buckets) \in Nat
               /\ SumFunctionOnSet(next, 1 .. Buckets) <= SumFunctionOnSet(now, 1 .. Buckets)
               /\ SumFunctionOnSet(Weighted(now), 1 .. Buckets) \in Nat
               /\ SumFunctionOnSet(Weighted(next), 1 .. Buckets) \in Nat
               /\ SumFunctionOnSet(Weighted(next), 1 .. Buckets)
                     <= SumFunctionOnSet(Weighted(now), 1 .. Buckets)
<1> DEFINE now == blocksPerMinute(ages, phase)
           next == blocksPerMinute(Aged(ages), (phase + 1) % Minute)
<1>0. Buckets \in Nat \ {0}
  BY ExplorerAssumption
<1>1. IsFiniteSet(DOMAIN Aged(ages))
  BY DEF Aged
<1>2. \A k \in 1 .. Buckets : now[k] \in Nat /\ next[k] \in Nat
  BY <1>1, BucketsCount
<1>3. CASE phase + 1 # Minute
  <2>1. next = now
    BY <1>3, BucketsShift
  <2> HIDE DEF now, next
  <2>2. \A k \in 1 .. Buckets : Weighted(now)[k] \in Nat
    <3> SUFFICES ASSUME NEW k \in 1 .. Buckets PROVE now[k] * weight(k) \in Nat
      BY DEF Weighted
    <3>1. now[k] \in Nat /\ weight(k) \in Nat
      BY <1>2, WeightsRise
    <3>. QED BY <3>1
  <2>3. /\ SumFunctionOnSet(now, 1 .. Buckets) \in Nat
        /\ SumFunctionOnSet(Weighted(now), 1 .. Buckets) \in Nat
    BY <1>0, <1>2, <2>2, CountsAddUp
  <2>. QED BY <2>1, <2>3 DEF now, next
<1>4. CASE phase + 1 = Minute
  <2>1. /\ \A k \in 1 .. Buckets - 1 : next[k] = now[k + 1]
        /\ next[Buckets] = 0
    BY <1>4, BucketsShift
  <2> HIDE DEF now, next
  <2>2. ASSUME NEW k \in 1 .. Buckets
        PROVE  /\ Weighted(now)[k] \in Nat /\ Weighted(next)[k] \in Nat
               /\ k < Buckets => Weighted(next)[k] <= Weighted(now)[k + 1]
               /\ k = Buckets => Weighted(next)[k] = 0
    <3>1. /\ Weighted(now)[k] = now[k] * weight(k)
          /\ Weighted(next)[k] = next[k] * weight(k)
      BY DEF Weighted
    <3>2. now[k] \in Nat /\ next[k] \in Nat /\ weight(k) \in Nat
      BY <1>2, WeightsRise
    <3>3. ASSUME k < Buckets PROVE Weighted(next)[k] <= Weighted(now)[k + 1]
      <4>1. k \in 1 .. Buckets - 1 /\ k + 1 \in 1 .. Buckets
        BY <3>3, <1>0
      <4>2. Weighted(now)[k + 1] = now[k + 1] * weight(k + 1)
        BY <4>1 DEF Weighted
      <4>3. /\ next[k] = now[k + 1] /\ weight(k) <= weight(k + 1)
            /\ weight(k + 1) \in Nat
        BY <2>1, <4>1, WeightsRise
      <4>4. next[k] * weight(k) <= next[k] * weight(k + 1)
        BY <3>2, <4>3
      <4>. QED BY <3>1, <4>2, <4>3, <4>4
    <3>4. ASSUME k = Buckets PROVE Weighted(next)[k] = 0
      BY <2>1, <3>1, <3>2, <3>4
    <3>5. now[k] * weight(k) \in Nat /\ next[k] * weight(k) \in Nat
      BY <3>2
    <3>. QED BY <3>1, <3>3, <3>4, <3>5
  <2>3. \A k \in 1 .. Buckets : k < Buckets => next[k] <= now[k + 1]
    <3> SUFFICES ASSUME NEW k \in 1 .. Buckets, k < Buckets PROVE next[k] <= now[k + 1]
      OBVIOUS
    <3>1. k \in 1 .. Buckets - 1
      BY <1>0
    <3>2. next[k] = now[k + 1] /\ next[k] \in Nat
      BY <1>2, <2>1, <3>1
    <3>. QED BY <3>2
  <2>4. \A k \in 1 .. Buckets : k = Buckets => next[k] = 0
    BY <2>1
  <2>5. SumFunctionOnSet(next, 1 .. Buckets) <= SumFunctionOnSet(now, 1 .. Buckets)
    BY <1>0, <1>2, <2>3, <2>4, ShiftedSum
  <2>6. SumFunctionOnSet(Weighted(next), 1 .. Buckets)
          <= SumFunctionOnSet(Weighted(now), 1 .. Buckets)
    BY <1>0, <2>2, ShiftedSum
  <2>7. /\ SumFunctionOnSet(now, 1 .. Buckets) \in Nat
        /\ SumFunctionOnSet(next, 1 .. Buckets) \in Nat
    BY <1>0, <1>2, CountsAddUp
  <2>8. /\ SumFunctionOnSet(Weighted(now), 1 .. Buckets) \in Nat
        /\ SumFunctionOnSet(Weighted(next), 1 .. Buckets) \in Nat
    BY <1>0, <2>2, CountsAddUp
  <2>. QED BY <2>5, <2>6, <2>7, <2>8 DEF now, next
<1>. QED BY <1>3, <1>4

(* A tick of the chart, for any number of blocks of any ages, at any phase *)
(* of the minute and with any target, none included: the buckets shift, the*)
(* rates do not rise without a block, and a trend is no fall by more than  *)
(* all there was (rpc.ts:292-349).                                         *)
THEOREM EveryTickIsStable ==
    ASSUME NEW ages, IsFiniteSet(DOMAIN ages), \A i \in DOMAIN ages : ages[i] \in Int,
           NEW phase \in 0 .. Minute - 1, NEW target \in Nat
    PROVE  Tick(ages, phase, target)
<1> DEFINE after == (phase + 1) % Minute
           nowSeries == fetchHashrateSeries(ages, phase, target)
           nextSeries == fetchHashrateSeries(Aged(ages), after, target)
           now == blocksPerMinute(ages, phase)
           next == blocksPerMinute(Aged(ages), after)
           half == Buckets \div 2
           firstHalf == SumFunctionOnSet(next, 1 .. half) * (Buckets - half)
           secondHalf == SumFunctionOnSet(next, half + 1 .. Buckets) * half
<1>0. Buckets \in Nat \ {0} /\ half \in Nat /\ half <= Buckets
  BY ExplorerAssumption
<1>1. IsFiniteSet(DOMAIN Aged(ages))
  BY DEF Aged
<1>2. \A k \in 1 .. Buckets : next[k] \in Nat
  BY <1>1, BucketsCount
<1>3. \A k \in 1 .. Buckets - 1 : next[k] = now[IF phase + 1 = Minute THEN k + 1 ELSE k]
  BY BucketsShift
<1>4. nextSeries.trendPct >= -100
  <2>1. nextSeries.trendPct = IF firstHalf > 0
                              THEN (100 * (secondHalf - firstHalf)) \div firstHalf ELSE 0
    BY DEF fetchHashrateSeries
  <2> HIDE DEF next, half
  <2>2. /\ SumFunctionOnSet(next, 1 .. half) \in Nat
        /\ SumFunctionOnSet(next, half + 1 .. Buckets) \in Nat
    <3>1. \A k \in 1 .. half : next[k] \in Nat
      BY <1>0, <1>2
    <3>2. \A k \in half + 1 .. Buckets : next[k] \in Nat
      BY <1>0, <1>2
    <3>. QED BY <1>0, <3>1, <3>2, CountsAddUp
  <2>3. firstHalf \in Nat /\ secondHalf \in Nat
    BY <1>0, <2>2
  <2> HIDE DEF firstHalf, secondHalf, nextSeries
  <2>. QED BY <2>1, <2>3, TrendBounded
<1>5. ASSUME \A i \in DOMAIN ages : offsetMin(ages[i], phase) >= 0
      PROVE  /\ nextSeries.estimatedHps <= nowSeries.estimatedHps
             /\ nextSeries.averageHps <= nowSeries.averageHps
  <2>1. /\ nowSeries.estimatedHps =
              estimateNetworkHashrate(SumFunctionOnSet(Weighted(now), 1 .. Buckets), target)
        /\ nextSeries.estimatedHps =
              estimateNetworkHashrate(SumFunctionOnSet(Weighted(next), 1 .. Buckets), target)
        /\ nowSeries.averageHps =
              estimateNetworkHashrate(SumFunctionOnSet(now, 1 .. Buckets), target)
        /\ nextSeries.averageHps =
              estimateNetworkHashrate(SumFunctionOnSet(next, 1 .. Buckets), target)
    BY DEF fetchHashrateSeries, Weighted
  <2>2. /\ SumFunctionOnSet(now, 1 .. Buckets) \in Nat
        /\ SumFunctionOnSet(next, 1 .. Buckets) \in Nat
        /\ SumFunctionOnSet(next, 1 .. Buckets) <= SumFunctionOnSet(now, 1 .. Buckets)
        /\ SumFunctionOnSet(Weighted(now), 1 .. Buckets) \in Nat
        /\ SumFunctionOnSet(Weighted(next), 1 .. Buckets) \in Nat
        /\ SumFunctionOnSet(Weighted(next), 1 .. Buckets)
              <= SumFunctionOnSet(Weighted(now), 1 .. Buckets)
    BY <1>5, RatesFall
  <2> HIDE DEF now, next, nowSeries, nextSeries
  <2>. QED BY <2>1, <2>2, EstimateMonotonic
<1>6. /\ nowSeries.blocksPerMinute = now
      /\ nextSeries.blocksPerMinute = next
  BY DEF fetchHashrateSeries
<1>7. [i \in DOMAIN ages |-> ages[i] + 1] = Aged(ages)
  BY DEF Aged
<1> HIDE DEF now, next, nowSeries, nextSeries
<1>8. /\ \A k \in 1 .. Buckets - 1 :
            nextSeries.blocksPerMinute[k] =
               nowSeries.blocksPerMinute[IF phase + 1 = Minute THEN k + 1 ELSE k]
      /\ (\A i \in DOMAIN ages : offsetMin(ages[i], phase) >= 0) =>
            /\ nextSeries.estimatedHps <= nowSeries.estimatedHps
            /\ nextSeries.averageHps <= nowSeries.averageHps
            /\ nextSeries.trendPct >= -100
  BY <1>3, <1>4, <1>5, <1>6
<1>. QED BY <1>7, <1>8 DEF Tick, nowSeries, nextSeries

(* The chart that the explorer shows is stable, at any length of a minute  *)
(* and of the window (rpc.ts:292-349).                                     *)
THEOREM ChartStaysStable == Spec => []ChartIsStable
<1>1. TicksAreStable
  <2> SUFFICES ASSUME NEW a \in 0 .. (Buckets + 1) * Minute,
                      NEW b \in 0 .. (Buckets + 1) * Minute,
                      NEW phase \in 0 .. Minute - 1, NEW target \in {0, 2}
               PROVE  Tick(<<a, b>>, phase, target)
    BY DEF TicksAreStable
  <2> DEFINE ages == <<a, b>>
  <2>1. IsFiniteSet(DOMAIN ages)
    <3>1. ages \in Seq(Int)
      OBVIOUS
    <3> HIDE DEF ages
    <3>2. DOMAIN ages = 1 .. Len(ages) /\ Len(ages) \in Nat
      BY <3>1
    <3>. QED BY <3>2, FS_Interval
  <2>2. \A i \in DOMAIN ages : ages[i] \in Int
    OBVIOUS
  <2> HIDE DEF ages
  <2>3. Tick(ages, phase, target)
    BY <2>1, <2>2, EveryTickIsStable
  <2>. QED BY <2>3 DEF ages
<1>2. ChartIsStable
  BY <1>1 DEF ChartIsStable
<1>. QED BY <1>2, PTL

-----------------------------------------------------------------------------
(* The web miner.                                                          *)

Places == {"new", "fetch", "sleep", "solve", "hash", "prepare", "build", "sign",
           "send", "confirm", "ended", "hung"}

(* The inductive invariant: LastWords, and only a stopped session counts.  *)
WebInv ==
    /\ loop \in [Sessions -> Places] /\ stopped \in [Sessions -> BOOLEAN]
    /\ late \in [Sessions -> {0, 1}]
    /\ \A s \in Sessions :
          late[s] = 1 => stopped[s] /\ loop[s] \in {"confirm", "sleep", "ended"}

(* No session, nothing sent.                                               *)
LEMMA WebStart == MInit => WebInv
  BY DEF MInit, WebInv, Places

(* What a step of a loop may do, seen from outside: it moves, from `send`  *)
(* to `confirm` only, and from there to the top, where a stopped loop ends,*)
(* or to sleep.                                                            *)
LEMMA WebLoopMoves ==
    ASSUME WebInv, NEW s \in Sessions, Loop(s)
    PROVE  /\ \E to \in Places :
                 /\ loop' = [loop EXCEPT ![s] = to]
                 /\ to = "confirm" => loop[s] = "send"
                 /\ stopped[s] /\ loop[s] \in {"confirm", "sleep", "ended"}
                       => loop[s] # "ended" /\ to \in {"sleep", "ended"}
           /\ late' = [late EXCEPT ![s] =
                  IF /\ stopped[s] /\ @ < MaxSent
                     /\ loop[s] = "send" /\ loop'[s] = "confirm"
                  THEN @ + 1 ELSE @]
           /\ stopped' = stopped
  <1>1. Top(s) \in {"ended", "fetch"} /\ (stopped[s] => Top(s) = "ended")
    BY DEF Top
  <1>2. CASE Fetched(s)
    BY <1>1, <1>2 DEF Loop, Fetched, fetchConfig, Goto, Places
  <1>3. CASE Sleep(s)
    BY <1>1, <1>3 DEF Loop, Sleep, Goto, Places
  <1>4. CASE Answered(s)
    BY <1>1, <1>4 DEF Loop, Answered, Replies, Goto, Places
  <1>5. CASE ScriptFails(s) \/ Hashed(s)
    BY <1>1, <1>5 DEF Loop, ScriptFails, Hashed, Goto, Places
  <1>6. CASE Submission(s)
    <2>1. CASE \/ detectTokenProgram(s) \/ buildMineTx(s)
               \/ Signed(s) \/ Sent(s)
      BY <2>1 DEF Loop, detectTokenProgram, buildMineTx, Signed, Sent,
                  Goto, Places, WebInv
    <2>2. CASE SubmitFails(s)
      BY <2>2 DEF Loop, SubmitFails, Goto, Places
    <2>3. CASE Confirmed(s)
      BY <1>1, <2>3 DEF Loop, Confirmed, Goto, Places
    <2> QED
      BY <1>6, <2>1, <2>2, <2>3 DEF Submission
  <1> QED
    BY <1>2, <1>3, <1>4, <1>5, <1>6 DEF Loop

(* Every step keeps the invariant.                                         *)
LEMMA WebStep == WebInv /\ [MNext]_mvars => WebInv'
  <1> SUFFICES ASSUME WebInv, [MNext]_mvars PROVE WebInv'
    OBVIOUS
  <1>1. CASE UNCHANGED mvars \/ Connect \/ Refresh
    BY <1>1 DEF WebInv, mvars, Connect, Refresh
  <1>2. CASE startMining
    <2>1. PICK s \in Sessions : /\ loop[s] = "new"
                                 /\ loop' = [loop EXCEPT ![s] = "fetch"]
      BY <1>2 DEF startMining
    <2>2. UNCHANGED <<stopped, late>>
      BY <1>2 DEF startMining
    <2> QED
      BY <2>1, <2>2 DEF WebInv, Places
  <1>3. CASE stopMining
    <2>1. /\ stopped' = [stopped EXCEPT ![handle] = TRUE] /\ late' = late
          /\ loop' = [loop EXCEPT ![handle] = IF @ = "solve" THEN "hung" ELSE @]
      BY <1>3 DEF stopMining, stop
    <2>2. /\ loop' \in [Sessions -> Places] /\ stopped' \in [Sessions -> BOOLEAN]
          /\ \A s \in Sessions : /\ stopped[s] => stopped'[s]
                                 /\ loop[s] # "solve" => loop'[s] = loop[s]
      BY <2>1 DEF WebInv, Places
    <2> QED
      BY <2>1, <2>2 DEF WebInv
  <1>4. ASSUME NEW s \in Sessions, Loop(s)
        PROVE  WebInv'
    <2>1. PICK to \in Places :
            /\ loop' = [loop EXCEPT ![s] = to]
            /\ to = "confirm" => loop[s] = "send"
            /\ stopped[s] /\ loop[s] \in {"confirm", "sleep", "ended"}
                  => loop[s] # "ended" /\ to \in {"sleep", "ended"}
      BY <1>4, WebLoopMoves
    <2>2. /\ stopped' = stopped
          /\ late' = [late EXCEPT ![s] =
                 IF /\ stopped[s] /\ @ < MaxSent
                    /\ loop[s] = "send" /\ loop'[s] = "confirm"
                 THEN @ + 1 ELSE @]
      BY <1>4, WebLoopMoves
    <2>3. loop' \in [Sessions -> Places] /\ loop'[s] = to
          /\ \A x \in Sessions \ {s} : loop'[x] = loop[x] /\ late'[x] = late[x]
      BY <2>1, <2>2 DEF WebInv
    <2>4. late[s] \in {0, 1} /\ (loop[s] = "send" => late[s] = 0)
      BY DEF WebInv
    <2>5. late'[s] \in {0, 1} /\ (late'[s] = 1 =>
                stopped[s] /\ to \in {"confirm", "sleep", "ended"})
      <3>1. CASE late[s] = 1
        <4>1. late'[s] = 1
          BY <2>2, <2>4, <3>1 DEF WebInv
        <4>2. stopped[s] /\ loop[s] \in {"confirm", "sleep", "ended"}
          BY <3>1 DEF WebInv
        <4> QED
          BY <2>1, <4>1, <4>2
      <3>2. CASE late[s] = 0 /\ stopped[s] /\ loop[s] = "send" /\ to = "confirm"
        <4>1. late'[s] \in {0, 1}
          BY <2>2, <2>3, <3>2 DEF WebInv
        <4> QED
          BY <3>2, <4>1
      <3>3. CASE late[s] = 0 /\ ~(stopped[s] /\ loop[s] = "send" /\ to = "confirm")
        BY <2>2, <2>3, <3>3 DEF WebInv
      <3> QED
        BY <2>4, <3>1, <3>2, <3>3
    <2>6. late' \in [Sessions -> {0, 1}]
      BY <2>2, <2>3, <2>5 DEF WebInv
    <2> QED
      BY <2>2, <2>3, <2>5, <2>6 DEF WebInv
  <1> QED
    BY <1>1, <1>2, <1>3, <1>4 DEF MNext

(* A session that was stopped sends at most one more transaction and       *)
(* starts no further round (miner.ts:45-52, 74-179).                       *)
THEOREM WebEndsSoon == MSpec => []LastWords
  <1>1. WebInv => LastWords
    BY DEF WebInv, LastWords
  <1>2. WebInv /\ [MNext]_mvars => WebInv'
    BY WebStep
  <1> QED
    BY <1>1, <1>2, WebStart, PTL DEF MSpec

-----------------------------------------------------------------------------
(* The GPU miner.                                                          *)

(* The last poll returned nothing, a closed program, or the round that the *)
(* farm was last fed; and when the loop comes to the watchdog and the hits,*)
(* not the second.                                                         *)
GpuInv ==
    /\ onchain \in {None, 0, current_height}
    /\ main_loop \in {"watch", "drain"} => onchain \in {None, current_height}

LEMMA GpuStart == GInit => GpuInv
BY DEF GInit, GpuInv

LEMMA GpuStep == GpuInv /\ [GNext]_gvars => GpuInv'
<1> SUFFICES ASSUME GpuInv, [GNext]_gvars PROVE GpuInv'
  OBVIOUS
<1> USE DEF GpuInv, seen
<1>1. CASE UNCHANGED gvars
  BY <1>1 DEF gvars
<1>2. CASE StartupFails \/ Startup \/ Watch \/ Drained \/ Drop \/ Submit
  BY <1>2 DEF StartupFails, Startup, Watch, Drained, Drop, Submit
<1>3. CASE PollFails \/ PollNothing \/ PollClosed \/ PollRound \/ PollLater
  BY <1>3 DEF PollFails, PollNothing, PollClosed, PollRound, PollLater
<1>4. CASE \/ Interrupt \/ OthersMove \/ Executes
           \/ \E e \in Endpoints : CatchUp(e)
  BY <1>4 DEF Interrupt, OthersMove, Executes, CatchUp
<1>5. CASE \E w \in Workers : Worker(w)
  BY <1>5 DEF Worker, TakeJob, Kernel, CheckGeneration, Put
<1>. QED BY <1>1, <1>2, <1>3, <1>4, <1>5 DEF GNext, MainLoop

(* What is sent solves the round that the last poll returned, although the *)
(* queue holds hits of other rounds and endpoints lead back to earlier ones*)
(* (miner.py:189-345), for any number of devices, endpoints, rounds and    *)
(* hits.                                                                   *)
THEOREM GpuSendsCurrentWork == GSpec => SendsCurrentWork
<1>1. GpuInv /\ [GNext]_gvars => [sent' \ sent \subseteq {onchain}]_gvars
  <2> SUFFICES ASSUME GpuInv, GNext, sent' # sent PROVE sent' \ sent \subseteq {onchain}
    BY DEF gvars, book
  <2>1. Submit
    BY DEF GNext, MainLoop, StartupFails, Startup, Watch, Drained,
           Drop, PollFails, PollNothing, PollClosed, PollRound, PollLater,
           Interrupt, OthersMove, Executes, CatchUp, Worker, TakeJob,
           Kernel, CheckGeneration, Put, book
  <2>. QED BY <2>1 DEF Submit, Current, send_mine_tx, GpuInv
<1>. QED BY <1>1, GpuStart, GpuStep, PTL DEF GSpec, SendsCurrentWork

=============================================================================
