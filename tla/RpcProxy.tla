------------------------------ MODULE RpcProxy ------------------------------
(***************************************************************************)
(* The website's RPC proxy (src/clients/website/src/app/api/rpc/route.ts): *)
(* a sliding-window limit per client address in front of a paid endpoint.  *)
(* Time is counted in ticks; a time stamp is its age, which stops counting *)
(* where the limiter no longer looks.                                      *)
(***************************************************************************)
EXTENDS Naturals, Sequences

CONSTANTS
    IPs,      \* client addresses, first of x-forwarded-for
    Window,   \* RATE_WINDOW_MS
    MaxReqs   \* RATE_MAX_REQS

ASSUME ProxyAssumption == Window \in Nat \ {0} /\ MaxReqs \in Nat \ {0}

VARIABLES
    ipBuckets,  \* per address: ages of the granted requests kept
    granted     \* history: ages of all requests granted in the last Window

pvars == <<ipBuckets, granted>>

PInit ==
    /\ ipBuckets = [ip \in IPs |-> <<>>]
    /\ granted = [ip \in IPs |-> <<>>]

(* arr.filter, entry by entry.                                             *)
Fresh(ages) ==
    LET kept[n \in 0 .. Len(ages)] ==
            IF n = 0 THEN <<>>
            ELSE IF ages[n] < Window THEN Append(kept[n - 1], ages[n]) ELSE kept[n - 1]
    IN  kept[Len(ages)]

Older(ages) == [i \in DOMAIN ages |-> IF ages[i] < Window THEN ages[i] + 1 ELSE Window]

(* Mutant: a refused request takes the place of the oldest granted one.    *)
rateLimit_counting_refused(ip) ==
    LET fresh == Fresh(ipBuckets[ip]) IN
    IF Len(fresh) >= MaxReqs
    THEN [ok |-> FALSE, bucket |-> Append(Tail(fresh), 0)]
    ELSE [ok |-> TRUE, bucket |-> Append(fresh, 0)]

(* Mutant: the bucket starts again when its oldest entry leaves the window.*)
rateLimit_restarting(ip) ==
    LET fresh == Fresh(ipBuckets[ip]) IN
    IF Len(fresh) >= MaxReqs THEN [ok |-> FALSE, bucket |-> fresh]
    ELSE [ok |-> TRUE,
          bucket |-> IF fresh = ipBuckets[ip] THEN Append(fresh, 0) ELSE <<0>>]

rateLimit(ip) ==
    LET fresh == Fresh(ipBuckets[ip]) IN
    IF Len(fresh) >= MaxReqs THEN [ok |-> FALSE, bucket |-> fresh]
    ELSE [ok |-> TRUE, bucket |-> Append(fresh, 0)]

(* POST.  What it answers after the limit (400, 403, 502 or what upstream  *)
(* says) changes nothing here: a batch, or a request that is refused for   *)
(* its method, counts as one request like any other.                       *)
Post(ip) ==
    LET r == rateLimit(ip) IN
    /\ ipBuckets' = [ipBuckets EXCEPT ![ip] = r.bucket]
    /\ granted' = [granted EXCEPT ![ip] = IF r.ok THEN Append(@, 0) ELSE @]

ProxyTick ==
    /\ ipBuckets' = [ip \in IPs |-> Older(ipBuckets[ip])]
    /\ granted' = [ip \in IPs |-> Fresh(Older(granted[ip]))]

-----------------------------------------------------------------------------

(* "Hard limits (per IP, in-memory) keep one user from burning the whole   *)
(* quota" (route.ts:7): no address is granted more than MaxReqs requests   *)
(* in any stretch of time of one Window, wherever the stretch begins.      *)
WindowHolds == \A ip \in IPs : Len(granted[ip]) <= MaxReqs

(* However often it asks and whatever it asks for, an address that goes on *)
(* asking is served again and again: refusals do not prolong its wait.     *)
ServedAgain == \A ip \in IPs : []<><<Post(ip) /\ rateLimit(ip).ok>>_pvars

=============================================================================
