------------------------------- MODULE Cores --------------------------------
(***************************************************************************)
(* How many workers mine: the picker of the website's dashboard            *)
(* (src/clients/website/src/components/MineDashboard.tsx), its copy in     *)
(* localStorage, and what the engine makes of it (lib/miner-engine.ts).    *)
(***************************************************************************)
EXTENDS Integers, FiniteSetsExt

CONSTANTS
    hardwareConcurrency,   \* logical processors, 4 if the browser does not say
    Stored,                \* bound: counts that localStorage may hold at first
    MAX_OVERRIDE,          \* 32
    DEFAULT_MAX_WORKERS,   \* 8
    None                   \* null

ASSUME CoresAssumption ==
    /\ hardwareConcurrency \in Nat \ {0} /\ Stored \subseteq Nat /\ None \notin Nat
    /\ MAX_OVERRIDE \in Nat \ {0} /\ DEFAULT_MAX_WORKERS \in Nat \ {0}

VARIABLES
    max, n,    \* what the picker shows: "n of max available"; nothing while max = 0
    kept       \* localStorage["equium:browser-workers"]

picker == <<max, n, kept>>

CInit == max = 0 /\ n = 1 /\ kept \in Stored \union {None}

useCpuCount == hardwareConcurrency

(* All processors but one, unless an acceptable count is stored.           *)
initial(cpus) ==
    IF kept # None /\ kept >= 1 THEN Min({kept, cpus}) ELSE Max({1, cpus - 1})

(* Mutant: what is stored is taken as it is.                               *)
useWorkerCount_unclamped ==
    /\ max = 0
    /\ max' = useCpuCount
    /\ n' = IF kept # None /\ kept >= 1 THEN kept ELSE Max({1, useCpuCount - 1})
    /\ UNCHANGED kept

(* The effects after the first render, before any click.                   *)
useWorkerCount ==
    /\ max = 0
    /\ max' = useCpuCount
    /\ n' = initial(useCpuCount)
    /\ UNCHANGED kept

(* That localStorage may be full is left out: the count is then forgotten. *)
set(next) ==
    LET clamped == Max({1, Min({IF max = 0 THEN next ELSE max, next})})
    IN  n' = clamped /\ kept' = clamped /\ UNCHANGED max

(* The two buttons.                                                        *)
CoresPicker(disabled) ==
    /\ max # 0 /\ ~disabled
    /\ \/ n > 1 /\ set(n - 1)
       \/ n < max /\ set(n + 1)

(* The page is loaded anew.                                                *)
ReloadPicker == max' = 0 /\ n' = 1 /\ UNCHANGED kept

pickWorkerCount(override) ==
    IF override > 0 THEN Min({override, MAX_OVERRIDE})
    ELSE Max({1, Min({hardwareConcurrency - 1, DEFAULT_MAX_WORKERS})})

=============================================================================
