----------------------------- MODULE Difficulty -----------------------------
(***************************************************************************)
(* The difficulty target as a number: what target.rs and the retarget of   *)
(* schedule.rs compute, seen from outside.  A solution counts when its     *)
(* hash is below the target.  Target.tla has the limb arithmetic that the  *)
(* code does instead, and checks that it agrees.                           *)
(***************************************************************************)
EXTENDS Integers

CONSTANTS
    MAX_TARGET,               \* the largest target, 2^256 - 1 in the program
    RETARGET_TARGET_SECONDS   \* how long a retarget window should take

ASSUME DifficultyAssumption ==
    /\ MAX_TARGET \in Nat
    /\ RETARGET_TARGET_SECONDS \in Nat \ {0}

RETARGET_MIN_NUM == 1
RETARGET_MIN_DEN == 2
RETARGET_MAX_NUM == 2
RETARGET_MAX_DEN == 1

hash_under_target(hash, target) == hash < target

scale_target(target, num, den) ==
    LET scaled == (target * num) \div den
    IN  IF scaled > MAX_TARGET THEN MAX_TARGET ELSE scaled

(* Mutant: the damping clamp is left out.                                  *)
next_target_unclamped(target, actual_seconds) ==
    scale_target(target, actual_seconds, RETARGET_TARGET_SECONDS)

next_target(target, actual_seconds) ==
    LET tooFast == \/ actual_seconds = 0
                   \/ actual_seconds * RETARGET_MIN_DEN
                        < RETARGET_TARGET_SECONDS * RETARGET_MIN_NUM
        tooSlow == actual_seconds * RETARGET_MAX_DEN
                        > RETARGET_TARGET_SECONDS * RETARGET_MAX_NUM
    IN  CASE tooFast -> scale_target(target, RETARGET_MIN_NUM, RETARGET_MIN_DEN)
          [] ~tooFast /\ tooSlow ->
                scale_target(target, RETARGET_MAX_NUM, RETARGET_MAX_DEN)
          [] OTHER -> scale_target(target, actual_seconds, RETARGET_TARGET_SECONDS)

=============================================================================
