------------------------------ MODULE MCEquium ------------------------------
(* A model-checking instance of Equium and of the bytes of its target; the *)
(* cfg file gives the constants.                                           *)
EXTENDS Target

(* The unix clock of one slot: a step back, a normal slot, a slow one and  *)
(* one longer than a whole retarget window.                                *)
ClockSteps == {-1, 1, 3, 9}

=============================================================================
