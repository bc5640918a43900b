------------------------------ MODULE Emission ------------------------------
(***************************************************************************)
(* What the Equium program promises about issuance, without accounts,      *)
(* clocks, proofs of work or administrators: rounds close one at a time,   *)
(* a round pays the whole reward of its epoch or nothing at all, a reward  *)
(* that was not paid is gone, and the reward halves once per epoch.        *)
(***************************************************************************)
EXTENDS Integers

CONSTANTS Reward,     \* the reward of the first epoch
          Epoch       \* rounds in an epoch

VARIABLES height,       \* rounds closed so far
          reward,       \* what the open round pays
          roundsLeft,   \* rounds of this epoch that are not closed
          issued        \* what all rounds so far have paid

evars == <<height, reward, roundsLeft, issued>>

EInit == height = 0 /\ reward = Reward /\ roundsLeft = Epoch /\ issued = 0

CloseRound ==
    /\ height' = height + 1
    /\ IF roundsLeft = 1
       THEN reward' = reward \div 2 /\ roundsLeft' = Epoch
       ELSE reward' = reward /\ roundsLeft' = roundsLeft - 1

PayRound  == reward > 0 /\ issued' = issued + reward /\ CloseRound
SkipRound == issued' = issued /\ CloseRound

ENext == PayRound \/ SkipRound

ESpec == EInit /\ [][ENext]_evars

(* Issuance never exceeds twice the first epoch, however many rounds are   *)
(* paid: the supply cap of state.rs (MINEABLE_BASE).                       *)
IssuedBounded == issued <= 2 * Epoch * Reward

(* What makes it so: at any time, the rest of this epoch at its reward and *)
(* one more such epoch for all those to come still fit under that bound.   *)
Budget == issued + reward * roundsLeft + reward * Epoch <= 2 * Epoch * Reward

ETypeOK == /\ height \in Nat /\ reward \in Nat /\ issued \in Nat
           /\ roundsLeft \in 1..Epoch

=============================================================================
