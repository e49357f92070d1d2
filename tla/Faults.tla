------------------------------- MODULE Faults -------------------------------
(***************************************************************************)
(* What goes wrong outside the code (a failed statement, a lost message, a *)
(* crash) takes one of the faults a behaviour has.                         *)
(***************************************************************************)
EXTENDS Naturals

CONSTANT MaxFaults   \* bound on faults
VARIABLE faults      \* faults so far

ASSUME FaultsAssumption == MaxFaults \in Nat

Fault == faults < MaxFaults /\ faults' = faults + 1
=============================================================================
