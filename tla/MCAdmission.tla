---------------------------- MODULE MCAdmission ----------------------------
(* A small instance of Admission for TLC. *)
EXTENDS Admission, TLC

CONSTANTS p1, p2

TwoProcesses == {p1, p2}

Symmetry == Permutations(Processes)
=============================================================================
