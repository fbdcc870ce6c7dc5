----------------------------- MODULE MCOffsets -----------------------------
(* Small instances of Offsets for TLC. *)
EXTENDS Offsets

CONSTANTS p1, p2

TwoProcesses == {p1, p2}
=============================================================================
