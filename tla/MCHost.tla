------------------------------- MODULE MCHost -------------------------------
(* Instances of HostRuns for TLC. *)
EXTENDS HostRuns

CONSTANTS c1, c2, p1, p2

MCCores    == {c1, c2}
MCImages   == {p1, p2}
Two        == {2}
=============================================================================
