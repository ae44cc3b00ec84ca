---------------------------- MODULE MCProductJobs ----------------------------
(* Instance of ProductJobs for TLC. *)
EXTENDS ProductJobs

CONSTANTS j1, j2, j3, c1, i1, i2

MCJobs == {j1, j2, j3}
MCCases == {c1}
MCInputs == {i1, i2}
=============================================================================
