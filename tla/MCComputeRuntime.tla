--------------------------- MODULE MCComputeRuntime ---------------------------
(***************************************************************************)
(* A finite instance of ComputeRuntime: two calls, two cancel              *)
(* requests and two run ids, so that a run id is used again, a cancel      *)
(* crosses the end of its run and meets the next run.                      *)
(***************************************************************************)
EXTENDS ComputeRuntime

CONSTANTS q1, q2, c1, c2, r1, r2

TwoStarts == {q1, q2}
TwoCancels == {c1, c2}
TwoRuns == {r1, r2}
=============================================================================
