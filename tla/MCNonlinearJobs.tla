--------------------------- MODULE MCNonlinearJobs ---------------------------
(***************************************************************************)
(* A finite instance of NonlinearJobs: two jobs and two states of the      *)
(* model.                                                                  *)
(***************************************************************************)
EXTENDS NonlinearJobs

CONSTANTS j1, j2, m1, m2

TwoJobs == {j1, j2}
TwoModels == {m1, m2}
=============================================================================
