---------------------------- MODULE MCWorkerLease ----------------------------
(***************************************************************************)
(* A finite instance of WorkerLease: one Node worker and one browser       *)
(* worker.  The pair is enough for every race, because tasks meet only in  *)
(* the budget.                                                             *)
(***************************************************************************)
EXTENDS WorkerLease

CONSTANTS n1, w1

MCOwners == {n1, w1}
MCSizes == {1, 2}
MCWeb == {w1}
=============================================================================
