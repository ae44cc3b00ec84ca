------------------------------ MODULE MCNlthRun ------------------------------
(* Instance of NlthRun for TLC. *)
EXTENDS NlthRun
=============================================================================
