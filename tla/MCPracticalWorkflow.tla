------------------------- MODULE MCPracticalWorkflow -------------------------
(* Instance of PracticalWorkflow for TLC. *)
EXTENDS PracticalWorkflow, TLC

MCKeys == {Base, After}
MCCallers == {"evaluate", "review"}

\* Requests and the identities of rows are interchangeable.
MCSymmetry == Permutations(Requests) \cup Permutations(Rows)
=============================================================================
