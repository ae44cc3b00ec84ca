---------------------------- MODULE MCDesignInput ----------------------------
(***************************************************************************)
(* Finite instances of DesignInput: two requests, and a model whose rest   *)
(* can be edited, locked, or broken until a request repairs it.            *)
(***************************************************************************)
EXTENDS DesignInput

CONSTANTS p1, p2, r1, r2, v1, v2, plain, edited, approved

OnePage == {p1}
TwoPages == {p1, p2}
MCIds == {r1, r2}
MCInputs == {v1, v2}
TwoOthers == {plain, edited}
MCOthers == {plain, edited, approved}
MCInitial == {[inputs |-> v1, other |-> plain]}
MCInvalid == {[inputs |-> v1, other |-> edited]}
MCLocked == {approved}
NoLocked == {}

\* Pages and request ids are alike, and no property is a liveness property.
Alike == Permutations(Pages) \cup Permutations(Ids)
=============================================================================
