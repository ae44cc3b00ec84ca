---------------------------- MODULE MCProjectStore ----------------------------
(***************************************************************************)
(* Finite instances of ProjectStore: three requests on one         *)
(* project, two models, two or three revisions.                            *)
(***************************************************************************)
EXTENDS ProjectStore

CONSTANTS h1, h2, h3, c1, c2

ThreeHandlers == {h1, h2, h3}
TwoContents == {c1, c2}
MCExpected == {0}
NoExpected == {}
=============================================================================
