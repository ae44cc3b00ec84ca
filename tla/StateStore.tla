------------------------------ MODULE StateStore ------------------------------
(***************************************************************************)
(* The committed and trial states of a nonlinear analysis                  *)
(* (nonlinear/core/stateStore.js).  A store is a value: every operation    *)
(* returns a new one.  Of a state we keep the time it is for and what the  *)
(* analyses tell apart, of an event its number and its time; the content   *)
(* hashes stand for the content itself.  No operation changes domainHash,  *)
(* which is left out.                                                      *)
(***************************************************************************)
EXTENDS Naturals, Sequences

CONSTANT NoTrial \* the trial of a store between two steps

State(time, dynamic) == [time |-> time, dynamic |-> dynamic]

CreateStore(committed) ==
  [revision |-> 0, sequence |-> 0, committed |-> committed, trial |-> NoTrial, log |-> <<>>]

BeginStep(store, time) == [store EXCEPT !.trial = [store.committed EXCEPT !.time = time]]

Events(store, count) ==
  [i \in 1 .. count |-> [sequence |-> store.sequence + i, time |-> store.trial.time]]

CommitStep(store, count) ==
  [revision |-> store.revision + 1, sequence |-> store.sequence + count,
   committed |-> store.trial, trial |-> NoTrial, log |-> store.log \o Events(store, count)]

\* mutant: the event numbers are not part of the checkpoint
Checkpoint_NoSequence(store) == [store EXCEPT !.trial = NoTrial, !.sequence = 0]
\* A checkpoint holds everything of a store but its trial, so that restoring it and
\* taking it again give the same.
Checkpoint(store) == [store EXCEPT !.trial = NoTrial]
=============================================================================
