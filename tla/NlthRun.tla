-------------------------------- MODULE NlthRun --------------------------------
(***************************************************************************)
(* A nonlinear time-history run: the adaptive Newmark integration          *)
(* (nonlinear/dynamics/mdofNewmark.js), the run around it                  *)
(* (productionNlth.js), the resident session that follows its boundaries   *)
(* (compute/nonlinear/residentSession.js) and the callbacks of the worker  *)
(* task (nonlinear/runtime/analysisWorker.js, workerCore.js).              *)
(*                                                                         *)
(* integrateToTarget calls itself for the two halves of a rejected step:   *)
(* frames holds its pending calls, the innermost first.  Times are counted *)
(* in ticks that divide all halves.  A step is solved over several awaits, *)
(* at which a cancel may arrive; everything between two awaits is one      *)
(* step.  What the equations give is free.                                 *)
(*                                                                         *)
(* Bounds: Runs, the runs that follow each other on one case.              *)
(***************************************************************************)
EXTENDS StateStore

CONSTANTS EndTime, OutputDt, InitialDt, MinDt, MaxLevel, MaxInternal, Interval, Runs

ASSUME NlthAssumption ==
  /\ EndTime \in Nat /\ MaxLevel \in Nat /\ MaxInternal \in Nat /\ Runs \in Nat
  /\ OutputDt \in Nat \ {0} /\ InitialDt \in Nat \ {0} /\ MinDt \in Nat \ {0}
  /\ Interval \in Nat \ {0}
  /\ NoTrial \notin [time : Nat, dynamic : BOOLEAN]

VARIABLES
  phase,    \* where the run is: between steps, or at one of its awaits
  status,   \* how the last run ended
  asked,    \* run.cancelRequested
  store,    \* the committed boundary of the run
  working,  \* the store of the step that is being solved
  frames,   \* pending calls of integrateToTarget
  internal, \* internalStep
  start,    \* startTime
  rows,     \* times of the output rows of the history
  session,  \* the resident session: its boundary and its canonical checkpoint
  kept,     \* checkpoints that outlive the run
  runs      \* runs started so far

vars == <<phase, status, asked, store, working, frames, internal, start, rows, session, kept, runs>>

NoStore == [revision |-> 0, sequence |-> 0, committed |-> NoTrial, trial |-> NoTrial, log |-> <<>>]
GravityStore == CreateStore(State(0, FALSE)) \* the preloaded state, without dynamic provenance
InitialStore == CreateStore(State(0, TRUE))  \* initializeDynamicState

Time(s) == s.committed.time
Earlier(t, u) == IF t < u THEN t ELSE u
Running == phase # "idle"
NextOutput == Earlier(EndTime, start + Len(rows) * OutputDt)

Init ==
  /\ phase = "idle" /\ status = "none" /\ asked = FALSE
  /\ store = NoStore /\ working = NoStore /\ frames = <<>>
  /\ internal = 0 /\ start = 0 /\ rows = <<>>
  /\ session = [store |-> NoStore, checkpoint |-> NoStore]
  /\ kept = [latest |-> NoStore, final |-> NoStore, recovery |-> NoStore]
  /\ runs = 0
-----------------------------------------------------------------------------
Open(initial, resident) ==
  /\ phase' = "outputs" /\ status' = "none" /\ asked' = FALSE
  /\ store' = initial /\ working' = NoStore /\ frames' = <<>>
  /\ internal' = 0 /\ start' = Time(initial) /\ rows' = <<Time(initial)>>
  /\ session' = [store |-> resident, checkpoint |-> resident]
  /\ kept' = [kept EXCEPT !.final = NoStore, !.recovery = NoStore]
  /\ runs' = runs + 1

Start ==
  /\ ~Running /\ runs < Runs
  /\ Open(InitialStore, GravityStore)

\* A restart never starts over: without the provenance of a dynamic state it is refused.
Resume(checkpoint) ==
  /\ ~Running /\ runs < Runs
  /\ checkpoint # NoStore
  /\ IF checkpoint.committed.dynamic
     THEN Open(checkpoint, checkpoint)
     ELSE /\ status' = "blocked" /\ runs' = runs + 1
          /\ kept' = [kept EXCEPT !.final = NoStore, !.recovery = checkpoint]
          /\ UNCHANGED <<phase, asked, store, working, frames, internal, start, rows, session>>

Cancel ==
  /\ Running /\ ~asked
  /\ asked' = TRUE
  /\ UNCHANGED <<phase, status, store, working, frames, internal, start, rows, session, kept, runs>>

\* The last rows of the history may not fit its memory budget: then the run has failed.
Outcomes(how) == IF how \in {"completed", "cancelled"} THEN {how, "failed"} ELSE {how}

\* finalize of the integration, then of the session: after a failure it keeps its own
\* boundary for a recovery, after a success it takes the checkpoint of the run.
Stop(how, boundary, resident) ==
  /\ phase' = "idle" /\ status' \in Outcomes(how)
  /\ store' = boundary /\ working' = NoStore /\ frames' = <<>>
  /\ session' = [store |-> resident,
                 checkpoint |-> Checkpoint(IF status' = "completed" THEN boundary ELSE resident)]
  /\ kept' = [kept EXCEPT !.final = Checkpoint(boundary),
                          !.recovery = IF status' = "completed" THEN NoStore ELSE Checkpoint(resident)]
-----------------------------------------------------------------------------
(* The loop over the output times. *)

NextInterval ==
  /\ phase = "outputs"
  /\ Time(store) < EndTime /\ ~asked
  /\ frames' = <<[target |-> NextOutput, level |-> 0, dt |-> InitialDt]>>
  /\ phase' = "interval"
  /\ UNCHANGED <<status, asked, store, working, internal, start, rows, session, kept, runs>>

StopCancelled ==
  /\ phase = "outputs"
  /\ Time(store) < EndTime /\ asked
  /\ Stop("cancelled", store, session.store)
  /\ UNCHANGED <<asked, internal, start, rows, runs>>

\* The session takes a checkpoint only if it is at the same boundary.
Follows == Checkpoint(store) = session.store

Complete ==
  /\ phase = "outputs"
  /\ Time(store) >= EndTime
  /\ Stop(IF Follows THEN "completed" ELSE "failed", store, session.store)
  /\ UNCHANGED <<asked, internal, start, rows, runs>>

Retained == BOOLEAN \* whether the history takes another row within its memory budget

\* An output time is reached: its row, and a checkpoint that is posted unless a cancel
\* has been asked for.
Output ==
  /\ phase = "interval" /\ frames = <<>>
  /\ rows' = Append(rows, Time(store))
  /\ \E taken \in Retained :
       IF ~taken \/ (Len(rows) % Interval = 0 /\ ~Follows)
       THEN /\ Stop("failed", store, session.store)
            /\ UNCHANGED <<asked, internal, start, runs>>
       ELSE /\ phase' = "outputs"
            /\ IF Len(rows) % Interval = 0
               THEN /\ session' = [session EXCEPT !.checkpoint = Checkpoint(store)]
                    /\ kept' = IF asked THEN kept ELSE [kept EXCEPT !.latest = Checkpoint(store)]
               ELSE UNCHANGED <<session, kept>>
            /\ UNCHANGED <<status, asked, store, working, frames, internal, start, runs>>
-----------------------------------------------------------------------------
(* integrateToTarget. *)

Top == Head(frames)
StepDt == Earlier(Top.target - Time(store), Top.dt)

Return ==
  /\ phase = "interval" /\ frames # <<>>
  /\ Time(store) >= Top.target
  /\ frames' = Tail(frames)
  /\ UNCHANGED <<phase, status, asked, store, working, internal, start, rows, session, kept, runs>>

StepLimit ==
  /\ phase = "interval" /\ frames # <<>>
  /\ Time(store) < Top.target /\ internal >= MaxInternal
  /\ Stop("failed", store, session.store)
  /\ UNCHANGED <<asked, internal, start, rows, runs>>

BeginSolve ==
  /\ phase = "interval" /\ frames # <<>>
  /\ Time(store) < Top.target /\ internal < MaxInternal
  /\ working' = BeginStep(store, Time(store) + StepDt)
  /\ phase' = "evaluating"
  /\ UNCHANGED <<status, asked, store, frames, internal, start, rows, session, kept, runs>>

\* The residual is small enough, the energies of the step are awaited.  Until then a
\* cancel is looked for at every iteration.
Converge ==
  /\ phase = "evaluating" /\ ~asked
  /\ phase' = "auditing"
  /\ UNCHANGED <<status, asked, store, working, frames, internal, start, rows, session, kept, runs>>

SeeCancel ==
  /\ phase = "evaluating" /\ asked
  /\ Stop("cancelled", store, session.store)
  /\ UNCHANGED <<asked, internal, start, rows, runs>>

\* mutant: the second half ends where the step would have ended
Halve_Short ==
  LET dt == StepDt \div 2 IN
  <<[target |-> Time(store) + dt, level |-> Top.level + 1, dt |-> dt],
    [target |-> Time(store) + 2 * dt, level |-> Top.level + 1, dt |-> dt]>> \o Tail(frames)
\* mutant: the step is tried again as it was
Halve_Again == frames
Halve ==
  LET dt == StepDt \div 2 IN
  <<[target |-> Time(store) + dt, level |-> Top.level + 1, dt |-> dt],
    [target |-> Top.target, level |-> Top.level + 1, dt |-> dt]>> \o Tail(frames)

\* mutant: one level too many
Reject_OneMore ==
  /\ phase \in {"evaluating", "auditing"}
  /\ IF Top.level > MaxLevel \/ StepDt < 2 * MinDt
     THEN /\ Stop("failed", store, session.store)
          /\ UNCHANGED <<asked, internal, start, rows, runs>>
     ELSE /\ phase' = "interval"
          /\ working' = NoStore
          /\ frames' = Halve
          /\ UNCHANGED <<status, asked, store, internal, start, rows, session, kept, runs>>
\* An evaluation, a linear solve, the line search or the energy audit failed.
Reject ==
  /\ phase \in {"evaluating", "auditing"}
  /\ IF Top.level >= MaxLevel \/ StepDt < 2 * MinDt
     THEN /\ Stop("failed", store, session.store)
          /\ UNCHANGED <<asked, internal, start, rows, runs>>
     ELSE /\ phase' = "interval"
          /\ working' = NoStore
          /\ frames' = Halve
          /\ UNCHANGED <<status, asked, store, internal, start, rows, session, kept, runs>>

Audited == BOOLEAN \* whether the session's audit and its arena take the boundary

\* mutant: the session follows after the worker's callback
Accept_SessionLast ==
  LET committed == CommitStep(working, 1) IN
  /\ phase = "auditing"
  /\ internal' = internal + 1
  /\ UNCHANGED <<asked, start, rows, runs>>
  /\ \/ \E recorded \in Retained, audited \in Audited :
          ~(recorded /\ audited) /\ Stop("refused", committed, session.store)
     \/ asked /\ Stop("failed", committed, session.store)
     \/ /\ ~asked
        /\ phase' = "interval"
        /\ store' = committed /\ working' = NoStore
        /\ session' = [session EXCEPT !.store = committed]
        /\ UNCHANGED <<status, frames, kept>>
\* mutant: the worker does not look for a cancel at its boundary
Accept_Unasked ==
  LET committed == CommitStep(working, 1) IN
  /\ phase = "auditing"
  /\ internal' = internal + 1
  /\ UNCHANGED <<asked, start, rows, runs>>
  /\ \/ \E recorded \in Retained, audited \in Audited :
          ~(recorded /\ audited) /\ Stop("refused", committed, session.store)
     \/ /\ phase' = "interval"
        /\ store' = committed /\ working' = NoStore
        /\ session' = [session EXCEPT !.store = committed]
        /\ UNCHANGED <<status, frames, kept>>
\* The step is committed; then the history records it, the session follows, and the
\* worker counts its boundary.  Each of them can end the run, on the new boundary.
Accept ==
  LET committed == CommitStep(working, 1) IN
  /\ phase = "auditing"
  /\ internal' = internal + 1
  /\ UNCHANGED <<asked, start, rows, runs>>
  /\ \/ \E recorded \in Retained, audited \in Audited :
          ~(recorded /\ audited) /\ Stop("refused", committed, session.store)
     \/ asked /\ Stop("failed", committed, committed)
     \/ /\ ~asked
        /\ phase' = "interval"
        /\ store' = committed /\ working' = NoStore
        /\ session' = [session EXCEPT !.store = committed]
        /\ UNCHANGED <<status, frames, kept>>
-----------------------------------------------------------------------------
\* The client terminates a worker that does not answer, or the page is closed.
Crash ==
  /\ Running
  /\ phase' = "idle" /\ status' = "crashed"
  /\ store' = NoStore /\ working' = NoStore /\ frames' = <<>>
  /\ session' = [store |-> NoStore, checkpoint |-> NoStore]
  /\ UNCHANGED <<asked, internal, start, rows, kept, runs>>

Step ==
  \/ NextInterval \/ StopCancelled \/ Complete \/ Output
  \/ Return \/ StepLimit \/ BeginSolve \/ Converge \/ SeeCancel \/ Reject \/ Accept

Next ==
  \/ Start \/ Cancel \/ Crash \/ Step
  \/ \E name \in {"latest", "final", "recovery"} : Resume(kept[name])

\* The run goes on: its iterations are counted, and every await is answered.
Spec == Init /\ [][Next]_vars /\ WF_vars(Step)
-----------------------------------------------------------------------------
States == [time : Nat, dynamic : BOOLEAN]
Stores == [revision : Nat, sequence : Nat, committed : States \cup {NoTrial},
           trial : States \cup {NoTrial}, log : Seq([sequence : Nat, time : Nat])]
Frames == [target : Nat, level : 0 .. MaxLevel, dt : Nat \ {0}]

\* The state has its intended shape.
TypeOK ==
  /\ phase \in {"idle", "outputs", "interval", "evaluating", "auditing"}
  /\ status \in {"none", "completed", "failed", "cancelled", "refused", "crashed", "blocked"}
  /\ asked \in BOOLEAN
  /\ store \in Stores /\ working \in Stores
  /\ frames \in Seq(Frames)
  /\ internal \in Nat /\ start \in Nat /\ runs \in Nat
  /\ rows \in Seq(Nat)
  /\ session \in [store : Stores, checkpoint : Stores]
  /\ kept \in [latest : Stores, final : Stores, recovery : Stores]

OnPath(s) ==
  /\ s.sequence = Len(s.log) /\ s.revision = Len(s.log)
  /\ \A i \in 1 .. Len(s.log) : s.log[i].sequence = i
  /\ \A i, j \in 1 .. Len(s.log) : i < j => s.log[i].time < s.log[j].time
  /\ \A i \in 1 .. Len(s.log) : s.log[i].time <= Time(s)

\* A run, its session and every checkpoint hold one unbroken path: events numbered
\* without a gap, one for each boundary, at increasing times, whatever was rejected,
\* cut back, cancelled, lost and resumed in between.
Trajectory ==
  /\ OnPath(store) /\ OnPath(session.store) /\ OnPath(session.checkpoint)
  /\ \A name \in DOMAIN kept : OnPath(kept[name])

\* The history has its rows at the output times, neither early nor late nor twice,
\* however the steps between them were cut; a completed one reaches the end.
RowsOnTime ==
  /\ \A i \in 1 .. Len(rows) : rows[i] = Earlier(EndTime, start + (i - 1) * OutputDt)
  /\ \A i, j \in 1 .. Len(rows) : i < j => rows[i] < rows[j]
  /\ status = "completed" => rows[Len(rows)] = EndTime

\* What a run that did not complete leaves to resume from is the last boundary it
\* reached; only when the boundary itself was refused it is the one before.
RecoveryMatches ==
  ~Running /\ status \in {"failed", "cancelled", "refused"} =>
    LET final == kept.final.log  recovery == kept.recovery.log IN
    IF status = "refused" THEN recovery = SubSeq(final, 1, Len(final) - 1) ELSE recovery = final

\* Once a cancel is asked for no boundary is left behind: one that is reached anyway
\* ends the run, and the run ends at it.
CancelStops ==
  [][asked /\ Running /\ store'.revision > store.revision => phase' = "idle"]_vars

\* Every run ends, although a step may be rejected and halved at every level.
RunsEnd == Running ~> ~Running
=============================================================================
