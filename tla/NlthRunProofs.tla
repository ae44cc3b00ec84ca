----------------------------- MODULE NlthRunProofs -----------------------------
(***************************************************************************)
(* Proofs about NlthRun.  The inductive invariant says of every store that *)
(* is held that it is a boundary on one path, of the pending calls of      *)
(* integrateToTarget that their targets are nested and end at the next     *)
(* output time, and that the session has the same events as the run.       *)
(***************************************************************************)
EXTENDS NlthRun, SequenceTheorems, TLAPS

USE NlthAssumption

\* A state at rest, reached along one path within the time of the history.
Boundary(s) ==
  s \in Stores /\ OnPath(s) /\ s.committed \in States /\ Time(s) <= EndTime

Stored(s) == s = NoStore \/ Boundary(s)

KeptStores ==
  /\ Stored(store) /\ Stored(session.store) /\ Stored(session.checkpoint)
  /\ Stored(kept.latest) /\ Stored(kept.final) /\ Stored(kept.recovery)

\* What a run relies on between two steps.
RunFits ==
  Running => /\ status = "none"
             /\ Boundary(store) /\ Boundary(session.store)
             /\ session.store.log = store.log

Solving == phase \in {"evaluating", "auditing"}

\* The step that is solved is the one the innermost call asked for.
StepFits ==
  Solving => /\ frames # <<>> /\ Time(store) < Top.target
             /\ working = BeginStep(store, Time(store) + StepDt)

Nested(calls) == \A i, j \in 1 .. Len(calls) : i <= j => calls[i].target <= calls[j].target

\* The calls lead to the next output time and not beyond.
CallsFit ==
  phase \in {"interval", "evaluating", "auditing"} =>
    /\ rows[Len(rows)] < EndTime
    /\ IF frames = <<>> THEN Time(store) = NextOutput
       ELSE /\ frames[Len(frames)].target = NextOutput
            /\ Time(store) <= Top.target
            /\ Nested(frames)

RowsFit ==
  /\ Running => rows # <<>>
  /\ phase = "outputs" => Time(store) = rows[Len(rows)]

IInv ==
  /\ TypeOK /\ KeptStores /\ RunFits /\ StepFits
  /\ CallsFit /\ RowsFit /\ RowsOnTime /\ RecoveryMatches
-----------------------------------------------------------------------------
(* Stores. *)

Event == [sequence : Nat, time : Nat]

LEMMA NoStoreFits == NoStore \in Stores /\ OnPath(NoStore)
<1>1. << >> \in Seq(Event)
  OBVIOUS
<1>2. NoStore \in Stores
  BY <1>1 DEF NoStore, Stores, Event
<1>3. OnPath(NoStore)
  BY DEF NoStore, OnPath
<1> QED BY <1>2, <1>3

LEMMA StoredFits == ASSUME NEW s, Stored(s) PROVE s \in Stores /\ OnPath(s)
BY NoStoreFits DEF Stored, Boundary

LEMMA FirstBoundaries ==
  /\ Boundary(InitialStore) /\ Boundary(GravityStore)
  /\ Time(InitialStore) = 0 /\ InitialStore.log = <<>> /\ GravityStore.log = <<>>
<1>1. << >> \in Seq(Event)
  OBVIOUS
<1>2. ASSUME NEW dynamic \in BOOLEAN
      PROVE  /\ CreateStore(State(0, dynamic)) \in Stores
             /\ CreateStore(State(0, dynamic)).log = <<>>
             /\ CreateStore(State(0, dynamic)).committed \in States
             /\ CreateStore(State(0, dynamic)).committed.time = 0
             /\ CreateStore(State(0, dynamic)).sequence = 0
             /\ CreateStore(State(0, dynamic)).revision = 0
  BY <1>1 DEF CreateStore, State, Stores, States, Event
<1>3. ASSUME NEW dynamic \in BOOLEAN
      PROVE  Boundary(CreateStore(State(0, dynamic)))
  BY <1>2 DEF Boundary, OnPath, Time
<1> QED BY <1>2, <1>3 DEF InitialStore, GravityStore, Time

\* A checkpoint is the same boundary.
LEMMA CheckpointKeeps ==
  ASSUME NEW s, Boundary(s)
  PROVE  /\ Boundary(Checkpoint(s))
         /\ Checkpoint(s).log = s.log /\ Time(Checkpoint(s)) = Time(s)
<1>1. s \in Stores
  BY DEF Boundary
<1>2. /\ Checkpoint(s) \in Stores /\ Checkpoint(s).log = s.log
      /\ Checkpoint(s).committed = s.committed
      /\ Checkpoint(s).sequence = s.sequence /\ Checkpoint(s).revision = s.revision
  BY <1>1 DEF Checkpoint, Stores
<1> QED BY <1>2 DEF Boundary, OnPath, Time

\* The events of a path, up to a time.
Path(log, now) ==
  /\ \A i \in 1 .. Len(log) : log[i].sequence = i /\ log[i].time <= now
  /\ \A i, j \in 1 .. Len(log) : i < j => log[i].time < log[j].time

LEMMA PathGrows ==
  ASSUME NEW log \in Seq(Event), NEW now \in Nat, Path(log, now),
         NEW event \in Event, event.sequence = Len(log) + 1, now < event.time
  PROVE  Append(log, event) \in Seq(Event) /\ Path(Append(log, event), event.time)
<1> DEFINE longer == Append(log, event)
<1>1. /\ Len(longer) = Len(log) + 1 /\ Len(log) \in Nat
      /\ \A i \in 1 .. Len(log) : longer[i] = log[i]
      /\ longer[Len(log) + 1] = event
      /\ longer \in Seq(Event)
  BY AppendProperties
<1>2. /\ \A i \in 1 .. Len(log) : log[i].sequence = i /\ log[i].time <= now
      /\ \A i, j \in 1 .. Len(log) : i < j => log[i].time < log[j].time
  BY DEF Path
<1>3. event.time \in Nat
  BY DEF Event
<1>4. \A i \in 1 .. Len(log) : log[i].time \in Nat
  <2>1. ASSUME NEW i \in 1 .. Len(log) PROVE log[i] \in Event
    BY ElementOfSeq
  <2> QED BY <2>1 DEF Event
<1> HIDE DEF longer
<1>5. ASSUME NEW i \in 1 .. Len(longer)
      PROVE  longer[i].sequence = i /\ longer[i].time <= event.time
  <2>1. CASE i = Len(log) + 1
    BY <1>1, <1>3, <2>1
  <2>2. CASE i \in 1 .. Len(log)
    BY <1>1, <1>2, <1>3, <1>4, <2>2
  <2> QED BY <1>1, <1>5, <2>1, <2>2
<1>6. ASSUME NEW i \in 1 .. Len(longer), NEW j \in 1 .. Len(longer), i < j
      PROVE  longer[i].time < longer[j].time
  <2>1. i \in 1 .. Len(log) /\ longer[i] = log[i]
    BY <1>1, <1>6
  <2>2. CASE j = Len(log) + 1
    BY <1>1, <1>2, <1>3, <1>4, <2>1, <2>2
  <2>3. CASE j \in 1 .. Len(log)
    BY <1>1, <1>2, <1>6, <2>1, <2>3
  <2> QED BY <1>1, <1>6, <2>2, <2>3
<1>7. Path(longer, event.time)
  BY <1>5, <1>6 DEF Path
<1> QED BY <1>1, <1>7 DEF longer

\* A step that is committed adds one boundary and one event to the path.
LEMMA CommitKeeps ==
  ASSUME NEW s, Boundary(s), NEW t \in Nat, Time(s) < t, t <= EndTime
  PROVE  LET working_ == BeginStep(s, t)  committed == CommitStep(working_, 1) IN
         /\ working_ \in Stores
         /\ Boundary(committed) /\ Time(committed) = t
         /\ committed.log = Append(s.log, [sequence |-> s.sequence + 1, time |-> t])
<1> DEFINE working_ == BeginStep(s, t)
           committed == CommitStep(working_, 1)
           event == [sequence |-> s.sequence + 1, time |-> t]
<1>1. s \in Stores /\ OnPath(s) /\ s.committed \in States
  BY DEF Boundary
<1>2. /\ s.revision \in Nat /\ s.sequence \in Nat /\ s.log \in Seq(Event)
      /\ s.committed \in States
  BY <1>1 DEF Stores, Event
<1>3. [s.committed EXCEPT !.time = t] \in States /\ [s.committed EXCEPT !.time = t].time = t
  BY <1>2 DEF States
<1>4. /\ working_ \in Stores /\ working_.revision = s.revision
      /\ working_.sequence = s.sequence /\ working_.log = s.log
      /\ working_.trial = [s.committed EXCEPT !.time = t]
  BY <1>1, <1>3 DEF BeginStep, Stores
<1>5. event \in Event
  BY <1>2 DEF Event
<1>6. Events(working_, 1) = <<event>>
  BY <1>3, <1>4, <1>2 DEF Events
<1>7. working_.log \o Events(working_, 1) = Append(s.log, event)
  <2>1. s.log \o <<event>> = Append(s.log, event)
    BY <1>2, <1>5, AppendIsConcat
  <2> QED BY <1>4, <1>6, <2>1
<1>8. /\ committed.revision = s.revision + 1 /\ committed.sequence = s.sequence + 1
      /\ committed.committed = [s.committed EXCEPT !.time = t]
      /\ committed.trial = NoTrial
      /\ committed.log = Append(s.log, event)
  BY <1>4, <1>7 DEF CommitStep
<1>9. /\ Append(s.log, event) \in Seq(Event)
      /\ Path(Append(s.log, event), t)
      /\ Len(Append(s.log, event)) = Len(s.log) + 1
  <2>1. event.sequence = Len(s.log) + 1 /\ event.time = t /\ Path(s.log, Time(s))
    BY <1>1 DEF OnPath, Path
  <2>2. Time(s) \in Nat
    BY <1>2 DEF Time, States
  <2> HIDE DEF event
  <2> QED BY <1>2, <1>5, <2>1, <2>2, PathGrows, AppendProperties
<1>10. committed \in Stores /\ OnPath(committed)
  <2>1. committed = [revision |-> committed.revision, sequence |-> committed.sequence,
                     committed |-> committed.committed, trial |-> committed.trial,
                     log |-> committed.log]
    BY DEF CommitStep
  <2>2. ASSUME NEW r \in Nat, NEW q \in Nat, NEW c \in States, NEW l \in Seq(Event)
        PROVE  [revision |-> r, sequence |-> q, committed |-> c, trial |-> NoTrial, log |-> l]
                 \in Stores
    BY DEF Stores, Event
  <2>3. /\ s.revision + 1 \in Nat /\ s.sequence + 1 \in Nat
        /\ s.sequence = Len(s.log) /\ s.revision = Len(s.log)
    BY <1>1, <1>2 DEF OnPath
  <2>4. Time(committed) = t
    BY <1>3, <1>8 DEF Time
  <2> HIDE DEF committed, event
  <2>5. committed \in Stores
    <3> DEFINE c == [s.committed EXCEPT !.time = t]
               l == Append(s.log, event)
    <3>1. c \in States /\ l \in Seq(Event)
      BY <1>3, <1>9
    <3>2. committed = [revision |-> s.revision + 1, sequence |-> s.sequence + 1,
                       committed |-> c, trial |-> NoTrial, log |-> l]
      BY <1>8, <2>1
    <3> HIDE DEF c, l
    <3> QED BY <2>2, <2>3, <3>1, <3>2
  <2>6. OnPath(committed)
    BY <1>8, <1>9, <2>3, <2>4 DEF OnPath, Path
  <2> QED BY <2>5, <2>6
<1>11. Time(committed) = t
  BY <1>3, <1>8 DEF Time
<1> QED BY <1>3, <1>4, <1>8, <1>10, <1>11 DEF Boundary
-----------------------------------------------------------------------------
(* Rows and pending calls. *)

RowTimes ==
  /\ \A i \in 1 .. Len(rows) : rows[i] = Earlier(EndTime, start + (i - 1) * OutputDt)
  /\ \A i, j \in 1 .. Len(rows) : i < j => rows[i] < rows[j]

\* Before the end the next output time is later than the last row.
LEMMA NextLater ==
  ASSUME IInv, Running, rows[Len(rows)] < EndTime
  PROVE  /\ NextOutput \in Nat /\ rows[Len(rows)] < NextOutput /\ NextOutput <= EndTime
         /\ rows[Len(rows)] \in Nat
<1> DEFINE n == Len(rows)
<1>1. rows \in Seq(Nat) /\ rows # <<>> /\ start \in Nat
  BY DEF IInv, TypeOK, RowsFit
<1>2. n \in Nat \ {0} /\ rows[n] \in Nat
  BY <1>1
<1>3. rows[n] = Earlier(EndTime, start + (n - 1) * OutputDt)
  BY <1>2 DEF IInv, RowsOnTime
<1>4. /\ (n - 1) * OutputDt \in Nat /\ n * OutputDt \in Nat
      /\ n * OutputDt = (n - 1) * OutputDt + OutputDt
  BY <1>2
<1>5. NextOutput = Earlier(EndTime, start + n * OutputDt)
  BY DEF NextOutput
<1> HIDE DEF n
<1>6. rows[n] = start + (n - 1) * OutputDt
  BY <1>1, <1>3, <1>4 DEF Earlier, n
<1> QED BY <1>1, <1>2, <1>4, <1>5, <1>6 DEF Earlier, n

\* The row of an output time is later than all rows before it.
LEMMA RowAdded ==
  ASSUME IInv, Running, rows[Len(rows)] < EndTime, rows' = Append(rows, NextOutput),
         start' = start
  PROVE  rows' \in Seq(Nat) /\ rows' # <<>> /\ rows'[Len(rows')] = NextOutput /\ RowTimes'
<1>1. /\ NextOutput \in Nat /\ rows[Len(rows)] < NextOutput
      /\ rows \in Seq(Nat) /\ rows # <<>>
  BY NextLater DEF IInv, TypeOK, RowsFit
<1>2. /\ rows' \in Seq(Nat) /\ Len(rows') = Len(rows) + 1
      /\ \A i \in 1 .. Len(rows) : rows'[i] = rows[i] /\ rows[i] \in Nat
      /\ rows'[Len(rows) + 1] = NextOutput /\ Len(rows) \in Nat \ {0}
  BY <1>1, AppendProperties
<1>3. RowTimes
  BY DEF IInv, RowsOnTime, RowTimes
<1>4. NextOutput = Earlier(EndTime, start + ((Len(rows) + 1) - 1) * OutputDt)
  BY <1>2 DEF NextOutput
<1>5. ASSUME NEW i \in 1 .. Len(rows')
      PROVE  rows'[i] = Earlier(EndTime, start + (i - 1) * OutputDt)
  <2>1. CASE i = Len(rows) + 1
    BY <1>2, <1>4, <2>1
  <2>2. CASE i \in 1 .. Len(rows)
    BY <1>2, <1>3, <2>2 DEF RowTimes
  <2> QED BY <1>2, <1>5, <2>1, <2>2
<1>6. ASSUME NEW i \in 1 .. Len(rows'), NEW k \in 1 .. Len(rows'), i < k
      PROVE  rows'[i] < rows'[k]
  <2>1. i \in 1 .. Len(rows) /\ rows[i] <= rows[Len(rows)]
    <3>1. i \in 1 .. Len(rows) /\ Len(rows) \in 1 .. Len(rows)
      BY <1>2, <1>6
    <3>2. i < Len(rows) => rows[i] < rows[Len(rows)]
      BY <1>3, <3>1 DEF RowTimes
    <3> QED BY <1>2, <3>1, <3>2
  <2>2. CASE k = Len(rows) + 1
    BY <1>1, <1>2, <2>1, <2>2
  <2>3. CASE k \in 1 .. Len(rows)
    BY <1>2, <1>3, <1>6, <2>1, <2>3 DEF RowTimes
  <2> QED BY <1>2, <1>6, <2>2, <2>3
<1>7. RowTimes'
  <2>1. \A i \in 1 .. Len(rows') : rows'[i] = Earlier(EndTime, start' + (i - 1) * OutputDt)
    BY <1>5
  <2> QED BY <1>6, <2>1 DEF RowTimes, Earlier
<1> QED BY <1>2, <1>7

\* Two calls in the place of the innermost one.
LEMMA HalvesNested ==
  ASSUME NEW calls \in Seq(Frames), calls # <<>>, Nested(calls),
         NEW first \in Frames, NEW second \in Frames,
         first.target <= second.target, second.target = Head(calls).target
  PROVE  LET halves == <<first, second>> \o Tail(calls) IN
         /\ halves \in Seq(Frames) /\ halves # <<>> /\ Head(halves) = first
         /\ halves[Len(halves)].target = calls[Len(calls)].target
         /\ Nested(halves)
<1> DEFINE halves == <<first, second>> \o Tail(calls)
<1>1. /\ Len(calls) \in Nat \ {0} /\ Head(calls) = calls[1]
      /\ Tail(calls) \in Seq(Frames) /\ Len(Tail(calls)) = Len(calls) - 1
      /\ \A i \in 1 .. Len(calls) - 1 : Tail(calls)[i] = calls[i + 1]
  BY HeadTailProperties
<1>2. /\ halves \in Seq(Frames) /\ Len(halves) = Len(calls) + 1
      /\ halves[1] = first /\ halves[2] = second
      /\ \A i \in 3 .. Len(calls) + 1 : halves[i] = calls[i - 1]
  BY <1>1
<1>3. \A i \in 1 .. Len(calls) : calls[i].target \in Nat
  <2>1. ASSUME NEW i \in 1 .. Len(calls) PROVE calls[i] \in Frames
    BY ElementOfSeq
  <2> QED BY <2>1 DEF Frames
<1>4. first.target \in Nat /\ second.target \in Nat
  BY DEF Frames
<1>5. \A i \in 2 .. Len(calls) + 1 : halves[i].target = calls[i - 1].target
  BY <1>1, <1>2
<1> HIDE DEF halves
<1>6. Nested(halves)
  <2>1. ASSUME NEW i \in 1 .. Len(halves), NEW j \in 1 .. Len(halves), i <= j
        PROVE  halves[i].target <= halves[j].target
    <3>1. CASE i >= 2
      <4>1. /\ i \in 2 .. Len(calls) + 1 /\ j \in 2 .. Len(calls) + 1
            /\ i - 1 \in 1 .. Len(calls) /\ j - 1 \in 1 .. Len(calls) /\ i - 1 <= j - 1
        BY <1>1, <1>2, <2>1, <3>1
      <4> QED BY <1>5, <4>1 DEF Nested
    <3>2. CASE i = 1 /\ j = 1
      BY <1>2, <1>4, <3>2
    <3>3. CASE i = 1 /\ j >= 2
      <4>1. /\ j \in 2 .. Len(calls) + 1 /\ j - 1 \in 1 .. Len(calls)
            /\ 1 \in 1 .. Len(calls) /\ 1 <= j - 1
        BY <1>1, <1>2, <2>1, <3>3
      <4>2. calls[1].target <= calls[j - 1].target
        BY <4>1 DEF Nested
      <4> QED BY <1>1, <1>2, <1>3, <1>4, <1>5, <3>3, <4>1, <4>2
    <3> QED BY <1>2, <2>1, <3>1, <3>2, <3>3
  <2> QED BY <2>1 DEF Nested
<1>7. halves[Len(halves)].target = calls[Len(calls)].target
  BY <1>1, <1>2, <1>5
<1>8. halves # <<>> /\ Head(halves) = first
  BY <1>1, <1>2
<1> QED BY <1>2, <1>6, <1>7, <1>8 DEF halves

\* The calls that are left when the innermost one returns.
LEMMA TailNested ==
  ASSUME NEW calls \in Seq(Frames), calls # <<>>, Nested(calls)
  PROVE  /\ Tail(calls) \in Seq(Frames)
         /\ Tail(calls) = <<>> => calls[Len(calls)] = Head(calls)
         /\ Tail(calls) # <<>> =>
              /\ Tail(calls)[Len(Tail(calls))] = calls[Len(calls)]
              /\ Head(calls).target <= Head(Tail(calls)).target
              /\ Nested(Tail(calls))
<1>1. /\ Len(calls) \in Nat \ {0} /\ Head(calls) = calls[1]
      /\ Tail(calls) \in Seq(Frames) /\ Len(Tail(calls)) = Len(calls) - 1
      /\ \A i \in 1 .. Len(calls) - 1 : Tail(calls)[i] = calls[i + 1]
  BY HeadTailProperties
<1>2. ASSUME Tail(calls) = <<>> PROVE calls[Len(calls)] = Head(calls)
  <2> DEFINE rest == Tail(calls)
  <2>1. rest = <<>> /\ Len(rest) = Len(calls) - 1 /\ Len(calls) \in Nat
    BY <1>1, <1>2
  <2> HIDE DEF rest
  <2>2. Len(calls) = 1
    <3>1. Len(rest) = 0
      BY <2>1, EmptySeq
    <3> QED BY <2>1, <3>1
  <2> QED BY <1>1, <2>2
<1>3. ASSUME Tail(calls) # <<>>
      PROVE  /\ Tail(calls)[Len(Tail(calls))] = calls[Len(calls)]
             /\ Head(Tail(calls)) = calls[2] /\ Len(calls) >= 2
  <2>1. Len(Tail(calls)) \in Nat \ {0} /\ Head(Tail(calls)) = Tail(calls)[1]
    BY <1>1, <1>3, HeadTailProperties
  <2> QED BY <1>1, <2>1
<1>4. Nested(Tail(calls))
  <2>1. ASSUME NEW i \in 1 .. Len(Tail(calls)), NEW j \in 1 .. Len(Tail(calls)), i <= j
        PROVE  Tail(calls)[i].target <= Tail(calls)[j].target
    <3>1. /\ i \in 1 .. Len(calls) - 1 /\ j \in 1 .. Len(calls) - 1
          /\ i + 1 \in 1 .. Len(calls) /\ j + 1 \in 1 .. Len(calls) /\ i + 1 <= j + 1
      BY <1>1, <2>1
    <3> QED BY <1>1, <3>1 DEF Nested
  <2> QED BY <2>1 DEF Nested
<1>5. Tail(calls) # <<>> => Head(calls).target <= Head(Tail(calls)).target
  BY <1>1, <1>3 DEF Nested
<1> QED BY <1>1, <1>2, <1>3, <1>4, <1>5
-----------------------------------------------------------------------------
(* Steps. *)

LEMMA KeptFits ==
  ASSUME NEW latest, NEW final, NEW recovery,
         Stored(latest), Stored(final), Stored(recovery)
  PROVE  [latest |-> latest, final |-> final, recovery |-> recovery]
           \in [latest : Stores, final : Stores, recovery : Stores]
BY StoredFits

\* A run that ends leaves boundaries, its rows, and a recovery that matches.
LEMMA StopKeeps ==
  ASSUME IInv, Running,
         NEW how \in {"completed", "failed", "cancelled", "refused"},
         NEW boundary, NEW resident, Boundary(boundary), Boundary(resident),
         IF how = "refused"
           THEN resident.log = SubSeq(boundary.log, 1, Len(boundary.log) - 1)
           ELSE resident.log = boundary.log,
         Stop(how, boundary, resident),
         UNCHANGED <<asked, start, runs>>, internal' \in Nat,
         rows' \in Seq(Nat), RowTimes',
         how = "completed" => rows'[Len(rows')] = EndTime
  PROVE  IInv'
<1>1. /\ phase' = "idle" /\ status' \in Outcomes(how)
      /\ store' = boundary /\ working' = NoStore /\ frames' = <<>>
      /\ session' = [store |-> resident,
                     checkpoint |-> Checkpoint(IF status' = "completed" THEN boundary
                                               ELSE resident)]
      /\ kept' = [kept EXCEPT !.final = Checkpoint(boundary),
                              !.recovery = IF status' = "completed" THEN NoStore
                                           ELSE Checkpoint(resident)]
  BY DEF Stop
<1>2. status' = how \/ (how # "refused" /\ status' = "failed")
  BY <1>1 DEF Outcomes
<1>3. /\ kept \in [latest : Stores, final : Stores, recovery : Stores]
      /\ Stored(kept.latest)
  BY DEF IInv, TypeOK, KeptStores
<1> DEFINE final == Checkpoint(boundary)
           recovery == IF status' = "completed" THEN NoStore ELSE Checkpoint(resident)
           checkpoint == Checkpoint(IF status' = "completed" THEN boundary ELSE resident)
<1>4. /\ Boundary(final) /\ Stored(recovery) /\ Boundary(checkpoint)
      /\ final.log = boundary.log
      /\ status' # "completed" => recovery.log = resident.log
  BY CheckpointKeeps DEF Stored
<1>5. /\ kept' = [kept EXCEPT !.final = final, !.recovery = recovery]
      /\ session' = [store |-> resident, checkpoint |-> checkpoint]
  BY <1>1
<1> HIDE DEF final, recovery, checkpoint
<1>6. /\ kept' = [latest |-> kept.latest, final |-> final, recovery |-> recovery]
      /\ kept'.latest = kept.latest /\ kept'.final = final /\ kept'.recovery = recovery
  BY <1>3, <1>5
<1>7. session'.store = resident /\ session'.checkpoint = checkpoint
  BY <1>5
<1>8. KeptStores'
  <2>1. Stored(boundary) /\ Stored(resident) /\ Stored(checkpoint) /\ Stored(final)
    BY <1>4 DEF Stored
  <2> QED BY <1>1, <1>3, <1>4, <1>6, <1>7, <2>1 DEF KeptStores
<1>9. TypeOK'
  <2>1. kept' \in [latest : Stores, final : Stores, recovery : Stores]
    BY <1>3, <1>4, <1>6, KeptFits DEF Stored
  <2>2. session' \in [store : Stores, checkpoint : Stores]
    BY <1>4, <1>5 DEF Boundary
  <2>3. store' \in Stores /\ working' \in Stores
    BY <1>1, NoStoreFits DEF Boundary
  <2>4. frames' \in Seq(Frames)
    <3>1. << >> \in Seq(Frames)
      OBVIOUS
    <3> QED BY <1>1, <3>1
  <2> QED BY <1>1, <1>2, <2>1, <2>2, <2>3, <2>4 DEF IInv, TypeOK
<1>10. ~Running' /\ ~Solving'
  BY <1>1 DEF Running, Solving
<1>11. RunFits' /\ StepFits' /\ CallsFit' /\ RowsFit'
  BY <1>1, <1>10 DEF RunFits, StepFits, CallsFit, RowsFit
<1>12. RowsOnTime'
  BY <1>2 DEF RowTimes, RowsOnTime
<1>13. RecoveryMatches'
  BY <1>2, <1>4, <1>6 DEF RecoveryMatches
<1> QED BY <1>8, <1>9, <1>11, <1>12, <1>13 DEF IInv

\* A run that is opened begins at a boundary, with one row and no call.
LEMMA OpenKeeps ==
  ASSUME IInv, NEW initial, NEW resident, Boundary(initial), Boundary(resident),
         resident.log = initial.log, Open(initial, resident)
  PROVE  IInv'
<1>1. /\ phase' = "outputs" /\ status' = "none" /\ asked' = FALSE
      /\ store' = initial /\ working' = NoStore /\ frames' = <<>>
      /\ internal' = 0 /\ start' = Time(initial) /\ rows' = <<Time(initial)>>
      /\ session' = [store |-> resident, checkpoint |-> resident]
      /\ kept' = [kept EXCEPT !.final = NoStore, !.recovery = NoStore]
      /\ runs' = runs + 1
  BY DEF Open
<1>2. /\ kept \in [latest : Stores, final : Stores, recovery : Stores]
      /\ Stored(kept.latest) /\ runs \in Nat
  BY DEF IInv, TypeOK, KeptStores
<1>3. kept' = [latest |-> kept.latest, final |-> NoStore, recovery |-> NoStore]
  BY <1>1, <1>2
<1>4. kept'.latest = kept.latest /\ kept'.final = NoStore /\ kept'.recovery = NoStore
  BY <1>3
<1>5. KeptStores'
  BY <1>1, <1>2, <1>4 DEF KeptStores, Stored
<1>6. Time(initial) \in Nat /\ Time(initial) <= EndTime
  BY DEF Boundary, States, Time
<1>7. TypeOK'
  <2>1. kept' \in [latest : Stores, final : Stores, recovery : Stores]
    BY <1>2, <1>3, KeptFits DEF Stored
  <2>2. session' \in [store : Stores, checkpoint : Stores]
    BY <1>1 DEF Boundary
  <2>3. store' \in Stores /\ working' \in Stores
    BY <1>1, NoStoreFits DEF Boundary
  <2>4. frames' \in Seq(Frames) /\ rows' \in Seq(Nat)
    <3>1. << >> \in Seq(Frames)
      OBVIOUS
    <3> QED BY <1>1, <1>6, <3>1
  <2>5. phase' \in {"idle", "outputs", "interval", "evaluating", "auditing"}
    BY <1>1
  <2>6. status' \in {"none", "completed", "failed", "cancelled", "refused", "crashed", "blocked"}
    BY <1>1
  <2>7. internal' \in Nat /\ start' \in Nat /\ runs' \in Nat
    BY <1>1, <1>2, <1>6
  <2>8. asked' \in BOOLEAN
    BY <1>1, Zenon
  <2> QED BY <2>1, <2>2, <2>3, <2>4, <2>5, <2>6, <2>7, <2>8, Zenon DEF TypeOK
<1>8. Running' /\ ~Solving'
  BY <1>1 DEF Running, Solving
<1>9. RunFits' /\ StepFits' /\ CallsFit'
  BY <1>1, <1>8 DEF RunFits, StepFits, CallsFit
<1>10. rows' # <<>> /\ Len(rows') = 1 /\ rows'[1] = Time(initial)
  BY <1>1
<1>11. RowsFit'
  BY <1>1, <1>10 DEF RowsFit, Time
<1>12. RowsOnTime'
  <2>1. Earlier(EndTime, start' + (1 - 1) * OutputDt) = Time(initial)
    BY <1>1, <1>6 DEF Earlier
  <2>2. \A i \in 1 .. Len(rows') : i = 1
    BY <1>10
  <2>3. \A i \in 1 .. Len(rows') : rows'[i] = Earlier(EndTime, start' + (i - 1) * OutputDt)
    BY <1>10, <2>1, <2>2
  <2> QED BY <1>1, <2>2, <2>3 DEF RowsOnTime, Earlier
<1>13. RecoveryMatches'
  BY <1>8 DEF RecoveryMatches
<1> QED BY <1>5, <1>7, <1>9, <1>11, <1>12, <1>13 DEF IInv

\* Nothing but a cancel is asked for, or the run is lost.
LEMMA CancelKeeps ==
  ASSUME IInv, Cancel
  PROVE  IInv'
<1>1. /\ asked' = TRUE
      /\ UNCHANGED <<phase, status, store, working, frames, internal, start, rows, session,
                     kept, runs>>
  BY DEF Cancel
<1>2. asked' \in BOOLEAN
  BY <1>1, Zenon
<1>3. TypeOK'
  BY <1>1, <1>2 DEF IInv, TypeOK
<1>4. KeptStores' /\ RunFits' /\ StepFits' /\ CallsFit' /\ RowsFit' /\ RowsOnTime' /\ RecoveryMatches'
  BY <1>1 DEF IInv, KeptStores, RunFits, StepFits, CallsFit, RowsFit, RowsOnTime,
              RecoveryMatches, Running, Solving, Top, StepDt, Earlier, NextOutput
<1> QED BY <1>3, <1>4 DEF IInv

LEMMA CrashKeeps ==
  ASSUME IInv, Crash
  PROVE  IInv'
<1>1. /\ phase' = "idle" /\ status' = "crashed"
      /\ store' = NoStore /\ working' = NoStore /\ frames' = <<>>
      /\ session' = [store |-> NoStore, checkpoint |-> NoStore]
      /\ UNCHANGED <<asked, internal, start, rows, kept, runs>>
  BY DEF Crash
<1>2. session'.store = NoStore /\ session'.checkpoint = NoStore
  BY <1>1
<1>3. KeptStores'
  BY <1>1, <1>2 DEF IInv, KeptStores, Stored
<1>4. TypeOK'
  <2>1. << >> \in Seq(Frames)
    OBVIOUS
  <2> QED BY <1>1, <2>1, NoStoreFits DEF IInv, TypeOK
<1>5. ~Running' /\ ~Solving'
  BY <1>1 DEF Running, Solving
<1>6. RunFits' /\ StepFits' /\ CallsFit' /\ RowsFit' /\ RecoveryMatches'
  BY <1>1, <1>5 DEF RunFits, StepFits, CallsFit, RowsFit, RecoveryMatches
<1>7. RowsOnTime'
  BY <1>1 DEF IInv, RowsOnTime, Earlier
<1> QED BY <1>3, <1>4, <1>6, <1>7 DEF IInv

LEMMA StartsKeep ==
  ASSUME IInv, Start \/ \E name \in {"latest", "final", "recovery"} : Resume(kept[name])
  PROVE  IInv'
<1>1. CASE Start
  BY <1>1, FirstBoundaries, OpenKeeps DEF Start
<1>2. ASSUME NEW name \in {"latest", "final", "recovery"}, Resume(kept[name])
      PROVE  IInv'
  <2> DEFINE checkpoint == kept[name]
  <2>1. ~Running /\ checkpoint # NoStore
    BY <1>2 DEF Resume
  <2>2. Boundary(checkpoint)
    BY <2>1 DEF IInv, KeptStores, Stored
  <2>3. CASE checkpoint.committed.dynamic
    <3>1. Open(checkpoint, checkpoint)
      BY <1>2, <2>3 DEF Resume
    <3> QED BY <2>2, <3>1, OpenKeeps
  <2>4. CASE ~checkpoint.committed.dynamic
    <3>1. /\ status' = "blocked" /\ runs' = runs + 1
          /\ kept' = [kept EXCEPT !.final = NoStore, !.recovery = checkpoint]
          /\ UNCHANGED <<phase, asked, store, working, frames, internal, start, rows, session>>
      BY <1>2, <2>4 DEF Resume
    <3>2. /\ kept \in [latest : Stores, final : Stores, recovery : Stores]
          /\ Stored(kept.latest) /\ Stored(checkpoint)
      BY <2>2 DEF IInv, TypeOK, KeptStores, Stored
    <3> HIDE DEF checkpoint
    <3>3. kept' = [latest |-> kept.latest, final |-> NoStore, recovery |-> checkpoint]
      BY <3>1, <3>2
    <3>4. kept'.latest = kept.latest /\ kept'.final = NoStore /\ kept'.recovery = checkpoint
      BY <3>3
    <3>5. KeptStores'
      BY <3>1, <3>2, <3>4 DEF IInv, KeptStores, Stored
    <3>6. kept' \in [latest : Stores, final : Stores, recovery : Stores]
      BY <3>2, <3>3, KeptFits DEF Stored
    <3>7. TypeOK'
      BY <3>1, <3>6 DEF IInv, TypeOK
    <3>8. ~Running' /\ ~Solving'
      BY <2>1, <3>1 DEF Running, Solving
    <3>9. RunFits' /\ StepFits' /\ CallsFit' /\ RowsFit' /\ RecoveryMatches'
      BY <2>1, <3>1, <3>8 DEF RunFits, StepFits, CallsFit, RowsFit, RecoveryMatches, Running
    <3>10. RowsOnTime'
      BY <3>1 DEF IInv, RowsOnTime, Earlier
    <3> QED BY <3>5, <3>7, <3>9, <3>10 DEF IInv
  <2> QED BY <2>3, <2>4
<1> QED BY <1>1, <1>2

\* What every step of a run may rely on.
LEMMA RunFacts ==
  ASSUME IInv, Running
  PROVE  /\ Boundary(store) /\ Boundary(session.store) /\ session.store.log = store.log
         /\ status = "none" /\ rows \in Seq(Nat) /\ rows # <<>> /\ RowTimes
         /\ internal \in Nat /\ Time(store) \in Nat /\ Time(store) <= EndTime
         /\ rows[Len(rows)] \in Nat /\ rows[Len(rows)] <= EndTime
<1>1. /\ Boundary(store) /\ Boundary(session.store) /\ session.store.log = store.log
      /\ status = "none" /\ rows \in Seq(Nat) /\ rows # <<>> /\ RowTimes
      /\ internal \in Nat /\ start \in Nat
  BY DEF IInv, TypeOK, RunFits, RowsFit, RowsOnTime, RowTimes
<1>2. Time(store) \in Nat /\ Time(store) <= EndTime
  BY <1>1 DEF Boundary, States, Time
<1>3. Len(rows) \in 1 .. Len(rows) /\ rows[Len(rows)] \in Nat
  BY <1>1
<1>4. rows[Len(rows)] = Earlier(EndTime, start + (Len(rows) - 1) * OutputDt)
  BY <1>1, <1>3 DEF RowTimes
<1>5. (Len(rows) - 1) * OutputDt \in Nat
  BY <1>3
<1>6. rows[Len(rows)] <= EndTime
  BY <1>1, <1>4, <1>5 DEF Earlier
<1> QED BY <1>1, <1>2, <1>3, <1>6

\* Whatever else ends a run between two boundaries.
LEMMA EndingsKeep ==
  ASSUME IInv, Running, UNCHANGED <<asked, internal, start, rows, runs>>,
         NEW how \in {"failed", "cancelled"}, Stop(how, store, session.store)
  PROVE  IInv'
<1>1. RowTimes'
  BY RunFacts DEF RowTimes, Earlier
<1> QED BY <1>1, RunFacts, StopKeeps

LEMMA CompleteKeeps ==
  ASSUME IInv, Complete
  PROVE  IInv'
<1>1. /\ phase = "outputs" /\ Time(store) >= EndTime /\ Running
      /\ Stop(IF Follows THEN "completed" ELSE "failed", store, session.store)
      /\ UNCHANGED <<asked, internal, start, rows, runs>>
  BY DEF Complete, Running
<1>2. rows[Len(rows)] = EndTime
  BY <1>1, RunFacts DEF IInv, RowsFit
<1>3. RowTimes'
  BY <1>1, RunFacts DEF RowTimes, Earlier
<1>4. PICK how \in {"completed", "failed"} : Stop(how, store, session.store)
  BY <1>1
<1> QED BY <1>1, <1>2, <1>3, <1>4, RunFacts, StopKeeps

\* The innermost call, its target and what is left of it.
LEMMA CallFacts ==
  ASSUME IInv, phase \in {"interval", "evaluating", "auditing"}, frames # <<>>
  PROVE  /\ Running /\ Top \in Frames /\ Top.target \in Nat /\ Top.dt \in Nat \ {0}
         /\ Top.level \in 0 .. MaxLevel
         /\ Time(store) <= Top.target /\ Top.target <= EndTime /\ Nested(frames)
         /\ frames[Len(frames)].target = NextOutput
         /\ Time(store) < Top.target =>
              StepDt \in Nat \ {0} /\ Time(store) + StepDt <= Top.target
<1>1. /\ Running /\ frames \in Seq(Frames)
  BY DEF Running, IInv, TypeOK
<1>2. /\ rows[Len(rows)] < EndTime /\ frames[Len(frames)].target = NextOutput
      /\ Time(store) <= Top.target /\ Nested(frames)
  BY DEF IInv, CallsFit
<1>3. NextOutput <= EndTime /\ NextOutput \in Nat
  BY <1>1, <1>2, NextLater
<1>4. /\ Top \in Frames /\ Top = frames[1] /\ Len(frames) \in Nat \ {0}
  BY <1>1 DEF Top
<1>5. Top.target \in Nat /\ Top.dt \in Nat \ {0} /\ Top.level \in 0 .. MaxLevel
  BY <1>4 DEF Frames
<1>6. Top.target <= NextOutput
  BY <1>2, <1>4 DEF Nested
<1>7. Time(store) \in Nat
  BY <1>1, RunFacts
<1>8. Time(store) < Top.target =>
        StepDt \in Nat \ {0} /\ Time(store) + StepDt <= Top.target
  BY <1>5, <1>7 DEF StepDt, Earlier
<1> QED BY <1>1, <1>2, <1>3, <1>4, <1>5, <1>6, <1>8

\* Steps that leave the run, its rows and all checkpoints as they are.
LEMMA QuietSteps ==
  ASSUME IInv, Running, phase' # "idle",
         phase' \in {"outputs", "interval", "evaluating", "auditing"},
         UNCHANGED <<status, asked, store, internal, start, rows, session, kept, runs>>,
         working' \in Stores, frames' \in Seq(Frames),
         StepFits', CallsFit', phase' # "outputs"
  PROVE  IInv'
<1>1. TypeOK'
  BY DEF IInv, TypeOK
<1>2. KeptStores' /\ RunFits' /\ RowsFit' /\ RecoveryMatches'
  BY DEF IInv, KeptStores, RunFits, RowsFit, RecoveryMatches, Running
<1>3. RowsOnTime'
  BY DEF IInv, RowsOnTime, Earlier
<1> QED BY <1>1, <1>2, <1>3 DEF IInv

LEMMA NextIntervalKeeps ==
  ASSUME IInv, NextInterval
  PROVE  IInv'
<1> DEFINE call == [target |-> NextOutput, level |-> 0, dt |-> InitialDt]
<1>1. /\ phase = "outputs" /\ Running /\ Time(store) < EndTime
      /\ frames' = <<call>> /\ phase' = "interval"
      /\ UNCHANGED <<status, asked, store, working, internal, start, rows, session, kept, runs>>
  BY DEF NextInterval, Running
<1>2. Time(store) = rows[Len(rows)]
  BY <1>1 DEF IInv, RowsFit
<1>3. NextOutput \in Nat /\ Time(store) < NextOutput /\ NextOutput' = NextOutput
  BY <1>1, <1>2, NextLater DEF NextOutput, Earlier
<1>4. call \in Frames /\ call.target = NextOutput
  BY <1>3 DEF Frames
<1> HIDE DEF call
<1>5. /\ frames' \in Seq(Frames) /\ frames' # <<>> /\ Len(frames') = 1
      /\ frames'[1] = call /\ Head(frames') = call
  BY <1>1, <1>4
<1>6. Nested(frames')
  BY <1>3, <1>4, <1>5 DEF Nested
<1>7. CallsFit'
  BY <1>1, <1>2, <1>3, <1>4, <1>5, <1>6, RunFacts DEF CallsFit, Top, Time, Nested
<1>8. StepFits' /\ working' \in Stores
  BY <1>1 DEF StepFits, Solving, IInv, TypeOK
<1> QED BY <1>1, <1>5, <1>7, <1>8, QuietSteps

LEMMA ReturnKeeps ==
  ASSUME IInv, Return
  PROVE  IInv'
<1>1. /\ phase = "interval" /\ frames # <<>> /\ Time(store) >= Top.target
      /\ frames' = Tail(frames) /\ Running /\ frames \in Seq(Frames)
      /\ UNCHANGED <<phase, status, asked, store, working, internal, start, rows, session,
                     kept, runs>>
  BY DEF Return, Running, IInv, TypeOK
<1>2. /\ Time(store) = Top.target /\ Nested(frames)
      /\ frames[Len(frames)].target = NextOutput
  BY <1>1, CallFacts, RunFacts
<1>3. NextOutput' = NextOutput /\ Time(store)' = Time(store)
  BY <1>1 DEF NextOutput, Earlier, Time
<1>4. rows[Len(rows)] < EndTime
  BY <1>1 DEF IInv, CallsFit
<1> DEFINE rest == Tail(frames)
<1>5. /\ rest \in Seq(Frames)
      /\ rest = <<>> => frames[Len(frames)] = Head(frames)
      /\ rest # <<>> =>
              /\ rest[Len(rest)] = frames[Len(frames)]
              /\ Head(frames).target <= Head(rest).target
              /\ Nested(rest)
  BY <1>1, <1>2, TailNested
<1>6. frames' = rest
  BY <1>1
<1> HIDE DEF rest
<1>7. CallsFit'
  <2>1. CASE rest = <<>>
    BY <1>1, <1>2, <1>3, <1>4, <1>5, <1>6, <2>1 DEF CallsFit, Top
  <2>2. CASE rest # <<>>
    BY <1>1, <1>2, <1>3, <1>4, <1>5, <1>6, <2>2 DEF CallsFit, Top, Nested
  <2> QED BY <2>1, <2>2
<1>8. StepFits' /\ working' \in Stores
  BY <1>1 DEF StepFits, Solving, IInv, TypeOK
<1> QED BY <1>1, <1>5, <1>6, <1>7, <1>8, QuietSteps

LEMMA BeginSolveKeeps ==
  ASSUME IInv, BeginSolve \/ Converge
  PROVE  IInv'
<1>1. CASE BeginSolve
  <2>1. /\ phase = "interval" /\ frames # <<>> /\ Time(store) < Top.target /\ Running
        /\ working' = BeginStep(store, Time(store) + StepDt) /\ phase' = "evaluating"
        /\ UNCHANGED <<status, asked, store, frames, internal, start, rows, session, kept, runs>>
    BY <1>1 DEF BeginSolve, Running
  <2>2. /\ Boundary(store) /\ Time(store) \in Nat /\ StepDt \in Nat \ {0}
        /\ Time(store) + StepDt <= EndTime
    BY <2>1, CallFacts, RunFacts
  <2>3. working' \in Stores
    <3> DEFINE t == Time(store) + StepDt
    <3>1. t \in Nat /\ Time(store) < t /\ t <= EndTime
      BY <2>2
    <3> HIDE DEF t
    <3>2. BeginStep(store, t) \in Stores
      BY <2>2, <3>1, CommitKeeps
    <3> QED BY <2>1, <3>2 DEF t
  <2>4. CallsFit'
    BY <2>1 DEF IInv, CallsFit, Top, NextOutput, Earlier
  <2>5. StepFits'
    BY <2>1 DEF StepFits, Solving, Top, StepDt, Earlier
  <2>6. frames' \in Seq(Frames)
    BY <2>1 DEF IInv, TypeOK
  <2> QED BY <2>1, <2>3, <2>4, <2>5, <2>6, QuietSteps
<1>2. CASE Converge
  <2>1. /\ phase = "evaluating" /\ Running /\ phase' = "auditing"
        /\ UNCHANGED <<status, asked, store, working, frames, internal, start, rows, session,
                       kept, runs>>
    BY <1>2 DEF Converge, Running
  <2>2. CallsFit'
    BY <2>1 DEF IInv, CallsFit, Top, NextOutput, Earlier
  <2>3. StepFits'
    BY <2>1 DEF IInv, StepFits, Solving, Top, StepDt, Earlier
  <2>4. frames' \in Seq(Frames) /\ working' \in Stores
    BY <2>1 DEF IInv, TypeOK
  <2> QED BY <2>1, <2>2, <2>3, <2>4, QuietSteps
<1> QED BY <1>1, <1>2

LEMMA RejectKeeps ==
  ASSUME IInv, Reject
  PROVE  IInv'
<1>1. phase \in {"evaluating", "auditing"} /\ Running /\ Solving
  BY DEF Reject, Running, Solving
<1>2. frames # <<>> /\ Time(store) < Top.target /\ frames \in Seq(Frames)
  BY <1>1 DEF IInv, StepFits, TypeOK
<1>3. /\ Top \in Frames /\ Top.target \in Nat /\ Top.level \in 0 .. MaxLevel
      /\ Nested(frames) /\ frames[Len(frames)].target = NextOutput
      /\ StepDt \in Nat \ {0} /\ Time(store) + StepDt <= Top.target
  BY <1>1, <1>2, CallFacts
<1>4. CASE Top.level >= MaxLevel \/ StepDt < 2 * MinDt
  BY <1>1, <1>4, EndingsKeep DEF Reject
<1>5. CASE ~(Top.level >= MaxLevel \/ StepDt < 2 * MinDt)
  <2> DEFINE dt == StepDt \div 2
             first == [target |-> Time(store) + dt, level |-> Top.level + 1, dt |-> dt]
             second == [target |-> Top.target, level |-> Top.level + 1, dt |-> dt]
             halves == <<first, second>> \o Tail(frames)
  <2>1. /\ phase' = "interval" /\ working' = NoStore /\ frames' = halves
        /\ UNCHANGED <<status, asked, store, internal, start, rows, session, kept, runs>>
    BY <1>5 DEF Reject, Halve
  <2>2. StepDt >= 2
    BY <1>3, <1>5
  <2>3. dt \in Nat \ {0} /\ dt <= StepDt
    BY <1>3, <2>2
  <2>4. Top.level + 1 \in 0 .. MaxLevel
    BY <1>3, <1>5
  <2>5. Time(store) \in Nat /\ rows[Len(rows)] < EndTime
    BY <1>1, RunFacts DEF IInv, CallsFit
  <2> HIDE DEF dt
  <2>6. /\ first \in Frames /\ second \in Frames /\ first.target <= second.target
        /\ second.target = Head(frames).target /\ Time(store) <= first.target
    BY <1>3, <2>3, <2>4, <2>5 DEF Frames, Top
  <2> HIDE DEF first, second
  <2>7. /\ halves \in Seq(Frames) /\ halves # <<>> /\ Head(halves) = first
        /\ halves[Len(halves)].target = NextOutput /\ Nested(halves)
    BY <1>2, <1>3, <2>6, HalvesNested
  <2> HIDE DEF halves
  <2>8. NextOutput' = NextOutput /\ Time(store)' = Time(store)
    BY <2>1 DEF NextOutput, Earlier, Time
  <2>9. CallsFit'
    BY <2>1, <2>5, <2>6, <2>7, <2>8 DEF CallsFit, Top, Nested
  <2>10. StepFits' /\ working' \in Stores
    BY <2>1, NoStoreFits DEF StepFits, Solving
  <2> QED BY <1>1, <2>1, <2>7, <2>9, <2>10, QuietSteps
<1> QED BY <1>4, <1>5

LEMMA OutputKeeps ==
  ASSUME IInv, Output
  PROVE  IInv'
<1>1. /\ phase = "interval" /\ frames = <<>> /\ Running
      /\ rows' = Append(rows, Time(store)) /\ start' = start
  BY DEF Output, Running
<1>2. Time(store) = NextOutput /\ rows[Len(rows)] < EndTime
  BY <1>1 DEF IInv, CallsFit
<1>3. rows' \in Seq(Nat) /\ rows' # <<>> /\ rows'[Len(rows')] = NextOutput /\ RowTimes'
  BY <1>1, <1>2, RowAdded
<1>4. CASE Stop("failed", store, session.store) /\ UNCHANGED <<asked, internal, start, runs>>
  BY <1>1, <1>3, <1>4, RunFacts, StopKeeps
<1>5. CASE /\ phase' = "outputs"
           /\ \/ /\ Follows
                 /\ session' = [session EXCEPT !.checkpoint = Checkpoint(store)]
                 /\ \/ kept' = kept
                    \/ kept' = [kept EXCEPT !.latest = Checkpoint(store)]
              \/ UNCHANGED <<session, kept>>
           /\ UNCHANGED <<status, asked, store, working, frames, internal, start, runs>>
  <2> DEFINE checkpoint == Checkpoint(store)
  <2>1. Boundary(checkpoint) /\ checkpoint \in Stores
    BY <1>1, RunFacts, CheckpointKeeps DEF Boundary
  <2>2. /\ session \in [store : Stores, checkpoint : Stores]
        /\ kept \in [latest : Stores, final : Stores, recovery : Stores]
        /\ KeptStores
    BY DEF IInv, TypeOK
  <2>3. \/ session' = session \/ session' = [session EXCEPT !.checkpoint = checkpoint]
    BY <1>5
  <2>4. \/ kept' = kept \/ kept' = [kept EXCEPT !.latest = checkpoint]
    BY <1>5
  <2> HIDE DEF checkpoint
  <2>5. /\ session' \in [store : Stores, checkpoint : Stores]
        /\ session'.store = session.store /\ Stored(session'.checkpoint)
    BY <2>1, <2>2, <2>3 DEF KeptStores, Stored
  <2>6. /\ kept' \in [latest : Stores, final : Stores, recovery : Stores]
        /\ Stored(kept'.latest) /\ kept'.final = kept.final /\ kept'.recovery = kept.recovery
    BY <2>1, <2>2, <2>4 DEF KeptStores, Stored
  <2>7. TypeOK'
    BY <1>3, <1>5, <2>5, <2>6 DEF IInv, TypeOK
  <2>8. KeptStores'
    BY <1>5, <2>2, <2>5, <2>6 DEF KeptStores
  <2>9. Running' /\ ~Solving'
    BY <1>5 DEF Running, Solving
  <2>10. RunFits' /\ StepFits' /\ CallsFit' /\ RecoveryMatches'
    BY <1>1, <1>5, <2>5, <2>9, RunFacts DEF RunFits, StepFits, CallsFit, RecoveryMatches
  <2>11. RowsFit'
    BY <1>2, <1>3, <1>5 DEF RowsFit, Time
  <2>12. RowsOnTime'
    BY <1>1, <1>3, <1>5, RunFacts DEF RowsOnTime, RowTimes
  <2> QED BY <2>7, <2>8, <2>10, <2>11, <2>12 DEF IInv
<1> QED BY <1>4, <1>5 DEF Output

LEMMA AcceptKeeps ==
  ASSUME IInv, Accept
  PROVE  IInv'
<1> DEFINE t == Time(store) + StepDt
           committed == CommitStep(working, 1)
<1>1. /\ phase = "auditing" /\ Running /\ Solving /\ internal' = internal + 1
      /\ UNCHANGED <<asked, start, rows, runs>>
  BY DEF Accept, Running, Solving
<1>2. /\ frames # <<>> /\ Time(store) < Top.target /\ working = BeginStep(store, t)
      /\ frames \in Seq(Frames)
  BY <1>1 DEF IInv, StepFits, TypeOK
<1>3. /\ Boundary(store) /\ Boundary(session.store) /\ session.store.log = store.log
      /\ status = "none" /\ internal' \in Nat /\ rows \in Seq(Nat) /\ rows # <<>>
      /\ RowTimes /\ Time(store) \in Nat
  BY <1>1, RunFacts
<1>4. /\ StepDt \in Nat \ {0} /\ Time(store) + StepDt <= Top.target
      /\ Top.target \in Nat /\ Top.target <= EndTime
      /\ Nested(frames) /\ frames[Len(frames)].target = NextOutput
  BY <1>1, <1>2, CallFacts
<1>5. t \in Nat /\ Time(store) < t /\ t <= EndTime /\ t <= Top.target
  BY <1>3, <1>4
<1>6. /\ Boundary(committed) /\ Time(committed) = t
      /\ committed.log = Append(store.log, [sequence |-> store.sequence + 1, time |-> t])
  <2> HIDE DEF t
  <2> QED BY <1>2, <1>3, <1>5, CommitKeeps
<1>7. RowTimes' /\ rows' \in Seq(Nat)
  BY <1>1, <1>3 DEF RowTimes, Earlier
<1>8. SubSeq(committed.log, 1, Len(committed.log) - 1) = session.store.log
  <2> DEFINE event == [sequence |-> store.sequence + 1, time |-> t]
  <2>1. store.log \in Seq(Event) /\ store.sequence \in Nat
    BY <1>3 DEF Boundary, Stores, Event
  <2>2. event \in Event
    BY <1>5, <2>1 DEF Event
  <2> HIDE DEF event
  <2>3. SubSeq(Append(store.log, event), 1, Len(Append(store.log, event)) - 1) = store.log
    BY <2>1, <2>2
  <2> QED BY <1>3, <1>6, <2>3 DEF event
<1>9. CASE Stop("refused", committed, session.store)
  <2> HIDE DEF committed
  <2> QED BY <1>1, <1>3, <1>6, <1>7, <1>8, <1>9, StopKeeps
<1>10. CASE Stop("failed", committed, committed)
  <2> HIDE DEF committed
  <2> QED BY <1>1, <1>3, <1>6, <1>7, <1>10, StopKeeps
<1>11. CASE /\ phase' = "interval"
            /\ store' = committed /\ working' = NoStore
            /\ session' = [session EXCEPT !.store = committed]
            /\ UNCHANGED <<status, frames, kept>>
  <2>1. session \in [store : Stores, checkpoint : Stores] /\ KeptStores
    BY DEF IInv, TypeOK
  <2> HIDE DEF committed, t
  <2>2. committed \in Stores
    BY <1>6 DEF Boundary
  <2>3. /\ session' \in [store : Stores, checkpoint : Stores]
        /\ session'.store = committed /\ session'.checkpoint = session.checkpoint
    BY <1>11, <2>1, <2>2
  <2>4. TypeOK'
    BY <1>1, <1>3, <1>11, <2>2, <2>3, NoStoreFits DEF IInv, TypeOK
  <2>5. KeptStores'
    BY <1>6, <1>11, <2>1, <2>3 DEF KeptStores, Stored
  <2>6. Running' /\ ~Solving'
    BY <1>11 DEF Running, Solving
  <2>7. RunFits' /\ StepFits' /\ RowsFit' /\ RecoveryMatches'
    BY <1>1, <1>3, <1>6, <1>11, <2>3, <2>6
       DEF RunFits, StepFits, RowsFit, RecoveryMatches
  <2>8. rows[Len(rows)] < EndTime
    BY <1>1 DEF IInv, CallsFit
  <2>9. NextOutput' = NextOutput /\ Time(store)' = t
    BY <1>1, <1>6, <1>11 DEF NextOutput, Earlier, Time
  <2>10. CallsFit'
    BY <1>1, <1>2, <1>4, <1>5, <1>11, <2>8, <2>9 DEF CallsFit, Top, Nested
  <2>11. RowsOnTime'
    BY <1>1, <1>3, <1>7, <1>11 DEF RowsOnTime, RowTimes
  <2> QED BY <2>4, <2>5, <2>7, <2>10, <2>11 DEF IInv
<1> QED BY <1>9, <1>10, <1>11 DEF Accept
-----------------------------------------------------------------------------
LEMMA Establishes == Init => IInv
<1> SUFFICES ASSUME Init PROVE IInv
  OBVIOUS
<1>1. /\ phase = "idle" /\ status = "none" /\ asked = FALSE
      /\ store = NoStore /\ working = NoStore /\ frames = <<>>
      /\ internal = 0 /\ start = 0 /\ rows = <<>> /\ runs = 0
      /\ session = [store |-> NoStore, checkpoint |-> NoStore]
      /\ kept = [latest |-> NoStore, final |-> NoStore, recovery |-> NoStore]
  BY DEF Init
<1>2. << >> \in Seq(Frames) /\ << >> \in Seq(Nat)
  OBVIOUS
<1>3. asked \in BOOLEAN
  BY <1>1, Zenon
<1>4. TypeOK
  BY <1>1, <1>2, <1>3, NoStoreFits DEF TypeOK
<1>5. KeptStores
  BY <1>1 DEF KeptStores, Stored
<1>6. RunFits /\ StepFits /\ CallsFit /\ RowsFit /\ RecoveryMatches
  BY <1>1 DEF RunFits, StepFits, CallsFit, RowsFit, RecoveryMatches, Running, Solving
<1>7. RowsOnTime
  BY <1>1 DEF RowsOnTime
<1> QED BY <1>4, <1>5, <1>6, <1>7 DEF IInv

LEMMA StepKeeps == IInv /\ [Next]_vars => IInv'
<1> SUFFICES ASSUME IInv, [Next]_vars PROVE IInv'
  OBVIOUS
<1>1. CASE UNCHANGED vars
  BY <1>1 DEF vars, IInv, TypeOK, KeptStores, RunFits, StepFits, CallsFit, RowsFit, RowsOnTime,
              RecoveryMatches, Running, Solving, Top, StepDt, NextOutput, Earlier
<1>2. CASE Start \/ \E name \in {"latest", "final", "recovery"} : Resume(kept[name])
  BY <1>2, StartsKeep
<1>3. CASE Step
  <2>1. CASE StopCancelled
    BY <2>1, EndingsKeep DEF StopCancelled, Running
  <2>2. CASE StepLimit
    BY <2>2, EndingsKeep DEF StepLimit, Running
  <2>3. CASE SeeCancel
    BY <2>3, EndingsKeep DEF SeeCancel, Running
  <2> QED BY <1>3, <2>1, <2>2, <2>3, NextIntervalKeeps, CompleteKeeps, OutputKeeps,
             ReturnKeeps, BeginSolveKeeps, RejectKeeps, AcceptKeeps DEF Step
<1> QED BY <1>1, <1>2, <1>3, CancelKeeps, CrashKeeps DEF Next

LEMMA Invariance == Spec => []IInv
<1> QED BY Establishes, StepKeeps, PTL DEF Spec

(* The run, for any end, steps, levels and number of runs. *)

\* The state keeps its shape; no substep is cut beyond the levels allowed.
THEOREM TypeCorrect == Spec => []TypeOK
<1>1. IInv => TypeOK
  BY DEF IInv
<1> QED BY <1>1, Invariance, PTL

\* A run, its session and every checkpoint hold one unbroken path of boundaries (the
\* event log of stateStore.js), whatever was rejected, cut, cancelled, lost or resumed.
THEOREM PathsUnbroken == Spec => []Trajectory
<1>1. IInv => Trajectory
  <2> SUFFICES ASSUME IInv PROVE Trajectory
    OBVIOUS
  <2>1. /\ OnPath(store) /\ OnPath(session.store) /\ OnPath(session.checkpoint)
        /\ OnPath(kept.latest) /\ OnPath(kept.final) /\ OnPath(kept.recovery)
    BY StoredFits DEF IInv, KeptStores
  <2>2. DOMAIN kept = {"latest", "final", "recovery"}
    BY DEF IInv, TypeOK
  <2> QED BY <2>1, <2>2 DEF Trajectory
<1> QED BY <1>1, Invariance, PTL

\* The history has its rows exactly at the output times, however the steps between
\* them were cut (runMdofNewmark, integrateToTarget).
THEOREM RowsAtOutputs == Spec => []RowsOnTime
<1>1. IInv => RowsOnTime
  BY DEF IInv
<1> QED BY <1>1, Invariance, PTL

\* What a run that did not complete leaves to resume from is the last boundary of the
\* session, one before the run's own only when that one was refused.
THEOREM RecoveryIsLast == Spec => []RecoveryMatches
<1>1. IInv => RecoveryMatches
  BY DEF IInv
<1> QED BY <1>1, Invariance, PTL

\* No boundary is left behind once a cancel was asked for.
THEOREM CancelIsLast == Spec => CancelStops
<1>1. ASSUME IInv, Next, asked, Running, phase' # "idle"
      PROVE  store' = store
  <2>1. CASE Step
    BY <1>1, <2>1 DEF Step, NextInterval, StopCancelled, Complete, Output, Return, StepLimit,
                      BeginSolve, Converge, SeeCancel, Reject, Accept, Stop
  <2>2. CASE Start \/ \E name \in {"latest", "final", "recovery"} : Resume(kept[name])
    BY <1>1, <2>2 DEF Start, Resume
  <2> QED BY <1>1, <2>1, <2>2 DEF Next, Cancel, Crash
<1>2. IInv => store.revision \in Nat
  BY DEF IInv, TypeOK, Stores
<1>3. IInv /\ [Next]_vars =>
        [asked /\ Running /\ store'.revision > store.revision => phase' = "idle"]_vars
  BY <1>1, <1>2
<1> QED BY <1>3, Invariance, PTL DEF Spec, CancelStops
=============================================================================
