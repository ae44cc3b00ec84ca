-------------------------- MODULE ProductJobsProofs --------------------------
(***************************************************************************)
(* Proofs about ProductJobs.  The inductive invariant adds to the types    *)
(* how rows, runners and computations go together: a runner that has begun *)
(* has the turn unless its service is gone, a job that computes has such a *)
(* runner, and what is shown belongs to a job that has ended.              *)
(***************************************************************************)
EXTENDS ProductJobs, SequenceTheorems, TLAPS

USE ProductAssumption

Begun == {"running", "asked", "closing"}
RunnerStates == {"none", "waiting", "over"} \cup Begun

\* A runner belongs to a row, and one that waits to a row that may still begin.
RunnersFit ==
  \A j \in Jobs :
    /\ runner[j] # "none" => row[j].status # "none"
    /\ runner[j] = "waiting" => row[j].status \in {"queued", "cancelled"}

ComputingBegun == \A j \in computing : runner[j] \in Begun

BegunHasTurn ==
  \A j \in Jobs : runner[j] \in Begun /\ row[j].status # "gone" => Turn(j)

ShownFits ==
  shown.job # None => /\ row[shown.job].status \in Terminal
                      /\ row[shown.job].given = shown.identity

IInv == TypeOK /\ RunnersFit /\ ComputingBegun /\ BegunHasTurn /\ ShownFits
-----------------------------------------------------------------------------
(* The steps change rows and runners in few ways; each lemma is about one. *)

\* A row of its own, perhaps with a place in the queue (start, retry).
LEMMA EnterKeeps ==
  ASSUME IInv, NEW j \in Jobs, NEW kind \in Kinds, NEW case \in Cases \cup {None},
         NEW given \in Inputs \cup {None}, Enter(j, kind, case, given)
  PROVE  IInv' /\ \A k \in Jobs : k # j => row'[k] = row[k]
<1>1. PICK ok \in BOOLEAN :
        /\ row' = [row EXCEPT ![j] = [NoRow EXCEPT
                     !.status = IF ok THEN "queued" ELSE "blocked",
                     !.kind = kind, !.case = case, !.given = given]]
        /\ queue' = IF ok THEN Append(queue, j) ELSE queue
        /\ runner' = [runner EXCEPT ![j] = IF ok THEN "waiting" ELSE "none"]
  BY DEF Enter, Validations
<1>2. /\ row[j].status = "none"
      /\ UNCHANGED <<input, open, computing, catalog, shown, caseRow>>
  BY DEF Enter, Is, page
<1>3. /\ row \in [Jobs -> RowType] /\ queue \in Seq(Jobs)
      /\ runner \in [Jobs -> RunnerStates]
  BY DEF IInv, TypeOK, RunnerStates, Begun
<1> DEFINE new == [NoRow EXCEPT !.status = IF ok THEN "queued" ELSE "blocked",
                                !.kind = kind, !.case = case, !.given = given]
<1>4. new \in RowType /\ new.status = IF ok THEN "queued" ELSE "blocked"
  BY DEF NoRow, RowType, Terminal
<1>5. row' = [row EXCEPT ![j] = new]
  BY <1>1
<1> HIDE DEF new
<1>6. /\ row' \in [Jobs -> RowType] /\ row'[j] = new
      /\ \A k \in Jobs : k # j => row'[k] = row[k] /\ runner'[k] = runner[k]
  BY <1>1, <1>3, <1>4, <1>5
<1>7. queue' \in Seq(Jobs) /\ (queue # <<>> => queue' # <<>> /\ Head(queue') = Head(queue))
  BY <1>1, <1>3
<1>8. TypeOK'
  BY <1>1, <1>2, <1>6, <1>7 DEF IInv, TypeOK
<1>9. runner'[j] = (IF ok THEN "waiting" ELSE "none")
  BY <1>1, <1>3
<1>10. RunnersFit'
  BY <1>4, <1>6, <1>9 DEF IInv, RunnersFit
<1>11. runner[j] \notin Begun
  BY <1>2 DEF IInv, RunnersFit, Begun
<1>12. ComputingBegun'
  BY <1>2, <1>3, <1>6, <1>11 DEF IInv, ComputingBegun, TypeOK
<1>13. BegunHasTurn'
  BY <1>6, <1>7, <1>9 DEF IInv, BegunHasTurn, Begun, Turn
<1>14. ShownFits'
  BY <1>2, <1>6 DEF IInv, ShownFits, TypeOK, Terminal
<1> QED BY <1>6, <1>8, <1>10, <1>12, <1>13, <1>14 DEF IInv
\* A row that is open ends or begins to run; its runner follows (cancel, the executor).
LEMMA RowMoves ==
  ASSUME IInv, NEW j \in Jobs, row[j].status \in {"queued", "running"},
         NEW status \in {"running"} \cup Terminal, NEW result \in BOOLEAN,
         row' = [row EXCEPT ![j].status = status, ![j].result = result]
  PROVE  /\ row' \in [Jobs -> RowType]
         /\ row'[j].status = status /\ row'[j].given = row[j].given
         /\ \A k \in Jobs : k # j => row'[k] = row[k]
<1> DEFINE first == [row EXCEPT ![j].status = status]
<1>1. row \in [Jobs -> RowType]
  BY DEF IInv, TypeOK
<1>2. /\ first \in [Jobs -> RowType]
      /\ first[j].status = status /\ first[j].given = row[j].given
      /\ \A k \in Jobs : k # j => first[k] = row[k]
  BY <1>1 DEF RowType
<1>3. row' = [first EXCEPT ![j].result = result]
  OBVIOUS
<1> HIDE DEF first
<1>4. ASSUME NEW old \in RowType
      PROVE  /\ [old EXCEPT !.result = result] \in RowType
             /\ [old EXCEPT !.result = result].status = old.status
             /\ [old EXCEPT !.result = result].given = old.given
  BY DEF RowType
<1>5. first[j] \in RowType
  BY <1>2
<1>6. PICK last \in RowType : /\ last.status = status /\ last.given = row[j].given
                              /\ last = [first[j] EXCEPT !.result = result]
  BY <1>2, <1>4, <1>5
<1>7. row' = [first EXCEPT ![j] = last]
  BY <1>3, <1>6
<1> QED BY <1>2, <1>6, <1>7

\* A job in the turn hands it on; one whose service is gone has none to hand on.
LEMMA ReturnKeeps ==
  ASSUME IInv, NEW j \in Jobs, runner[j] \in Begun, Return(j),
         computing' = computing \ {j},
         \A k \in Jobs : k # j => row'[k] = row[k],
         row'[j].status # "none"
  PROVE  /\ runner' \in [Jobs -> RunnerStates] /\ queue' \in Seq(Jobs)
         /\ RunnersFit' /\ ComputingBegun' /\ BegunHasTurn'
<1>1. /\ queue \in Seq(Jobs) /\ runner \in [Jobs -> RunnerStates] /\ computing \subseteq Jobs
  BY DEF IInv, TypeOK, RunnerStates, Begun
<1>2. /\ runner' = [runner EXCEPT ![j] = "over"]
      /\ queue' = IF Turn(j) THEN Tail(queue) ELSE queue
  BY DEF Return
<1>3. runner' \in [Jobs -> RunnerStates] /\ queue' \in Seq(Jobs)
  BY <1>1, <1>2 DEF RunnerStates, Turn
<1>4. RunnersFit'
  BY <1>1, <1>2 DEF IInv, RunnersFit
<1>5. ComputingBegun'
  BY <1>1, <1>2 DEF IInv, ComputingBegun
<1>6. ASSUME NEW k \in Jobs, runner'[k] \in Begun, row'[k].status # "gone"
      PROVE  Turn(k)'
  <2>1. k # j /\ runner'[k] = runner[k] /\ row'[k] = row[k]
    BY <1>1, <1>2, <1>6 DEF Begun
  <2>2. Turn(k)
    BY <1>6, <2>1 DEF IInv, BegunHasTurn
  <2>3. ~Turn(j)
    BY <2>1, <2>2 DEF Turn
  <2> QED BY <1>2, <2>2, <2>3 DEF Turn
<1>7. BegunHasTurn'
  BY <1>6 DEF BegunHasTurn
<1> QED BY <1>3, <1>4, <1>5, <1>7

LEMMA CancelKeeps ==
  ASSUME IInv, NEW j \in Jobs, Cancel(j)
  PROVE  IInv' /\ \A k \in Jobs : k # j => row'[k] = row[k]
<1>1. /\ row[j].status \in {"queued", "running"}
      /\ row' = [row EXCEPT ![j].status = "cancelled"]
      /\ runner' = [runner EXCEPT ![j] = IF @ = "running" /\ row[j].kind \in InWorker
                                         THEN "asked" ELSE @]
      /\ UNCHANGED <<input, open, queue, computing, catalog, shown, caseRow>>
  BY DEF Cancel, Open, Is, page
<1>2. /\ row \in [Jobs -> RowType] /\ runner \in [Jobs -> RunnerStates]
      /\ computing \subseteq Jobs
  BY DEF IInv, TypeOK, RunnerStates, Begun
<1>3. /\ row' \in [Jobs -> RowType] /\ row'[j].status = "cancelled"
      /\ \A k \in Jobs : k # j => row'[k] = row[k]
  BY <1>1, <1>2 DEF RowType, Terminal
<1>4. /\ runner' \in [Jobs -> RunnerStates]
      /\ runner'[j] \in Begun <=> runner[j] \in Begun
      /\ \A k \in Jobs : k # j => runner'[k] = runner[k]
  BY <1>1, <1>2 DEF RunnerStates, Begun
<1>5. TypeOK'
  BY <1>1, <1>3, <1>4 DEF IInv, TypeOK, RunnerStates, Begun
<1>6. RunnersFit'
  BY <1>3, <1>4 DEF IInv, RunnersFit
<1>7. ComputingBegun'
  BY <1>1, <1>2, <1>4 DEF IInv, ComputingBegun
<1>8. BegunHasTurn'
  BY <1>1, <1>3, <1>4 DEF IInv, BegunHasTurn, Turn
<1>9. ShownFits'
  BY <1>1, <1>3 DEF IInv, ShownFits, TypeOK, Terminal
<1> QED BY <1>3, <1>5, <1>6, <1>7, <1>8, <1>9 DEF IInv

LEMMA BeginKeeps ==
  ASSUME IInv, NEW j \in Jobs, Begin(j)
  PROVE  /\ IInv' /\ UNCHANGED <<catalog, shown>>
         /\ \A k \in Jobs : row[k].status \notin {"none", "queued"} => row'[k] = row[k]
<1>1. /\ Turn(j) /\ runner[j] = "waiting"
      /\ UNCHANGED <<input, open, catalog, shown, caseRow>>
  BY DEF Begin, page
<1>2. /\ row \in [Jobs -> RowType] /\ runner \in [Jobs -> RunnerStates]
      /\ computing \subseteq Jobs /\ queue \in Seq(Jobs) /\ queue # <<>>
  BY <1>1 DEF IInv, TypeOK, RunnerStates, Begun, Turn
<1>3. \A k \in Jobs : runner[k] \in Begun => row[k].status = "gone"
  BY <1>1 DEF IInv, BegunHasTurn, Turn, Begun
<1>4. CASE row[j].status = "cancelled"
  <2>1. /\ runner' = [runner EXCEPT ![j] = "over"]
        /\ queue' = Tail(queue) /\ UNCHANGED <<row, computing>>
    BY <1>4 DEF Begin, Is
  <2>2. runner' \in [Jobs -> RunnerStates] /\ queue' \in Seq(Jobs)
    BY <1>2, <2>1 DEF RunnerStates
  <2>3. TypeOK' /\ ShownFits'
    BY <1>1, <2>1, <2>2 DEF IInv, TypeOK, ShownFits, RunnerStates, Begun
  <2>4. RunnersFit' /\ ComputingBegun' /\ BegunHasTurn'
    BY <1>1, <1>2, <1>3, <2>1
       DEF IInv, RunnersFit, ComputingBegun, BegunHasTurn, Begun
  <2> QED BY <1>1, <2>1, <2>3, <2>4 DEF IInv
<1>5. CASE row[j].status # "cancelled"
  <2>1. /\ row' = [row EXCEPT ![j].status = "running"]
        /\ runner' = [runner EXCEPT ![j] = "running"]
        /\ computing' = computing \cup {j} /\ queue' = queue
    BY <1>5 DEF Begin, Is
  <2>2. row[j].status = "queued"
    BY <1>1, <1>5 DEF IInv, RunnersFit
  <2>3. /\ row' \in [Jobs -> RowType] /\ row'[j].status = "running"
        /\ \A k \in Jobs : k # j => row'[k] = row[k]
    BY <1>2, <2>1 DEF RowType
  <2>4. /\ runner' \in [Jobs -> RunnerStates] /\ runner'[j] = "running"
        /\ \A k \in Jobs : k # j => runner'[k] = runner[k]
    BY <1>2, <2>1 DEF RunnerStates, Begun
  <2>5. TypeOK'
    BY <1>1, <1>2, <2>1, <2>3, <2>4 DEF IInv, TypeOK, RunnerStates, Begun
  <2>6. RunnersFit'
    BY <2>3, <2>4 DEF IInv, RunnersFit
  <2>7. ComputingBegun'
    BY <1>2, <2>1, <2>4 DEF IInv, ComputingBegun, Begun
  <2>8. BegunHasTurn'
    BY <1>1, <2>1, <2>3, <2>4 DEF IInv, BegunHasTurn, Turn
  <2>9. ShownFits'
    BY <1>1, <2>2, <2>3 DEF IInv, ShownFits, TypeOK, Terminal
  <2> QED BY <1>1, <2>2, <2>3, <2>5, <2>6, <2>7, <2>8, <2>9 DEF IInv
<1> QED BY <1>4, <1>5
\* The answer of a runner, whether it counts or not.
LEMMA AnswersKeep ==
  ASSUME IInv, NEW j \in Jobs, Ignore(j) \/ Fail(j) \/ Publish(j)
  PROVE  /\ IInv'
         /\ \A k \in Jobs : row[k].status # "running" => row'[k] = row[k]
         /\ \A k \in Jobs : row[k].status # "running" =>
              (k \in catalog' => k \in catalog) /\ (shown'.job = k => shown.job = k)
<1>1. /\ j \in computing /\ runner[j] \in Begun /\ Return(j)
      /\ computing' = computing \ {j} /\ UNCHANGED <<input, open>>
  BY DEF Ignore, Fail, Publish, Answers, Begun
<1>2. /\ row \in [Jobs -> RowType] /\ input \in Inputs /\ open \in BOOLEAN
      /\ computing \subseteq Jobs /\ catalog \subseteq Jobs
      /\ shown \in [job : Jobs \cup {None}, identity : Inputs \cup {None}]
      /\ caseRow \in [Cases -> {"none", "stale"} \cup Terminal]
  BY DEF IInv, TypeOK
<1>3. ASSUME row' \in [Jobs -> RowType], row'[j].status # "none",
             \A k \in Jobs : k # j => row'[k] = row[k]
      PROVE  /\ runner' \in [Jobs -> RunnerStates] /\ queue' \in Seq(Jobs)
             /\ RunnersFit' /\ ComputingBegun' /\ BegunHasTurn'
  BY <1>1, <1>3, ReturnKeeps
<1>4. CASE Ignore(j)
  <2>1. UNCHANGED <<row, catalog, shown, caseRow>> /\ row[j].status # "none"
    BY <1>4 DEF Ignore, Gone, Is, page
  <2>2. /\ runner' \in [Jobs -> RunnerStates] /\ queue' \in Seq(Jobs)
        /\ RunnersFit' /\ ComputingBegun' /\ BegunHasTurn'
    BY <1>2, <1>3, <2>1
  <2>3. TypeOK' /\ ShownFits'
    BY <1>1, <1>2, <2>1, <2>2 DEF IInv, TypeOK, ShownFits, RunnerStates, Begun
  <2> QED BY <2>1, <2>2, <2>3 DEF IInv
<1>5. CASE Fail(j)
  <2>1. /\ UNCHANGED <<catalog, shown, caseRow>> /\ row[j].status = "running"
        /\ row' = [row EXCEPT ![j].status = "failed"]
    BY <1>5 DEF Fail, Is, page
  <2>2. /\ row' \in [Jobs -> RowType] /\ row'[j].status = "failed"
        /\ \A k \in Jobs : k # j => row'[k] = row[k]
    BY <1>2, <2>1 DEF RowType, Terminal
  <2>3. /\ runner' \in [Jobs -> RunnerStates] /\ queue' \in Seq(Jobs)
        /\ RunnersFit' /\ ComputingBegun' /\ BegunHasTurn'
    BY <1>3, <2>2
  <2>4. TypeOK'
    BY <1>1, <1>2, <2>1, <2>2, <2>3 DEF TypeOK, RunnerStates, Begun
  <2>5. ShownFits'
    BY <1>2, <2>1, <2>2 DEF IInv, ShownFits, Terminal
  <2> QED BY <2>1, <2>2, <2>3, <2>4, <2>5 DEF IInv
<1>6. CASE Publish(j)
  <2>1. PICK status \in Outcomes, stored \in BOOLEAN, thrown \in BOOLEAN :
          /\ row' = [row EXCEPT ![j].status = IF thrown THEN "failed" ELSE status,
                                ![j].result = ~thrown]
          /\ Store(j, status, stored)
    BY <1>6 DEF Publish
  <2>2. row[j].status = "running"
    BY <1>6 DEF Publish, Is
  <2>3. PICK final \in Terminal :
          /\ row' \in [Jobs -> RowType] /\ row'[j].status = final
          /\ row'[j].given = row[j].given
          /\ \A k \in Jobs : k # j => row'[k] = row[k]
    <3>1. (IF thrown THEN "failed" ELSE status) \in Terminal
      BY DEF Outcomes, Terminal
    <3>2. (~thrown) \in BOOLEAN
      OBVIOUS
    <3> QED BY <2>1, <2>2, <3>1, <3>2, RowMoves
  <2>4. /\ runner' \in [Jobs -> RunnerStates] /\ queue' \in Seq(Jobs)
        /\ RunnersFit' /\ ComputingBegun' /\ BegunHasTurn'
    <3>1. final # "none"
      BY DEF Terminal
    <3> QED BY <1>3, <2>3, <3>1
  <2>5. catalog' = catalog \/ catalog' = catalog \cup {j}
    BY <2>1 DEF Store
  <2>6. \/ shown' = shown
        \/ shown' = [job |-> j, identity |-> input] /\ row[j].given = input
    BY <2>1 DEF Store
  <2>7. caseRow' \in [Cases -> {"none", "stale"} \cup Terminal]
    <3>1. status \in Terminal
      BY DEF Outcomes, Terminal
    <3> QED BY <1>2, <2>1, <3>1 DEF Store
  <2>8. TypeOK'
    <3>1. shown' \in [job : Jobs \cup {None}, identity : Inputs \cup {None}]
      BY <1>2, <2>6
    <3>2. catalog' \subseteq Jobs
      BY <1>2, <2>5
    <3> QED BY <1>1, <1>2, <2>3, <2>4, <2>7, <3>1, <3>2 DEF TypeOK, RunnerStates, Begun
  <2>9. ShownFits'
    <3>1. CASE shown' = shown
      BY <1>2, <2>2, <2>3, <3>1 DEF IInv, ShownFits, Terminal
    <3>2. CASE shown' = [job |-> j, identity |-> input] /\ row[j].given = input
      BY <2>3, <3>2 DEF ShownFits
    <3> QED BY <2>6, <3>1, <3>2
  <2> QED BY <2>2, <2>3, <2>4, <2>5, <2>6, <2>8, <2>9 DEF IInv
<1> QED BY <1>4, <1>5, <1>6

\* The grace of a cancelled run expires, its worker answers late or is gone.
LEMMA GraceKeeps ==
  ASSUME IInv, NEW j \in Jobs, GraceExpires(j) \/ LateAnswer(j) \/ Terminated(j)
  PROVE  IInv' /\ UNCHANGED <<row, catalog, shown>>
<1>1. UNCHANGED <<input, open, row, catalog, shown, caseRow>>
  BY DEF GraceExpires, LateAnswer, Terminated, page
<1>2. /\ runner \in [Jobs -> RunnerStates] /\ computing \subseteq Jobs /\ queue \in Seq(Jobs)
  BY DEF IInv, TypeOK, RunnerStates, Begun
<1>3. ASSUME runner' \in [Jobs -> RunnerStates], queue' \in Seq(Jobs), computing' \subseteq Jobs,
             RunnersFit', ComputingBegun', BegunHasTurn'
      PROVE  IInv'
  BY <1>1, <1>3 DEF IInv, TypeOK, ShownFits, RunnerStates, Begun
<1>4. CASE GraceExpires(j)
  <2>1. /\ runner[j] = "asked" /\ runner' = [runner EXCEPT ![j] = "closing"]
        /\ UNCHANGED <<queue, computing>>
    BY <1>4 DEF GraceExpires
  <2>2. runner' \in [Jobs -> RunnerStates]
    BY <1>2, <2>1 DEF RunnerStates, Begun
  <2>3. RunnersFit' /\ ComputingBegun' /\ BegunHasTurn'
    BY <1>1, <1>2, <2>1 DEF IInv, RunnersFit, ComputingBegun, BegunHasTurn, Begun, Turn
  <2> QED BY <1>1, <1>2, <1>3, <2>1, <2>2, <2>3
<1>5. CASE LateAnswer(j)
  <2>1. computing' = computing \ {j} /\ UNCHANGED <<queue, runner>>
    BY <1>5 DEF LateAnswer
  <2>2. RunnersFit' /\ ComputingBegun' /\ BegunHasTurn'
    BY <1>1, <2>1 DEF IInv, RunnersFit, ComputingBegun, BegunHasTurn, Turn
  <2> QED BY <1>1, <1>2, <1>3, <2>1, <2>2
<1>6. CASE Terminated(j)
  <2>1. runner[j] = "closing" /\ computing' = computing \ {j} /\ Return(j)
    BY <1>6 DEF Terminated
  <2>2. row[j].status # "none"
    BY <2>1 DEF IInv, RunnersFit
  <2>3. /\ runner' \in [Jobs -> RunnerStates] /\ queue' \in Seq(Jobs)
        /\ RunnersFit' /\ ComputingBegun' /\ BegunHasTurn'
    BY <1>1, <2>1, <2>2, ReturnKeeps DEF Begun
  <2> QED BY <1>1, <1>2, <1>3, <2>1, <2>3
<1> QED BY <1>4, <1>5, <1>6

\* Whatever still runs after a disposal belongs to no service.
LEMMA DisposeKeeps ==
  ASSUME IInv, Dispose
  PROVE  /\ IInv' /\ catalog' = {} /\ shown'.job = None
         /\ \A k \in Jobs : row[k].status # "none" => row'[k].status = "gone"
<1>1. /\ row' = [j \in Jobs |-> IF row[j].status = "none" THEN NoRow
                                ELSE [NoRow EXCEPT !.status = "gone", !.kind = row[j].kind]]
      /\ runner' = [j \in Jobs |-> IF runner[j] = "none" \/ j \in computing' THEN runner[j]
                                   ELSE "over"]
      /\ computing' = {j \in computing : row[j].kind \notin InWorker}
      /\ queue' = <<>> /\ catalog' = {} /\ shown' = NothingShown /\ open' = FALSE
      /\ UNCHANGED <<input, caseRow>>
  BY DEF Dispose, Is
<1>2. /\ row \in [Jobs -> RowType] /\ runner \in [Jobs -> RunnerStates]
      /\ computing \subseteq Jobs
  BY DEF IInv, TypeOK, RunnerStates, Begun
<1>3. ASSUME NEW k \in Jobs
      PROVE  /\ row'[k] \in RowType
             /\ row[k].status # "none" => row'[k].status = "gone"
             /\ row'[k].status = "none" => row[k].status = "none"
  <2>1. ASSUME NEW kind \in Kinds
        PROVE  /\ [NoRow EXCEPT !.status = "gone", !.kind = kind] \in RowType
               /\ [NoRow EXCEPT !.status = "gone", !.kind = kind].status = "gone"
    BY DEF NoRow, RowType
  <2>2. NoRow \in RowType /\ NoRow.status = "none"
    BY DEF NoRow, RowType, Kinds
  <2>3. row[k].kind \in Kinds
    BY <1>2 DEF RowType
  <2>4. row'[k] = IF row[k].status = "none" THEN NoRow
                  ELSE [NoRow EXCEPT !.status = "gone", !.kind = row[k].kind]
    BY <1>1
  <2> QED BY <2>1, <2>2, <2>3, <2>4
<1>4. row' \in [Jobs -> RowType]
  <2>1. row' = [k \in Jobs |-> row'[k]]
    BY <1>1
  <2> QED BY <1>3, <2>1, Zenon
<1>5. runner' \in [Jobs -> RunnerStates]
  BY <1>1, <1>2 DEF RunnerStates
<1>6. NothingShown \in [job : Jobs \cup {None}, identity : Inputs \cup {None}] /\ NothingShown.job = None
  BY DEF NothingShown
<1>7. TypeOK'
  <2>1. queue' \in Seq(Jobs) /\ computing' \subseteq Jobs /\ catalog' \subseteq Jobs
    <3>1. << >> \in Seq(Jobs)
      OBVIOUS
    <3> QED BY <1>1, <1>2, <3>1
  <2>2. shown' \in [job : Jobs \cup {None}, identity : Inputs \cup {None}]
    BY <1>1, <1>6
  <2> QED BY <1>1, <1>4, <1>5, <2>1, <2>2 DEF IInv, TypeOK, RunnerStates, Begun
<1>8. ComputingBegun'
  BY <1>1, <1>2 DEF IInv, ComputingBegun
<1>9. RunnersFit'
  <2>1. ASSUME NEW k \in Jobs
        PROVE  (runner'[k] # "none" => row'[k].status # "none") /\ runner'[k] # "waiting"
    <3>1. runner'[k] = runner[k] \/ runner'[k] = "over"
      BY <1>1
    <3>2. runner'[k] # "none" => row[k].status # "none"
      BY <1>1 DEF IInv, RunnersFit
    <3>3. runner'[k] # "waiting"
      BY <1>1, <1>2 DEF IInv, ComputingBegun, Begun
    <3> QED BY <1>3, <3>2, <3>3
  <2> QED BY <2>1 DEF RunnersFit
<1>10. BegunHasTurn'
  <2>1. ASSUME NEW k \in Jobs, runner'[k] \in Begun
        PROVE  row'[k].status = "gone"
    <3>1. runner[k] # "none"
      BY <1>1, <2>1 DEF Begun
    <3> QED BY <1>3, <3>1 DEF IInv, RunnersFit
  <2> QED BY <2>1 DEF BegunHasTurn
<1>11. ShownFits'
  BY <1>1, <1>6 DEF ShownFits
<1> QED BY <1>1, <1>3, <1>6, <1>7, <1>8, <1>9, <1>10, <1>11 DEF IInv
-----------------------------------------------------------------------------
LEMMA Establishes ==
  Init => IInv
<1> SUFFICES ASSUME Init PROVE IInv
  OBVIOUS
<1>1. NoRow \in RowType /\ NoRow.status = "none"
  BY DEF NoRow, RowType, Kinds
<1>2. row \in [Jobs -> RowType] /\ queue \in Seq(Jobs)
  <2>1. << >> \in Seq(Jobs)
    OBVIOUS
  <2> QED BY <1>1, <2>1 DEF Init
<1>3. shown \in [job : Jobs \cup {None}, identity : Inputs \cup {None}] /\ shown.job = None
  BY DEF Init, NothingShown
<1>4. TypeOK
  BY <1>2, <1>3 DEF Init, TypeOK
<1> QED
  BY <1>3, <1>4
     DEF Init, IInv, RunnersFit, ComputingBegun, BegunHasTurn, ShownFits, Begun

\* What a step may do to a row, the results and what is shown.
RowsEnd ==
  \A j \in Jobs : row[j].status \in Terminal => row'[j] = row[j] \/ row'[j].status = "gone"

AnswersDrop ==
  \A j \in Jobs : row[j].status \in {"cancelled", "gone"} =>
    (j \in catalog' => j \in catalog) /\ (shown'.job = j => shown.job = j)

LEMMA StepKeeps ==
  IInv /\ [Next]_vars => IInv' /\ RowsEnd /\ AnswersDrop
<1> SUFFICES ASSUME IInv, [Next]_vars PROVE IInv' /\ RowsEnd /\ AnswersDrop
  OBVIOUS
<1> USE DEF RowsEnd, AnswersDrop
<1>1. CASE UNCHANGED vars
  BY <1>1 DEF vars, IInv, TypeOK, RunnersFit, ComputingBegun, BegunHasTurn, ShownFits, Turn
<1>2. CASE Edit
  BY <1>2 DEF Edit, page, IInv, TypeOK, RunnersFit, ComputingBegun, BegunHasTurn, ShownFits, Turn
<1>3. CASE Reopen
  BY <1>3 DEF Reopen, page, IInv, TypeOK, RunnersFit, ComputingBegun, BegunHasTurn, ShownFits, Turn
<1>4. CASE Dispose
  <2>1. \A j \in Jobs : row[j].status \in Terminal \cup {"gone"} => row[j].status # "none"
    BY DEF Terminal
  <2>2. IInv' /\ RowsEnd
    BY <1>4, <2>1, DisposeKeeps
  <2> QED BY <1>4, <2>2, DisposeKeeps
<1>5. ASSUME NEW j \in Jobs, NEW kind \in Kinds, NEW case \in Cases \cup {None},
             NEW given \in Inputs \cup {None}, Enter(j, kind, case, given)
      PROVE  IInv' /\ RowsEnd /\ AnswersDrop
  <2>1. row[j].status = "none" /\ UNCHANGED <<catalog, shown>>
    BY <1>5 DEF Enter, Is, page
  <2> QED BY <1>5, <2>1, EnterKeeps DEF Terminal
<1>6. ASSUME NEW j \in Jobs, JobStep(j)
      PROVE  IInv' /\ RowsEnd /\ AnswersDrop
  <2>1. CASE Start(j)
    <3>1. PICK kind \in Kinds, c \in Cases : Enter(j, kind, c, input)
      BY <2>1 DEF Start
    <3>2. input \in Inputs
      BY DEF IInv, TypeOK
    <3> QED BY <1>5, <3>1, <3>2
  <2>2. CASE Cancel(j)
    <3>1. row[j].status \in {"queued", "running"} /\ UNCHANGED <<catalog, shown>>
      BY <2>2 DEF Cancel, Open, Is, page
    <3> QED BY <2>2, <3>1, CancelKeeps DEF Terminal
  <2>3. CASE Begin(j)
    BY <2>3, BeginKeeps DEF Terminal
  <2>4. CASE Ignore(j) \/ Fail(j) \/ Publish(j)
    BY <2>4, AnswersKeep DEF Terminal
  <2>5. CASE GraceExpires(j) \/ LateAnswer(j) \/ Terminated(j)
    BY <2>5, GraceKeeps
  <2> QED BY <1>6, <2>1, <2>2, <2>3, <2>4, <2>5 DEF JobStep
<1>7. ASSUME NEW j \in Jobs, NEW k \in Jobs, Retry(k, j)
      PROVE  IInv' /\ RowsEnd /\ AnswersDrop
  <2>1. /\ row[k].kind \in Kinds /\ row[k].case \in Cases \cup {None}
        /\ row[k].given \in Inputs \cup {None}
    BY DEF IInv, TypeOK, RowType
  <2>2. Enter(j, row[k].kind, row[k].case, row[k].given)
    BY <1>7 DEF Retry
  <2> QED BY <1>5, <2>1, <2>2
<1> QED BY <1>1, <1>2, <1>3, <1>4, <1>6, <1>7 DEF Next

LEMMA Invariance == Spec => []IInv
<1> QED BY Establishes, StepKeeps, PTL DEF Spec

(* The service, for any jobs, cases and models. *)

\* The state keeps its shape: rows, queue, runners and what the page holds.
THEOREM TypeCorrect == Spec => []TypeOK
<1>1. IInv => TypeOK
  BY DEF IInv
<1> QED BY <1>1, Invariance, PTL

\* The result handed out as that of the present model was computed on that model
\* (getLastResult compares identities of analysis inputs).
THEOREM ResultsFit == Spec => []HandedOutFits
<1>1. IInv => HandedOutFits
  BY DEF IInv, ShownFits, HandedOutFits
<1> QED BY <1>1, Invariance, PTL

\* Two computations of one service never overlap: whoever has begun has the turn of the
\* execution queue until its run, or the termination of its worker, is over.
THEOREM ComputationsAlone == Spec => []OneComputation
<1>1. IInv => OneComputation
  BY DEF IInv, TypeOK, ComputingBegun, BegunHasTurn, OneComputation, Gone, Is, Turn
<1> QED BY <1>1, Invariance, PTL

\* An answer that comes after its job was cancelled, or after its service has gone,
\* changes neither the job nor the results and cases of the page.
THEOREM AnswersDropped == Spec => LateAnswersDropped
<1>1. IInv /\ [Next]_vars =>
        [\A j \in Jobs :
           /\ Is(j, Terminal) => row'[j] = row[j] \/ row'[j].status = "gone"
           /\ Is(j, {"cancelled", "gone"}) => (j \in catalog' => j \in catalog)
                                              /\ (shown'.job = j => shown.job = j)]_vars
  BY StepKeeps DEF RowsEnd, AnswersDrop, Is
<1> QED BY <1>1, Invariance, PTL DEF Spec, LateAnswersDropped
=============================================================================
