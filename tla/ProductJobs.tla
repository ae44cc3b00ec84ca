----------------------------- MODULE ProductJobs -----------------------------
(***************************************************************************)
(* The product analysis service (compute/product/analysisProductService.js) *)
(* as indexBridge.js instantiates it: rows of jobs, one execution queue,   *)
(* the runner with its bounded cancellation                                *)
(* (boundedWorkerCancellation.js), and the publication of a result on the  *)
(* page.                                                                   *)
(*                                                                         *)
(* A static case runs in a worker, and so do modal and spectrum cases, to  *)
(* which everything here applies except that they are not handed out as    *)
(* lastResult; the other kinds run on the page and do not listen to an     *)
(* abort.  The handler of a publication does not await anything, so it is  *)
(* one step with the answer of the runner.  A model is its input identity. *)
(* Nonlinear cases are handed to NonlinearJobs and leave no row here.      *)
(*                                                                         *)
(* Bounds: Jobs, one start each; Limit stands for the nine open rows.      *)
(***************************************************************************)
EXTENDS Naturals, Sequences, FiniteSets

CONSTANTS Jobs, Cases, Inputs, None, Limit

ASSUME ProductAssumption ==
  /\ Inputs # {} /\ None \notin Jobs \cup Inputs
  /\ Limit \in Nat

VARIABLES
  input,     \* identity of the model the user is editing
  open,      \* a service that is not disposed exists
  row,       \* rows of jobs
  queue,     \* executionQueue: whose turn it is, and who waits
  runner,    \* the executor of a job and the cancellation around its run
  computing, \* jobs whose computation has not stopped
  catalog,   \* jobs whose result is recorded
  shown,     \* lastResult and lastResultIdentity
  caseRow    \* status of the analysis cases of the model

vars == <<input, open, row, queue, runner, computing, catalog, shown, caseRow>>
page == <<catalog, shown, caseRow>>

Kinds == {"static", "other"}
InWorker == {"static"}
Terminal == {"completed", "failed", "blocked", "cancelled"}

NoRow == [status |-> "none", kind |-> "other", case |-> None, given |-> None, result |-> FALSE]
NothingShown == [job |-> None, identity |-> None]

Init ==
  /\ input \in Inputs
  /\ open = TRUE
  /\ row = [j \in Jobs |-> NoRow]
  /\ queue = <<>>
  /\ runner = [j \in Jobs |-> "none"]
  /\ computing = {}
  /\ catalog = {}
  /\ shown = NothingShown
  /\ caseRow = [c \in Cases |-> "none"]

Is(j, statuses) == row[j].status \in statuses
Gone(j) == Is(j, {"gone"})             \* its service has been disposed
Open(j) == Is(j, {"queued", "running"})
-----------------------------------------------------------------------------
Edit ==
  /\ \E i \in Inputs \ {input} : input' = i
  /\ UNCHANGED <<open, row, queue, runner, computing, page>>

Validations == BOOLEAN \* whether validate finds nothing that blocks the case

Enter(j, kind, case, given) ==
  /\ open
  /\ Is(j, {"none"}) /\ j = CHOOSE k \in Jobs : Is(k, {"none"})
  /\ Cardinality({k \in Jobs : Open(k)}) < Limit
  /\ \E ok \in Validations :
       /\ row' = [row EXCEPT ![j] = [NoRow EXCEPT
                    !.status = IF ok THEN "queued" ELSE "blocked",
                    !.kind = kind, !.case = case, !.given = given]]
       /\ queue' = IF ok THEN Append(queue, j) ELSE queue
       /\ runner' = [runner EXCEPT ![j] = IF ok THEN "waiting" ELSE "none"]
  /\ UNCHANGED <<input, open, computing, page>>

Start(j) == \E kind \in Kinds, c \in Cases : Enter(j, kind, c, input)

\* On the model of the job that is retried, not on the present one.
Retry(k, j) ==
  /\ Is(k, {"failed", "blocked", "cancelled"})
  /\ Enter(j, row[k].kind, row[k].case, row[k].given)

Cancel_StartsNext(j) == \* mutant: the queue goes on as soon as the row has ended
  /\ Open(j)
  /\ row' = [row EXCEPT ![j].status = "cancelled"]
  /\ runner' = [runner EXCEPT ![j] = IF @ = "running" /\ row[j].kind \in InWorker
                                     THEN "asked" ELSE @]
  /\ queue' = SelectSeq(queue, LAMBDA k : k # j)
  /\ UNCHANGED <<input, open, computing, page>>

\* The row ends at once.  A run in a worker is asked to stop, with a grace timer.
Cancel(j) ==
  /\ Open(j)
  /\ row' = [row EXCEPT ![j].status = "cancelled"]
  /\ runner' = [runner EXCEPT ![j] = IF @ = "running" /\ row[j].kind \in InWorker
                                     THEN "asked" ELSE @]
  /\ UNCHANGED <<input, open, queue, computing, page>>
-----------------------------------------------------------------------------
(* The executor. *)

Turn(j) == queue # <<>> /\ Head(queue) = j

Begin(j) ==
  /\ Turn(j) /\ runner[j] = "waiting"
  /\ IF Is(j, {"cancelled"})
     THEN /\ runner' = [runner EXCEPT ![j] = "over"]
          /\ queue' = Tail(queue)
          /\ UNCHANGED <<row, computing>>
     ELSE /\ row' = [row EXCEPT ![j].status = "running"]
          /\ runner' = [runner EXCEPT ![j] = "running"]
          /\ computing' = computing \cup {j}
          /\ UNCHANGED queue
  /\ UNCHANGED <<input, open, page>>

Outcomes == {"completed", "failed", "blocked"} \* what a result makes of its job

\* The promise of the runner is settled: the next job has its turn.
Return(j) ==
  /\ runner' = [runner EXCEPT ![j] = "over"]
  /\ queue' = IF Turn(j) THEN Tail(queue) ELSE queue

Answers(j) ==
  /\ j \in computing
  /\ runner[j] \in {"running", "asked"}
  /\ computing' = computing \ {j}
  /\ Return(j)
  /\ UNCHANGED <<input, open>>

Ignore(j) ==
  /\ Answers(j)
  /\ Gone(j) \/ Is(j, {"cancelled"})
  /\ UNCHANGED <<row, page>>

Fail(j) ==
  /\ Answers(j)
  /\ Is(j, {"running"})
  /\ row' = [row EXCEPT ![j].status = "failed"]
  /\ UNCHANGED page

\* storeAnalysisResult and what follows it on the page.
Store_AsCurrent(j, status, stored) == \* mutant: the identities are not compared
  /\ catalog' = IF stored THEN catalog \cup {j} ELSE catalog
  /\ caseRow' = [caseRow EXCEPT ![row[j].case] = IF stored THEN status ELSE @]
  /\ shown' = IF stored /\ status = "completed" /\ row[j].kind = "static"
              THEN [job |-> j, identity |-> input] ELSE shown

Store(j, status, stored) ==
  LET current == row[j].given = input IN
  /\ catalog' = IF stored THEN catalog \cup {j} ELSE catalog
  /\ caseRow' = [caseRow EXCEPT ![row[j].case] = IF ~current THEN "stale"
                                                 ELSE IF stored THEN status ELSE @]
  /\ shown' = IF current /\ stored /\ status = "completed" /\ row[j].kind = "static"
              THEN [job |-> j, identity |-> input] ELSE shown

Publish_NotAsked(j) == \* mutant: the row is not looked at again after the await
  /\ Answers(j)
  /\ ~Gone(j)
  /\ \E status \in Outcomes, stored, thrown \in BOOLEAN :
       /\ stored \/ thrown
       /\ row' = [row EXCEPT ![j].status = IF thrown THEN "failed" ELSE status,
                             ![j].result = ~thrown]
       /\ Store(j, status, stored)

\* The publication may fail, before or after the result is recorded.
Publish(j) ==
  /\ Answers(j)
  /\ Is(j, {"running"})
  /\ \E status \in Outcomes, stored, thrown \in BOOLEAN :
       /\ stored \/ thrown
       /\ row' = [row EXCEPT ![j].status = IF thrown THEN "failed" ELSE status,
                             ![j].result = ~thrown]
       /\ Store(j, status, stored)

GraceExpires(j) ==
  /\ runner[j] = "asked"
  /\ runner' = [runner EXCEPT ![j] = "closing"]
  /\ UNCHANGED <<input, open, row, queue, computing, page>>

\* An answer while the worker is being terminated waits for the termination.
LateAnswer(j) ==
  /\ runner[j] = "closing" /\ j \in computing
  /\ computing' = computing \ {j}
  /\ UNCHANGED <<input, open, row, queue, runner, page>>

Terminated_Unanswered(j) == \* mutant: the run is not rejected when its worker has gone
  /\ runner[j] = "closing"
  /\ computing' = computing \ {j}
  /\ runner' = [runner EXCEPT ![j] = "over"]
  /\ UNCHANGED <<input, open, row, queue, page>>

Terminated(j) ==
  /\ runner[j] = "closing"
  /\ computing' = computing \ {j}
  /\ Return(j)
  /\ UNCHANGED <<input, open, row, page>>
-----------------------------------------------------------------------------
(* The page is hidden and shown again, or its results are released. *)

Dispose ==
  /\ open
  /\ open' = FALSE
  /\ row' = [j \in Jobs |-> IF Is(j, {"none"}) THEN NoRow
                            ELSE [NoRow EXCEPT !.status = "gone", !.kind = row[j].kind]]
  /\ queue' = <<>>
  /\ computing' = {j \in computing : row[j].kind \notin InWorker}
  /\ runner' = [j \in Jobs |-> IF runner[j] = "none" \/ j \in computing' THEN runner[j] ELSE "over"]
  /\ catalog' = {}
  /\ shown' = NothingShown
  /\ UNCHANGED <<input, caseRow>>

Reopen ==
  /\ ~open
  /\ open' = TRUE
  /\ UNCHANGED <<input, row, queue, runner, computing, page>>
-----------------------------------------------------------------------------
JobStep(j) ==
  \/ Start(j) \/ Cancel(j) \/ Begin(j)
  \/ Ignore(j) \/ Fail(j) \/ Publish(j)
  \/ GraceExpires(j) \/ LateAnswer(j) \/ Terminated(j)

Next ==
  \/ Edit \/ Dispose \/ Reopen
  \/ \E j \in Jobs : JobStep(j)
  \/ \E j, k \in Jobs : Retry(k, j)

\* A computation that nobody has asked to stop.
AnswersUnasked(j) == runner[j] = "running" /\ (Ignore(j) \/ Fail(j) \/ Publish(j))

\* The microtask of the queue and the timers run, a termination settles, and a
\* computation ends some day unless it was asked to stop: then it may hang.
Fairness ==
  \A j \in Jobs : /\ WF_vars(Begin(j))
                  /\ WF_vars(AnswersUnasked(j))
                  /\ WF_vars(GraceExpires(j))
                  /\ WF_vars(Terminated(j))

Spec == Init /\ [][Next]_vars /\ Fairness
-----------------------------------------------------------------------------
RowType == [status : {"none", "gone", "queued", "running"} \cup Terminal, kind : Kinds,
            case : Cases \cup {None}, given : Inputs \cup {None}, result : BOOLEAN]

\* The state has its intended shape.
TypeOK ==
  /\ input \in Inputs
  /\ open \in BOOLEAN
  /\ row \in [Jobs -> RowType]
  /\ queue \in Seq(Jobs)
  /\ runner \in [Jobs -> {"none", "waiting", "running", "asked", "closing", "over"}]
  /\ computing \subseteq Jobs
  /\ catalog \subseteq Jobs
  /\ shown \in [job : Jobs \cup {None}, identity : Inputs \cup {None}]
  /\ caseRow \in [Cases -> {"none", "stale"} \cup Terminal]

\* What getLastResult hands out as the result of the present model was computed on
\* that model, although the model may change and change back while a job waits, runs,
\* fails and is retried.
HandedOutFits ==
  shown.job # None /\ shown.identity = input => row[shown.job].given = input

\* The computations of one service do not overlap, not even when a row was cancelled
\* and its worker is still being stopped.
OneComputation ==
  \A j, k \in computing : ~Gone(j) /\ ~Gone(k) => j = k

\* A late answer changes nothing: neither the row of a job that has ended nor, after
\* a cancellation or the end of the service, the results and cases of the page.
LateAnswersDropped ==
  [][\A j \in Jobs :
       /\ Is(j, Terminal) => row'[j] = row[j] \/ row'[j].status = "gone"
       /\ Is(j, {"cancelled", "gone"}) => (j \in catalog' => j \in catalog)
                                          /\ (shown'.job = j => shown.job = j)]_vars

\* Every queued job has its turn or ends: a cancelled worker that never answers does not
\* hold up the jobs behind it.
TurnComes == \A j \in Jobs : Is(j, {"queued"}) ~> ~Is(j, {"queued"})
=============================================================================
