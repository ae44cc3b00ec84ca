----------------------------- MODULE WorkerLease -----------------------------
(***************************************************************************)
(* Memory admission held by a worker for as long as the worker may run.    *)
(* A caller (candidateAnalysisClient.js, run) reserves its working set,    *)
(* runs one bounded task (src/core/boundedWorkerTask.js) and releases the  *)
(* reservation when the task settles; workerBudgetObservers.js lets the    *)
(* task quarantine the reservation instead when the worker's end is not    *)
(* confirmed in time.  Abort, time-out, answer, error, exit, a factory     *)
(* that answers late and a terminate() that hangs or rejects race freely.  *)
(*                                                                         *)
(* One owner per task.  Web workers are told apart from Node workers: the  *)
(* former die inside terminate() and never report an exit.                 *)
(***************************************************************************)
EXTENDS ResourceBudget

CONSTANT Web   \* the tasks whose worker is a browser Worker
ASSUME WebAssumption == Web \subseteq Owners

VARIABLES task,      \* "idle", "refused", "open" (promise pending, not finished) or "done"
          factory,   \* "none", "scheduled", "called", "delivered", "late", "over"
          worker,    \* the operating-system worker: "none", "live", "exited"
          exited,    \* exitConfirmed: the task has proof that the worker ended
          held,      \* quarantined, the task's own flag
          watching,  \* proofExit is registered on the worker's exit event
          term,      \* terminate() promise awaited: "none", "pending", "late", "over"
          grace,     \* terminationTimer: "off", "armed", "expired"
          verdict,   \* what finish was called with
          outcome    \* how the promise settled, "pending" until then

taskVars == <<task, factory, worker, exited, held, watching, term, grace, verdict, outcome>>
vars == <<budgetVars, taskVars>>

Verdicts == {"none", "result", "cancelled", "timeout", "failed"}
Outcomes == Verdicts \cup {"pending", "refused", "terminationTimeout", "terminationFailed", "closed"}

Init ==
  /\ BudgetInit
  /\ task = [t \in Owners |-> "idle"]
  /\ factory = [t \in Owners |-> "none"]
  /\ worker = [t \in Owners |-> "none"]
  /\ exited = [t \in Owners |-> FALSE]
  /\ held = [t \in Owners |-> FALSE]
  /\ watching = [t \in Owners |-> FALSE]
  /\ term = [t \in Owners |-> "none"]
  /\ grace = [t \in Owners |-> "off"]
  /\ verdict = [t \in Owners |-> "none"]
  /\ outcome = [t \in Owners |-> "pending"]

FactoryPending(t) == factory[t] \in {"scheduled", "called"}
Set(f, t, v) == f' = [f EXCEPT ![t] = v]

\* The task's observers.  An observer that throws leaves the flag clear.
Unconfirmed(t) ==
  IF ~held[t] /\ t \in owners
  THEN Quarantine(t) /\ Set(held, t, TRUE)
  ELSE UNCHANGED <<budgetVars, held>>

ProofExit(t) ==
  /\ Set(exited, t, TRUE)
  /\ Set(held, t, FALSE)
  /\ IF held[t] THEN ConfirmTermination(t) ELSE UNCHANGED budgetVars

\* A promise settles once: later calls of resolve or reject have no effect.
Settle(t, v) == outcome' = IF outcome[t] = "pending" THEN [outcome EXCEPT ![t] = v] ELSE outcome

Finish_ForgetsFactory(t, v) == \* mutant: a factory still at work is not quarantined
  /\ task[t] = "open"
  /\ Set(task, t, "done")
  /\ Set(verdict, t, v)
  /\ IF factory[t] = "delivered"
     THEN /\ Set(watching, t, t \notin Web)
          /\ Set(worker, t, IF t \in Web THEN "exited" ELSE worker[t])
          /\ Set(term, t, "pending")
          /\ Set(grace, t, "armed")
          /\ UNCHANGED <<budgetVars, held, outcome>>
     ELSE Settle(t, v) /\ UNCHANGED <<budgetVars, held, watching, worker, term, grace>>

Finish_NoGraceTimer(t, v) == \* mutant: terminationTimer is never armed
  /\ task[t] = "open"
  /\ Set(task, t, "done")
  /\ Set(verdict, t, v)
  /\ IF factory[t] = "delivered"
     THEN /\ Set(watching, t, t \notin Web)
          /\ Set(worker, t, IF t \in Web THEN "exited" ELSE worker[t])
          /\ Set(term, t, "pending")
          /\ UNCHANGED <<budgetVars, held, outcome, grace>>
     ELSE /\ IF FactoryPending(t) THEN Unconfirmed(t) ELSE UNCHANGED <<budgetVars, held>>
          /\ Settle(t, v)
          /\ UNCHANGED <<watching, worker, term, grace>>

\* finish(): only the first caller decides.  With a worker attached the task
\* stays pending until terminate() settles or the grace timer fires; without
\* one it settles at once, and a factory still at work is quarantined.
Finish(t, v) ==
  /\ task[t] = "open"
  /\ Set(task, t, "done")
  /\ Set(verdict, t, v)
  /\ IF factory[t] = "delivered"
     THEN /\ Set(watching, t, t \notin Web)
          /\ Set(worker, t, IF t \in Web THEN "exited" ELSE worker[t])
          /\ Set(term, t, "pending")
          /\ Set(grace, t, "armed")
          /\ UNCHANGED <<budgetVars, held, outcome>>
     ELSE /\ IF FactoryPending(t) THEN Unconfirmed(t) ELSE UNCHANGED <<budgetVars, held>>
          /\ Settle(t, v)
          /\ UNCHANGED <<watching, worker, term, grace>>
-----------------------------------------------------------------------------
\* The caller reserves; a refusal ends the call before any worker exists.
Start(t, b) ==
  /\ task[t] = "idle"
  /\ Reserve(t, b)
  /\ \E aborted \in BOOLEAN :
       IF aborted
       THEN Set(task, t, "done") /\ Settle(t, "cancelled") /\ UNCHANGED factory
       ELSE Set(task, t, "open") /\ Set(factory, t, "scheduled") /\ UNCHANGED outcome
  /\ UNCHANGED <<worker, exited, held, watching, term, grace, verdict>>

Refuse(t, b) ==
  /\ task[t] = "idle"
  /\ ~Admits(t, b)
  /\ Set(task, t, "refused")
  /\ Settle(t, "refused")
  /\ UNCHANGED <<budgetVars, factory, worker, exited, held, watching, term, grace, verdict>>

\* The caller's finally block, after the promise settled.
Close(t) ==
  /\ outcome[t] \notin {"pending", "refused", "closed"}
  /\ Set(outcome, t, "closed")
  /\ Release(t)
  /\ UNCHANGED <<task, factory, worker, exited, held, watching, term, grace, verdict>>

Abort(t) == Finish(t, "cancelled") /\ UNCHANGED <<factory, exited>>
Timeout(t) == Finish(t, "timeout") /\ UNCHANGED <<factory, exited>>

\* The microtask that calls the factory, or skips it for a finished task.
CallFactory(t) ==
  /\ factory[t] = "scheduled"
  /\ IF task[t] = "open"
     THEN Set(factory, t, "called") /\ UNCHANGED <<budgetVars, exited, held>>
     ELSE Set(factory, t, "over") /\ ProofExit(t)
  /\ UNCHANGED <<task, worker, watching, term, grace, verdict, outcome>>

FactoryResolves(t) ==
  /\ factory[t] = "called"
  /\ IF task[t] = "open"
     THEN /\ Set(factory, t, "delivered")
          /\ Set(worker, t, "live")
          /\ UNCHANGED <<watching, term>>
     ELSE /\ Set(factory, t, "late")
          /\ Set(watching, t, t \notin Web)
          /\ Set(worker, t, IF t \in Web THEN "exited" ELSE "live")
          /\ Set(term, t, "late")
  /\ UNCHANGED <<budgetVars, task, exited, held, grace, verdict, outcome>>

FactoryRejects_NoProof(t) == \* mutant: a failed late factory proves nothing
  /\ factory[t] = "called"
  /\ Set(factory, t, "over")
  /\ IF task[t] = "open"
     THEN Set(task, t, "done") /\ Set(verdict, t, "failed") /\ Settle(t, "failed")
     ELSE UNCHANGED <<task, verdict, outcome>>
  /\ UNCHANGED <<budgetVars, worker, exited, held, watching, term, grace>>

FactoryRejects(t) ==
  /\ factory[t] = "called"
  /\ Set(factory, t, "over")
  /\ IF task[t] = "open"
     THEN /\ Set(task, t, "done") /\ Set(verdict, t, "failed") /\ Settle(t, "failed")
          /\ UNCHANGED <<budgetVars, exited, held>>
     ELSE ProofExit(t) /\ UNCHANGED <<task, verdict, outcome>>
  /\ UNCHANGED <<worker, watching, term, grace>>

\* The worker answers, reports an error, or the payload cannot be posted.
Answer(t) ==
  /\ factory[t] = "delivered" /\ worker[t] = "live"
  /\ \E v \in {"result", "failed"} : Finish(t, v)
  /\ UNCHANGED <<factory, exited>>

\* A Node worker ends, by itself or because of terminate().  Before finish
\* the exit listener fails the task; after it proofExit runs, if registered.
WorkerExits(t) ==
  /\ worker[t] = "live" /\ t \notin Web
  /\ \/ /\ task[t] = "open"
        /\ Set(task, t, "done") /\ Set(verdict, t, "failed")
        /\ Set(exited, t, TRUE)
        /\ Set(watching, t, TRUE)
        /\ Set(term, t, "pending") /\ Set(grace, t, "armed")
        /\ UNCHANGED <<budgetVars, held>>
     \/ /\ task[t] = "done"
        /\ IF watching[t] THEN ProofExit(t) ELSE UNCHANGED <<budgetVars, exited, held>>
        /\ Set(watching, t, FALSE)
        /\ UNCHANGED <<task, verdict, term, grace>>
  /\ Set(worker, t, "exited")
  /\ UNCHANGED <<factory, outcome>>
-----------------------------------------------------------------------------
\* terminate() of the attached worker fulfils once the worker has ended.
TerminateResolves(t) ==
  /\ term[t] = "pending" /\ worker[t] = "exited"
  /\ Set(term, t, "over") /\ Set(watching, t, FALSE)
  /\ IF grace[t] = "expired"
     THEN ProofExit(t) /\ UNCHANGED <<outcome, grace>>
     ELSE Settle(t, verdict[t]) /\ Set(grace, t, "off") /\ UNCHANGED <<budgetVars, exited, held>>
  /\ UNCHANGED <<task, factory, worker, verdict>>

TerminateRejects(t) ==
  /\ term[t] = "pending" /\ t \notin Web
  /\ Set(term, t, "over")
  /\ IF exited[t]
     THEN /\ IF grace[t] = "expired" THEN UNCHANGED <<outcome, watching>>
             ELSE Settle(t, verdict[t]) /\ Set(watching, t, FALSE)
          /\ UNCHANGED <<budgetVars, held>>
     ELSE /\ Unconfirmed(t)
          /\ IF grace[t] = "expired" THEN UNCHANGED outcome ELSE Settle(t, "terminationFailed")
          /\ UNCHANGED watching
  /\ Set(grace, t, IF grace[t] = "expired" THEN "expired" ELSE "off")
  /\ UNCHANGED <<task, factory, worker, exited, verdict>>

GraceExpires_HandsOutResult(t) == \* mutant: the pending verdict is delivered on expiry
  /\ grace[t] = "armed"
  /\ Unconfirmed(t) /\ Settle(t, verdict[t]) /\ Set(grace, t, "expired")
  /\ UNCHANGED <<task, factory, worker, exited, watching, term, verdict>>

\* terminationTimer fires before terminate() settled.
GraceExpires(t) ==
  /\ grace[t] = "armed"
  /\ IF exited[t]
     THEN /\ Settle(t, verdict[t]) /\ Set(watching, t, FALSE) /\ Set(grace, t, "off")
          /\ UNCHANGED <<budgetVars, held>>
     ELSE /\ Unconfirmed(t) /\ Settle(t, "terminationTimeout") /\ Set(grace, t, "expired")
          /\ UNCHANGED watching
  /\ UNCHANGED <<task, factory, worker, exited, term, verdict>>

\* terminate() of a worker the factory delivered after the task had finished.
LateTerminateResolves(t) ==
  /\ term[t] = "late" /\ worker[t] = "exited"
  /\ Set(term, t, "over") /\ Set(watching, t, FALSE)
  /\ ProofExit(t)
  /\ UNCHANGED <<task, factory, worker, grace, verdict, outcome>>

LateTerminateRejects(t) ==
  /\ term[t] = "late" /\ t \notin Web
  /\ Set(term, t, "over")
  /\ IF exited[t]
     THEN Set(watching, t, FALSE) /\ UNCHANGED <<budgetVars, held>>
     ELSE Unconfirmed(t) /\ UNCHANGED watching
  /\ UNCHANGED <<task, factory, worker, exited, grace, verdict, outcome>>
-----------------------------------------------------------------------------
\* Steps the JavaScript event loop guarantees: timers and microtasks.
Loop(t) ==
  \/ CallFactory(t) \/ Timeout(t) \/ GraceExpires(t) \/ Close(t)

\* Steps of the worker and of the platform that runs it.
Platform(t) ==
  \/ FactoryResolves(t) \/ FactoryRejects(t) \/ WorkerExits(t) \/ Answer(t)
  \/ TerminateResolves(t) \/ TerminateRejects(t)
  \/ LateTerminateResolves(t) \/ LateTerminateRejects(t)

Next ==
  \E t \in Owners :
    \/ \E b \in Sizes : Start(t, b) \/ Refuse(t, b)
    \/ Abort(t)
    \/ Loop(t)
    \/ Platform(t)

Spec == Init /\ [][Next]_vars

\* Timers fire and microtasks run.  Nothing is assumed of factories, workers
\* or terminate().
LoopFairness ==
  \A t \in Owners : /\ WF_vars(CallFactory(t)) /\ WF_vars(Timeout(t))
                    /\ WF_vars(GraceExpires(t)) /\ WF_vars(Close(t))

\* Assumed for one property only: every factory answers and every worker told
\* to stop ends.
WorkersEnd ==
  \A t \in Owners :
    /\ WF_vars(FactoryResolves(t) \/ FactoryRejects(t))
    /\ WF_vars(task[t] = "done" /\ WorkerExits(t))
    /\ WF_vars(TerminateResolves(t)) /\ WF_vars(LateTerminateResolves(t))

FairSpec == Spec /\ LoopFairness
-----------------------------------------------------------------------------
TypeOK ==
  /\ BudgetTypeOK
  /\ task \in [Owners -> {"idle", "refused", "open", "done"}]
  /\ factory \in [Owners -> {"none", "scheduled", "called", "delivered", "late", "over"}]
  /\ worker \in [Owners -> {"none", "live", "exited"}]
  /\ exited \in [Owners -> BOOLEAN]
  /\ held \in [Owners -> BOOLEAN]
  /\ watching \in [Owners -> BOOLEAN]
  /\ term \in [Owners -> {"none", "pending", "late", "over"}]
  /\ grace \in [Owners -> {"off", "armed", "expired"}]
  /\ verdict \in [Owners -> Verdicts]
  /\ outcome \in [Owners -> Outcomes]

\* A worker may be running from the call of its factory until it has exited.
MayRun(t) == factory[t] = "called" \/ worker[t] = "live"

\* Whatever raced, memory of a worker that may still run is reserved: the
\* reservation outlives cancellation, time-out, a failed or hanging
\* terminate() and a factory that answers after the task has settled.
\* (boundedWorkerTask.js:13-38 with candidateAnalysisClient.js:17-20.)
AdmissionHeld == \A t \in Owners : MayRun(t) => t \in owners

\* A result is handed out only after the worker that produced it has ended.
ResultAfterEnd == \A t \in Owners : outcome[t] = "result" => worker[t] = "exited"

\* Every started call ends although factories and workers may hang
\* (boundedWorkerTask.js:23-28,45).
CallsEnd == \A t \in Owners : task[t] = "open" ~> outcome[t] = "closed"

\* If workers do end, quarantine is not for ever and all memory returns
\* (boundedWorkerTask.js:13,49-51).
QuarantineLifts == WorkersEnd => \A t \in Owners : t \in quarantined ~> t \notin owners
=============================================================================
