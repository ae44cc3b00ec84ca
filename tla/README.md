# s-structures: TLA+ models, model checks and proofs

This directory models the concurrent and stateful core of s-structures: who may use
memory and for how long, how the page talks to its workers, how analysis jobs start and
stop, how a time-history run advances, is cut back and resumed, how a design candidate is
applied and followed up, how the server stores revisions and approvals, how a server process
claims its data directory, and how design inputs are undone, redone and saved. The numerical
code itself is not modelled. Every definition is translated from the source; `PROJECT.json` ("map") names for
each definition the lines it stands for, "hazards" what can go wrong at which line and which
property would notice, "runs" and "theorems" what is checked and proved.

Paths are relative to the repository root; most of the program is under `src/`, the server
under `server/`.

    cd tla
    tlc -config MCWorkerLease.cfg MCWorkerLease      # any run of the table below
    tlapm NlthRunProofs.tla                          # any *Proofs module

Contents: 1 inventory, 2 modules and code, 3 runs and bounds, 4 fairness, 5 proofs,
6 where code and documents disagree, 7 limits, 8 plan.


## 1. Inventory

The program is a web page (a structural modeller) with analysis workers, a small Node
server that keeps projects in files, and a desktop shell. Page and workers are separate
event loops joined by message queues. Server requests are asynchronous functions of one
process that interleave at every `await`. Everything below with a module is modelled.

| Component (code) | State | Operations | Hard behaviour | What makes it correct | Module |
|---|---|---|---|---|---|
| managed memory budget (`src/core/resourceBudget.js`) | owners and their bytes, running total, quarantined owners, peak | reserve, release, quarantine, confirmTermination | a worker whose end is unknown still uses its memory | total within the ceiling; quarantined memory stays accounted for; nobody grows meanwhile | `ResourceBudget` |
| bounded worker task (`src/core/boundedWorkerTask.js`, `workerBudgetObservers.js`, `candidateAnalysisClient.js`) | one promise, one worker, two timers, the quarantine flag | run, abort, time out, answer, error, exit, terminate | worker factory and `terminate()` answer late, never, or reject | a worker that may run holds its memory; each call settles once; a result only after the worker has ended | `WorkerLease` |
| compute worker protocol (`src/compute/runtime/workerClient.js`, `workerCore.js`, `protocol.js`) | active run of client and core, sequence numbers, pending cancels, two queues | start, cancel, dispose, progress, committed boundaries, terminal events | messages cross; run ids are used again; the post of an answer throws | one call at a time, cancelled only if acknowledged, nothing committed behind the acknowledgement | `ComputeRuntime`, abstractly `ComputeJob` |
| nonlinear analysis jobs (`src/nonlinear/product/jobManager.js`, `runtime/*`) | rows of jobs, two timers each, one worker per job, its start-up queue, checkpoints | start, retry, resume, pause, cancel, close, dispose, edit of the model | pause and cancel race the answer; the worker loads WASM first | no worker outlives its job; a job ends as asked; a restart continues the right job; checkpoints only move on | `NonlinearJobs`, abstractly `JobService` |
| project store (`server/store/projectStore.mjs`, `fileStore.mjs`, `routes/revisions.mjs`, `routes/approval.mjs`) | `project.json` with the approval, index of revisions, revision files, per-path lock, request cache | save, edits of the meta, approve, release, revoke | reads become stale across awaits; writes fail; a crash cuts a request off | a release follows the approval of the same content; nothing that was answered is lost | `ProjectStore` |
| data directory lock (`server/store/lockfile.mjs`, `server/main.mjs`) | one lock file, the handles on it | acquire, heartbeat, release | processes die at any step; file operations fail and their errors are dropped; the file is empty while it is written | one holder; the dead never keep the next server out | `DataDirLock` |
| design input transactions (`src/modeling/designInputService.js`, checkpoint in `src/ui/indexBridge.js`) | previews, receipts, history, future, the saved checkpoint | preview, apply, undo, redo, save, restore, dispose | other editors write the same model; pages change; a restore awaits its read | what is applied is what was previewed; undo and redo stay on one line; a saved history can be taken back | `DesignInput` |
| product analysis service (`src/compute/product/analysisProductService.js`, `boundedWorkerCancellation.js`, runner and publication in `src/ui/indexBridge.js`) | job rows, execution queue, the runner and its grace timer, recorded and shown results | start, retry, cancel, publish, dispose, reopen | a cancelled row whose runner still works; the model changes and changes back; failing publication | a result shown belongs to the present model; one computation at a time; a late answer changes nothing; every job has its turn | `ProductJobs` |
| shared computation, result cache (`src/core/sharedComputation.js`, `practicalResultCache.js`) | pending rows and their subscribers, cached results | join, create, abort, settle, clear, put, evict | the last subscriber leaves while the producer goes on and another caller asks again | whoever waits, waits on a row that will answer it | `SharedComputation` |
| practical design workflows (`src/compute/product/practicalWorkflowService.js`) and design reviews (`elasticReviewService.js`) | evaluations, candidate job, application receipts, follow-ups under way, checkpoint | evaluate, find, apply, follow up, review, release, dispose, restore | a follow-up outlives its session; an application is retried, undone, released and restored | a request changes the model once; its retry is never cut off | `PracticalWorkflow` |
| nonlinear state store (`src/nonlinear/core/stateStore.js`) | immutable committed and trial states, event log | begin, commit, checkpoint | long sequences of legal calls | the log has one event for each boundary, at increasing times | `StateStore` |
| nonlinear time history (`src/nonlinear/dynamics/mdofNewmark.js`, `productionNlth.js`, `dynamicHistory.js`, `src/compute/nonlinear/residentSession.js`) | a run between two boundaries, pending recursive calls, output rows, resident session, checkpoints that outlive the run | start, resume, integrate, halve, commit, output, cancel, crash | a step is rejected at every level; a cancel arrives at any await; three parties accept a boundary one after the other | rows at the output times; one unbroken path; the recovery checkpoint is the last boundary; every run ends | `NlthRun` |
| project files, imports, libraries, evidence (`server/routes/*.mjs`) | files and lists of a project | upload, delete, add | quota checked before the write | | not modelled |
| state migration (`server/store/stateMigration.mjs`) | old, staged and new directory | one command with two renames | a crash between the renames | | not modelled |
| workflow checkpoints (`src/compute/product/workflowCheckpoint.js`) | IndexedDB segments and manifest | save, load | operations are queued and each is one transaction | | not modelled |
| browser persistence (`src/app/autosave*.js`, `persistenceClient.js`) | two timers, a ring of three entries | autosave | | | not modelled |
| compute resource ledger (`resourceLedger.js`) | accounts of buffers | register, dispose | no executor registers a disposer | | not modelled |
| accounts, sessions, audit; HTTP routing | | | | | not modelled |
| RC iterations, linear solvers, nonlinear mechanics, loads and standards | | | floating point | | not modelled |
| user interface, viewer, reports, imports; desktop shell | | | presentation | | not modelled |

How they interact:

* Design workflows reserve memory in the budget, run a bounded worker task and release the
  reservation; the task quarantines it if its worker's end is unconfirmed. `WorkerLease`
  EXTENDS `ResourceBudget` and uses its operations as parts of its own steps.
* The product analysis service sends elastic cases through the compute client and hands
  nonlinear cases to the job service. Both end in a worker core; the two protocols are
  separate implementations and therefore separate modules. `ProductJobs` is the page's view
  of a computation, which may answer, be stopped, or hang.
* A nonlinear time history runs inside the worker of a nonlinear job. `NlthRun` EXTENDS
  `StateStore`; its checkpoints are those a job of `NonlinearJobs` is resumed from.
* Evaluations and design reviews ask one shared computation for the same model.
  `PracticalWorkflow` EXTENDS `SharedComputation` and has both as its callers.
* The page saves through HTTP into the project store. The data directory lock is what
  makes "one server process" in `ProjectStore` true.
* `indexBridge` owns the services of the page. It publishes results, disposes of everything
  when the page is hidden, and saves design inputs and workflows together with the model. The
  other editors of the page change the same model without it.


## 2. Modules and the code they stand for

Actions carry the names of the functions they model where TLA+ allows it. A definition
marked `\* mutant` is a plausible mistake in the definition after it; it is used only to show
that a property notices.

**ResourceBudget** keeps a JavaScript `Map` as the set of its keys and a function that is 0
elsewhere, which is how the code reads it. `Reserve`, `Release`, `Quarantine` and
`ConfirmTermination` are the four methods, `total` is updated incrementally as in the code.
It is the abstract specification of `WorkerLease`.

**WorkerLease**: one call of a caller per owner. `Start`/`Refuse`/`Close` are the caller's
reserve, its refusal and its `finally`; `Abort`, `Timeout`, `Answer`, `CallFactory`,
`FactoryResolves`, `FactoryRejects`, `WorkerExits`, `TerminateResolves`, `TerminateRejects`,
`GraceExpires` and the `Late...` actions are the callbacks of `runBoundedWorkerTask`.
`Finish` is its `finish`. The worker, its factory and `terminate()` are the environment and may
do anything, including nothing. Browser workers die inside `terminate()` and report no
exit; Node workers may outlive it.

**ComputeRuntime**: client, core and a queue each way; a message is handled in one turn
together with the microtasks that follow. The executor is the environment; it yields
between steps. The post of a progress report, of a result or of an error may throw, since their payload may be
something that cannot be cloned. The core takes a run for ended before it posts the terminal event, and its second try is
refused as a duplicate, so that no event is sent (`Finish`, verdict "unsent"). **ComputeJob** says what a caller may rely on: calls are served one at a time,
a promise settles once, a call is cancelled only if its cancellation was acknowledged and
then has no result. `KeepsJobPromises` is the refinement.

**NonlinearJobs** joins the job service, its worker clients, the worker's start-up
(messages are kept while WASM loads and replayed in one turn) and the worker core. `Edit` is
the user changing the model, which decides whether a paused job may be resumed. **JobService**
says what the page may rely on, without workers, messages or timers: one job is active at a time; a job
begins once, only from the queue, and ends once, as the wish that stands then leaves it; the
checkpoint shown only moves on, and a resumed job starts from that of a paused one. `KeepsServicePromises` is
the refinement; the variables of `JobService` are columns of the rows.

**ProductJobs**: `row` is the map of jobs, `queue` the promise chain `executionQueue` (its head
has the turn), `runner` the executor of a job together with `runWithBoundedWorkerCancellation`:
waiting, running, asked to stop, closing (the grace is over and the worker is being terminated),
over. `Enter` is `start` (also for `Retry`, on the model of the job that is retried), `Begin` the
first part of `executeInternal`; `Ignore`, `Fail` and `Publish` are what follows its await.
`Dispose` and `Reopen` are `disposeRuntime` and the return of the page; jobs of a
disposed service are "gone", and those that run on the page and not in a worker go on computing.

**SharedComputation** has a row for each producer that is alive and one subscriber for each
caller; `Remove` compares the row with the one that is pending, as the code does.
**PracticalWorkflow** joins it with the service: `Evaluate` and `EvaluationEnds` are `evaluate` before
and after its await, `ApplyCandidate` and `ApplyAndReview` the application and its follow-up,
`AnalysisAnswers` the follow-up after its analysis, `StartReview`, `StopReview` and `ReviewEnds` the review.
A generation number of the code is compared with the present one only; a task carries whether its
session is still live instead. A release compares and disposes in one step.

**StateStore** are operators on an immutable record. **NlthRun** keeps the recursion of
`integrateToTarget` as a stack of calls: `Halve` puts two calls in the place of one, `Return` removes the
innermost. Time is counted in ticks. `BeginSolve`, `Converge`, `Accept`, `Reject` and `SeeCancel` are
a step and its awaits, `Output` a row with its periodic checkpoint, `Stop` the end of a run with what
its session leaves (`kept`: the latest checkpoint that was posted, the final one, the one to recover from).
`Resume` starts the next run from any of them. In `Accept` a boundary is committed, recorded by
the history, followed by the session and counted by the worker, in the order of the code.

**ProjectStore**: a request is a sequence of steps, one per await. `seenMeta` and `seenIndex`
are the copies a request works on. Saves and edits rewrite the copy of the meta they read
first (the request cache keeps it); `transitionApproval` reads it again under the lock.
`Fault` is a failing write or a request cut off by a crash. A hash stands for its model.

**DataDirLock**: one file operation of one process is one step, which may fail, and `Die` may come at any of
them. An error of a start ends it ("failed"), unless it is one of reading the owner, which counts as an owner
that is gone; errors of a heartbeat and of the release are dropped. `Torn` is a lock file in which no owner can be read; `linked` tells whether an open
handle still belongs to the file at the path, since writing through the handle of a
removed file has no effect.

**DesignInput**: synchronous operations of the service, an awaited restore, and other editors.
A row keeps the model before its request and the identity its model must have to be
undone (`mark`); `Rebind` is what undo and redo do to the neighbour's mark. The commands of
a request are reduced to the input they leave in the model. `turns` (here and in `ProjectStore`,
`lockTurns` in `DataDirLock`) is a history variable: properties whose name or comment says so are
about behaviours in which the actors take turns, and the violated runs show what happens
without. Another one, `legible` in `DataDirLock`, is false once a heartbeat has emptied the lock and failed to
write it, or a start has failed to read a live owner (section 7).


## 3. Runs and bounds

| Run | States | Instance | Shows |
|---|---|---|---|
| `lease` | 23,250 | one Node and one browser worker, sizes 1 and 2, ceiling 3 | memory of a worker that may run stays reserved, is freed once workers end, a result comes after the worker's end, every call ends |
| `compute` | 902,146 | 2 calls, 2 cancels, 2 run ids, 1 progress report, 1 boundary, 1 error event | the protocol implements `ComputeJob`; an acknowledged cancel is final; calls settle unless the post of their terminal event throws |
| `jobs` | 819,388 | 2 jobs, 2 models, 2 commits, 2 cancel requests | no worker outlives its job, a job ends as asked, restarts continue the job they name, a stop comes, the rows are those of `JobService` |
| `product_jobs` | 300,488 | 3 jobs of one case, 2 models, 2 open rows at most | results handed out belong to the model, computations do not overlap, late answers change nothing, every queued job has its turn |
| `practical_workflow` | 1,239,632 | 2 models, 2 requests, 2 producers, 1 pending row, 1 cached result | a request changes the model once and its retry stays possible; callers of a shared computation are served |
| `nlth_run` | 126,314 | 3 runs in a row, 80 ticks, output every 32, steps of 16, one halving, 8 internal steps | one unbroken path, rows on time, the recovery checkpoint is the last boundary, a cancel is the last, every run ends |
| `store` | 576,222 | 3 requests, 2 contents, 2 revisions, 1 fault | releases follow approvals; taking turns, nothing answered is lost |
| `store_lost_save` (violation) | 56,453 | 3 requests, no fault | overlapping saves share a number |
| `data_dir_lock` | 507,437 | 3 servers, 2 heartbeats in all, any operation may fail | taking turns, the holder is alone unless a heartbeat fails half-way or a start cannot read a live owner; starts end; the dead, and what failed operations left, are reclaimed |
| `data_dir_lock_overlap` (violation) | 4,079 | 3 servers, 1 heartbeat | two servers hold the directory |
| `design_input` | 1,890,517 | 2 pages, 2 requests, 5 commits, 1 edit or page change by others | undo and redo stay on one line, receipts and checkpoints agree |
| `design_input_undo` (violation) | 7,857 | 1 page, 4 commits | an undo drops an edit by others |

Violated runs stop at the first counterexample, so their counts are what was seen by then.

Why the bounds are enough to meet the interesting cases:

* *lease*: tasks meet only in the budget. Two tasks of sizes 1 and 2 under a ceiling of 3
  admit both, refuse one, and let one grow while the other is quarantined.
* *compute*: with two calls and two run ids a run id is used again or not; two cancels
  name the same run, a past one or the next; one error event separates the two calls.
  More progress reports or boundaries only lengthen a run.
* *jobs*: at most one job executes at a time, so two jobs show every hand-over (the next one,
  a retry, a resumption); a second commit makes the last checkpoint differ from an earlier
  one; two models make a restart admissible or not.
* *store*: a save, an edit and a transition can all be open at once. One fault is enough to
  leave a lock behind, an index without its file, or a file without its meta.
* *product_jobs*: three jobs are one that is cancelled and still computes, one behind it and one that is
  retried or refused by the limit. Two models suffice for a change and a change back.
* *practical_workflow*: a plan is made on one model and turns it into another; with two the model
  can be undone and changed again. Two requests compete for the same candidate, two producers are one
  that was given up and one that took its key. With one pending row and one cached result both
  limits are met.
* *nlth_run*: 80 is not a multiple of 32, so the last interval is shorter than the others, and a
  checkpoint is due at every second row. 8 internal steps are met when steps are halved. Three
  runs allow a resumption of a resumption.
* *data_dir_lock*: two servers race for the lock while a third is dead or holds it; the second heartbeat is
  that of another server, or follows one that failed.
* *design_input*: five commits reach apply, apply, undo, undo, redo and every rebinding of the
  top rows. The limits on rows, receipts and previews are 2, 2 and 1, so that the
  preview limit is met; the limits on rows and receipts cannot be passed with two requests,
  and are left to the theorems of section 5, which hold for any limit. A variant of the instance with
  three requests and four commits passes as well (9.6 million states).

Symmetry is used only in `design_input` and `practical_workflow`, which have no liveness property. Deadlock is not
checked: all these systems may rest (calls over, servers dead, limits of the instance met).
That nothing hangs which should not is stated by the liveness properties.


## 4. Fairness

* `WorkerLease`: timers and microtasks of the page run (`LoopFairness`: the factory is called, the
  time-out and the grace timer fire, the caller's `finally` runs). That workers end and that
  `terminate()` answers is *not* assumed; it is the hypothesis of `QuarantineLifts` only.
* `ComputeRuntime`: both event loops handle their messages and an executor ends. Nothing is
  assumed of callers or of error events. A post may throw, which fairness does not mend: `StartsSettle`
  excepts the calls whose terminal event could not be posted.
* `NonlinearJobs`: the microtask that executes a job and the cancel timer. Workers may hang
  for ever; the timer is what makes `StopsWhenAsked` hold.
* `ProductJobs`: the microtask of the queue (`Begin`) and the grace timer run, a termination settles, and a
  computation nobody has asked to stop ends. One that was asked may hang, which is what the grace is for.
* `NlthRun`: `WF(Step)`. A run only awaits its own evaluations, and its iterations are counted; nothing is
  assumed of their results, nor of cancels and crashes.
* `PracticalWorkflow`: none; only safety is claimed.
* `ProjectStore`: an open request proceeds, unless it waits for a lock another request holds.
* `DataDirLock`: a file operation that has begun ends, well or not, or its server dies.
* `DesignInput`: none; only safety is claimed.


## 5. Proofs

TLC checks the instances above; the theorems hold for all values of the constants that
satisfy the assumptions named in the modules (`BudgetAssumption`, `WebAssumption`,
`RuntimeAssumption`, `JobsAssumption`, `ProductAssumption`, `SharedAssumption`,
`WorkflowAssumption`, `NlthAssumption`, `StoreAssumption`, `LockAssumption`, `DesignAssumption`: sets are not empty where the code
needs one, bounds are natural numbers, `None` is none of the values). TLC evaluates the
assumptions in the runs.

* **WorkerLeaseProofs**. Of the budget: `BudgetKept` (the running total stays within the ceiling,
  quarantined owners are owners, and no bytes are left without an owner) and `QuarantineFreezes` (while
  an owner is quarantined no reservation grows). Of the tasks: `WorkersHoldAdmission`
  (`AdmissionHeld` for any number of tasks), `ResultsAfterEnd` (`ResultAfterEnd`), `TypeCorrect`, and
  `LeaseImplementsBudget`: every behaviour of the tasks is one of the budget,
  so what is proved of the budget holds here. `AdmissionHeld` is not inductive: it needs to
  know why the owner cannot be released, namely that the task is open, or that it has
  quarantined the owner and has no proof of the worker's end. `Lease(t)` says this for each state of factory and worker; the
  invariant is type correctness of the tasks, the budget's invariant and `Lease(t)` for every task.
* **ComputeRuntimeProofs**. `AcksAreFinal` (`AckIsFinal`), `OutcomesAreVerdicts` (`OutcomeIsVerdict`),
  `TypeCorrect`, and `ImplementsJob`: every step of the protocol is a step of `ComputeJob` or
  leaves its state alone, for any calls, cancels, run ids, reports and error events. The invariant follows a call
  through the two queues. Its START is handled once (`Requested`), so whatever names it comes from its one
  run (`Answers`). Once a cancel is acknowledged the run commits nothing more, so everything that tells
  where the run stopped, on its way or received, tells the same boundary (`ToldAgrees`). The queues are in
  order, so a cancel that meets the run of the active call is still awaited (`CancelsPending`) and its acknowledgement
  goes out before the end of the run (`CancelAnnounced`). A post that throws takes its number with it,
  so that the events that are sent still come in increasing order, the terminal one last, if it is sent at all. Only the numbering of the events (`InOrder`)
  needs that the worker object raised no error, and only `OutcomeIsVerdict` needs the numbering.
* **NonlinearJobsProofs**. `WorkersAlone` (`OneWorker`), `EndsFollowWishes` (`EndsAsAsked`), `RestartsGoOn`
  (`RestartsContinue`), `TypeCorrect` and `ImplementsService`, for any number of jobs, commits and cancel requests. A worker
  and its timers live exactly as long as their job executes, one job is active at a time (`WorkerOfJob`), and
  whatever ends a job leaves nothing in its queues (`Quiet`), so that no late answer meets the next job. That a job
  ends as asked needs the contents of the queues (`QueuesFit`): RUN comes first and once, and until the user asks there is
  no cancel under way, no cancelled event, and no event out of sequence. The only event that can be refused is
  an acceptance overtaken by an acknowledgement, and then the wish decides. Restarts continue
  because a row shows the checkpoint it restarted from until its run reports one (`ShownFromRestart`), the
  checkpoints in the queue are in order, beyond the one that is shown and up to the last commit (`Onward`), and
  a paused row does not change. For `ImplementsService` each action is mapped: `Start`, `Retry` and
  `Resume` admit, `Execute` begins, a checkpoint event is a report (it moves on by `Onward`), every other way out is
  an end the wish allows, and the worker's steps leave the rows alone.
* **ProductJobsProofs**. `ResultsFit` (`HandedOutFits`), `ComputationsAlone` (`OneComputation`),
  `AnswersDropped` (`LateAnswersDropped`) and `TypeCorrect`. Two computations cannot overlap because
  whoever has begun, and whose service is not gone, stands at the head of the queue (`BegunHasTurn`), and whoever computes has
  begun (`ComputingBegun`). What is shown belongs to a row that has ended (`ShownFits`): only then is
  its model final.
* **PracticalWorkflowProofs**. `WaitersServed` (`SubscribersServed`), `AppliedOnce`
  (`EveryChangeReceipted`), `RetryKept` (`RetryPossible`) and `TypeCorrect`. The shared computation has an
  invariant of its own (`SharedInv`: a pending row is producing under its key and was not aborted). The
  workflow adds that a follow-up under way has a running receipt and the evaluation it awaits has
  its sources, and that the checkpoint keeps whatever the session keeps.
* **NlthRunProofs**. `PathsUnbroken` (`Trajectory`), `RowsAtOutputs` (`RowsOnTime`), `RecoveryIsLast`
  (`RecoveryMatches`), `CancelIsLast` (`CancelStops`) and `TypeCorrect`, for any end, steps, levels and number of
  runs. Rows are on time because the targets of the pending calls are nested and the outermost
  one is the next output time (`CallsFit`); recovery matches because the session has the events of the
  run at every rest (`RunFits`); and every store that is held is a boundary on one path
  (`KeptStores`), which `CommitKeeps` shows of a step.
* **ServerProofs**, the lock. `HolderAlone` (`TurnsKeepLock` for any number of servers, whichever of
  their file operations fail, as long as the lock stays `legible`) and `LockTypeCorrect`. The invariant adds that only one server is busy while turns are taken
  (`OneBusy`), where the operation it has begun stands (`WritesReach`, `AttemptLeft`) and that
  the file names the holder (`HolderNamed`).
* **ServerProofs**, the store. `ReleasesApproved` (`ReleasesFollowApprovals` for any number of
  overlapping requests, faults and crashes) and `TypeCorrect`. A request writes back an old
  copy of the meta, so every copy in flight must satisfy what the stored meta does
  (`CopiesGood`), and a copy is used only at the steps that have read it (`StepsReached`).
  `RevisionsKept` (`TurnsKeepRevisions`) and `ApprovalsKept` (`TurnsKeepApproval`) need a second invariant. Whether or
  not turns are taken, whoever is in the lock works on the meta as it is stored (`Orderly`). In turns
  one writer is open at a time (`WritersAlone`); the index is numbered without gaps and what was answered stands in it
  (`OnDisk`); the revision of a save under way lies beyond every answered save and the approval (`Saving`), so a later save
  may take the number of one that was cut off; and a decision holds the rows of the stored
  index, and the hash of the stored model, when it grants (`Deciding`).
* **DesignInputProofs**. `CheckpointsRestorable` (`Restorable`), `ReceiptsTell` (`ReceiptsTrue`) and
  `TypeCorrect`. A request stands at most once in history and future because it is applied
  only without a receipt, which outlives its row; since the receipt tells on which side the
  request stands, it is on one side only. A row in the future always holds a model to
  redo (`UndoneRedoable`), which the types alone do not say. All of this (`Kept`) must hold of the saved history too, since a restore brings it back.
  `StacksStayAgreed` (`StacksAgree`) and `TopsStayBound` (`NeverStale`) rest on a second invariant
  (`LineOK`): while nobody else edits, the rows done and undone are one line of models with the present model between
  them, the top rows carry its mark and the page that is shown, and the saved rows are such a line
  around the saved model.

Every safety invariant and action property of section 3 is a theorem. Only model-checked are the
liveness properties (`CallsEnd`, `QuarantineLifts`, `StartsSettle`, `StopsWhenAsked`, `TurnComes`, `RunsEnd`,
`RequestsEnd`, `StartsEnd`, `DeadOwnersReclaimed`): they need fairness and ENABLED, which the prover
does not cover.


## 6. Where code and documents disagree

Each line is a run that TLC finds violated by what the code does; `PROJECT.json` ("findings")
quotes the sentence that is contradicted.

* `store_lost_save`: `saveRevision` takes its number from an index read without a lock
  (`projectStore.mjs:154-163`); two saves get the same number and one disappears.
* `data_dir_lock_overlap`: an unreadable lock counts as stale (`lockfile.mjs:60`), but a live server's lock is
  unreadable between its creation and the write of the owner and during a heartbeat. The run shows it
  with no heartbeat and no read failing.
  Two servers of one configuration still exclude each other by their port.
* `design_input_undo`: undo binds the row below to the model it has just restored (`designInputService.js:130`) whether
  or not that row had left it. After request, foreign edit, request, undo, a second undo is
  accepted and loses the edit.


## 7. Limits

What the models leave out, and what was noticed there:

* **Worker tasks**: `BudgetMap`, `createBoundedQueue` and the measures of bytes.
* **Compute protocol**: telemetry, the resource ledger, executors with slow disposers (`workerCore.js:140`).
  When the post of a terminal event throws, its call stays pending until the client is disposed of or the
  worker raises an error (`workerCore.js:233`); `StartsSettle` excepts these calls. A cancel that reaches the worker after its run has ended is
  answered with an error under the cancel's own id (`workerCore.js:147`), which the client drops
  (`workerClient.js:136`): the promise of that cancel stays open until a later run ends or the client
  is disposed. After an error event of the worker object a late acknowledgement may fail the
  next run, therefore `OutcomeIsVerdict` is stated for behaviours without such events.
* **Nonlinear jobs**: the injected and the main-thread runner, queries and reports, several
  runs of one client, a changed build identity, the worker's dispose message. The page's
  handler of a publication is taken to be synchronous. A paused or cancelled job whose worker
  answered completely is published all the same (`jobManager.js:468`). A cancel kept while WASM loads is
  acknowledged before its run is accepted and makes the client refuse the run as out of sequence
  (`analysisWorker.js:50`, `workerCore.js:129`); the job service hides it, as `EndsAsAsked` shows.
* **Product analysis service**: rows of nonlinear cases (those of the job service), progress, reports and
  queries. When a publication fails after the result was recorded, the job is failed although
  the page shows its result; `Publish` has this outcome. Cancelled rows that still wait for
  their turn do not count against the limit of nine (`analysisProductService.js:189`).
* **Practical workflows**: the search for candidates, drawings, the global iteration, the RC policies,
  and of a review everything but the computation it shares. The checkpoint that is restored is the one
  that was compared at the release, in one step with the disposal, while the code awaits the comparison
  (`indexBridge.js:929`); restorations succeed (line 976 tells what a failed one erases); the page is not hidden
  between a release and its restoration. An application whose follow-up was left unfinished and then
  undone blocks the release of its job for good.
* **Time history**: the gravity preload, the equations and their iterations, chunks of the history
  and the bytes of the session's arena. A run that fails before its first step is left out. When a cancel
  arrives before the first step, the recovery checkpoint is the preloaded state, which `Resume` refuses because
  it has no dynamic provenance, although the job is reported as recoverable. The history of a
  resumed run begins at its checkpoint. Of the checkpoints only the periodic ones leave the worker while it runs.
  Branches, cutback and rollback of the state store are left out.
* **Project store**: files, imports, libraries and the evidence list, with the quota that is checked
  before an upload is written (`projectStore.mjs:209`). A save that is cut
  off before its last meta write leaves the previous approval current although its revision
  is listed; the properties count only saves that were answered. An edit of the meta writes back the
  copy its request began with (`projectStore.mjs:114`) and thereby an approval that an overlapping save has
  revoked; `TurnsKeepApproval` is about requests that take turns.
* **Data directory lock**: a heartbeat that empties the lock and fails to write it leaves its live server with
  an unreadable lock and is not noticed (`lockfile.mjs:72-74`); a read that fails, for whatever reason, makes a live owner
  count as gone (`lockfile.mjs:61`). Either way the next server takes the directory of a live one, even in turns.
  Both are steps of the model; `TurnsKeepLock` and `OneHolder` are about behaviours without them (`legible`). Left
  out are a pid that is reused by another program, more than one heartbeat
  in flight or one at the release, an owner written in several pieces.
* **Design input**: answers to callers (a failing account after a commit answers with an error although
  the model has changed, `designInputService.js` lines 112, 132 and 148), a limit reached while a
  preview is open (line 93). A history whose row begins with an invalid model, repaired by its
  request, is saved but refused on restore, and the whole checkpoint with it (line 170). Work done
  while a restore awaits its read is erased when the restore ends (`indexBridge.js:944`, 976).
  Rows of another page are bound to the page that is shown at the restore.
* **State migration**: a crash between its two renames leaves the secrets published without the
  data (`stateMigration.mjs:92`), and the cleanup of an error does not run. It is a command an administrator
  runs once while no server is up.
* Solvers, mechanics and design rules are floating point and out of reach of both tools. They are most of
  the code: the share of lines the modules stand for is small for that reason. Accounts, routing
  and presentation have no state worth a model beyond what is listed above.


## 8. Plan

1. **NonlinearJobs** and **NlthRun**: the worker of a job as a run of `NlthRun`, in place of the commits
   the environment makes there.
2. **ProductJobs** and **JobService**: what of `JobService` the product analysis service keeps (its
   cancelled rows end before their computations do), with a refinement proved for it.
3. **PracticalWorkflow**: restorations that fail, and liveness of follow-ups.
4. **ProjectFiles**: uploads against the quota, as an extension of `ProjectStore`; then the two
   renames of the state migration.
