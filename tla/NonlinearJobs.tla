---------------------------- MODULE NonlinearJobs ----------------------------
(***************************************************************************)
(* Nonlinear analysis jobs: the job service on the page                    *)
(* (src/nonlinear/product/jobManager.js) and, for each job, its worker     *)
(* client (runtime/workerClient.js), the worker's startup                  *)
(* (runtime/analysisWorker.js) and its core (runtime/workerCore.js).       *)
(*                                                                         *)
(* Client and worker are two event loops joined by two queues.  What       *)
(* follows a message in microtasks of the same turn (the awaits of         *)
(* executeJob, a publication by the synchronous handler of the page) is    *)
(* one step with it.  A worker keeps what arrives while WASM loads and     *)
(* then handles it in one turn, so the continuation of RUN after its       *)
(* preflight comes after everything that was kept.                         *)
(*                                                                         *)
(* A commit of the solver is numbered within its job; a checkpoint is the  *)
(* number of a commit.  The build identity is fixed during a session.      *)
(* Bounds: Jobs, one start each; MaxCommits; MaxAsks cancel requests of a  *)
(* job.                                                                    *)
(***************************************************************************)
EXTENDS Integers, Sequences, FiniteSets

CONSTANTS Jobs, Models, None, MaxCommits, MaxAsks

ASSUME JobsAssumption ==
  /\ Models # {} /\ None \notin Models \cup Jobs
  /\ MaxCommits \in Nat /\ MaxAsks \in Nat

VARIABLES
  model,      \* what the user is editing
  disposed,   \* of the service
  job,        \* the rows of the service
  timers,     \* which of runTimer and cancelTimer are armed
  asks,       \* cancel requests sent to the worker
  lastSequence, \* of the client's active run
  worker,     \* "none" | "loading" | "replaying" | "ready" | "terminated"
  kept,       \* messages that arrived while it was loading and are not handled
  run,        \* the core's run
  toWorker, toClient

serviceVars == <<model, disposed, job, timers>>
workerVars == <<worker, kept, run>>
vars == <<serviceVars, asks, lastSequence, workerVars, toWorker, toClient>>

Active == {"queued", "running", "pausing", "cancelling"}
Executing == {"running", "pausing", "cancelling"}
Final == {"completed", "failed", "blocked", "cancelled", "paused"}
Modes == {"nlth", "pushover"}

NoCheckpoint == 0

NoJob == [status |-> "none", desired |-> "none", mode |-> "pushover", model |-> None,
          checkpoint |-> NoCheckpoint, restart |-> NoCheckpoint, from |-> None,
          result |-> FALSE, rejection |-> "none", scheduled |-> FALSE]

NoRun == [phase |-> "none", cancelled |-> FALSE, sequence |-> 0, commits |-> 0]

Over == [NoRun EXCEPT !.phase = "over"]

Init ==
  /\ model = CHOOSE m \in Models : TRUE
  /\ disposed = FALSE
  /\ job = [j \in Jobs |-> NoJob]
  /\ timers = [j \in Jobs |-> {}]
  /\ asks = [j \in Jobs |-> 0]
  /\ lastSequence = [j \in Jobs |-> -1]
  /\ worker = [j \in Jobs |-> "none"]
  /\ kept = [j \in Jobs |-> <<>>]
  /\ run = [j \in Jobs |-> NoRun]
  /\ toWorker = [j \in Jobs |-> <<>>]
  /\ toClient = [j \in Jobs |-> <<>>]

Is(j, statuses) == job[j].status \in statuses
Known(j) == ~Is(j, {"none"})
Listening(j) == Is(j, Executing)   \* the client of j has an active run
Alive(j) == worker[j] \in {"loading", "replaying", "ready"}
-----------------------------------------------------------------------------
(* The service. *)

Edit ==
  /\ ~disposed
  /\ \E m \in Models \ {model} : model' = m
  /\ UNCHANGED <<disposed, job, timers, asks, lastSequence, workerVars, toWorker, toClient>>

\* maxJobs rows, maxConcurrentJobs = 1.
Admissible(j) ==
  /\ ~disposed
  /\ ~Known(j) /\ j = CHOOSE k \in Jobs : ~Known(k)
  /\ \A k \in Jobs : ~Is(k, Active)

Create(j, row) ==
  /\ Admissible(j)
  /\ \E ok \in BOOLEAN :   \* the outcome of the preflight of the model
       job' = [job EXCEPT ![j] = [row EXCEPT !.model = model, !.scheduled = ok,
                                             !.status = IF ok THEN "queued" ELSE "blocked"]]
  /\ UNCHANGED <<model, disposed, timers, asks, lastSequence, workerVars, toWorker, toClient>>

Start(j) == \E mode \in Modes : Create(j, [NoJob EXCEPT !.mode = mode])

Retry(k, j) ==
  /\ Is(k, {"failed", "blocked", "cancelled", "paused"})
  /\ Create(j, [NoJob EXCEPT !.mode = job[k].mode, !.from = k])

Resume_AnyModel(k, j) == \* mutant: NONLINEAR_RESTART_MODEL_CHANGED is not checked
  /\ Is(k, {"paused"})
  /\ LET restart == IF job[k].mode = "nlth" THEN job[k].checkpoint ELSE NoCheckpoint IN
       Create(j, [NoJob EXCEPT !.mode = job[k].mode, !.from = k,
                               !.restart = restart, !.checkpoint = restart])

\* From the checkpoint of a time history on the same model, else from the origin.
Resume(k, j) ==
  /\ Is(k, {"paused"})
  /\ LET restart == IF job[k].mode = "nlth" THEN job[k].checkpoint ELSE NoCheckpoint IN
       /\ restart # NoCheckpoint => job[k].model = model
       /\ Create(j, [NoJob EXCEPT !.mode = job[k].mode, !.from = k,
                                  !.restart = restart, !.checkpoint = restart])

\* The client is disposed, the worker terminated, the timers cleared.
Close(j) ==
  /\ worker' = [worker EXCEPT ![j] = "terminated"]
  /\ timers' = [timers EXCEPT ![j] = {}]
  /\ kept' = [kept EXCEPT ![j] = <<>>]
  /\ run' = [run EXCEPT ![j] = NoRun]
  /\ toWorker' = [toWorker EXCEPT ![j] = <<>>]
  /\ toClient' = [toClient EXCEPT ![j] = <<>>]
  /\ lastSequence' = [lastSequence EXCEPT ![j] = -1]
  /\ asks' = [asks EXCEPT ![j] = 0]
  /\ UNCHANGED <<model, disposed>>

Execute_Unchecked(j) == \* mutant: a job that was dropped meanwhile is executed
  /\ job[j].scheduled /\ ~disposed
  /\ job' = [job EXCEPT ![j].scheduled = FALSE, ![j].status = "running"]
  /\ timers' = [timers EXCEPT ![j] = {"run"}]
  /\ worker' = [worker EXCEPT ![j] = "loading"]
  /\ toWorker' = [toWorker EXCEPT ![j] = <<"run">>]
  /\ UNCHANGED <<model, disposed, asks, lastSequence, kept, run, toClient>>

\* executeJob after the microtask of start; the worker may be unavailable.
Execute(j) ==
  /\ job[j].scheduled
  /\ IF disposed \/ ~Is(j, {"queued"})
     THEN /\ job' = [job EXCEPT ![j].scheduled = FALSE]
          /\ UNCHANGED <<timers, worker, toWorker>>
     ELSE \/ /\ job' = [job EXCEPT ![j].scheduled = FALSE, ![j].status = "failed",
                                   ![j].rejection = "WORKER"]
             /\ UNCHANGED <<timers, worker, toWorker>>
          \/ /\ job' = [job EXCEPT ![j].scheduled = FALSE, ![j].status = "running"]
             /\ timers' = [timers EXCEPT ![j] = {"run"}]
             /\ worker' = [worker EXCEPT ![j] = "loading"]
             /\ toWorker' = [toWorker EXCEPT ![j] = <<"run">>]
  /\ UNCHANGED <<model, disposed, asks, lastSequence, kept, run, toClient>>

RequestRuntimeCancellation_NoGrace(j) == \* mutant: no timer waits for the worker
  /\ asks[j] < MaxAsks
  /\ asks' = [asks EXCEPT ![j] = @ + 1]
  /\ toWorker' = [toWorker EXCEPT ![j] = Append(@, "cancel")]
  /\ UNCHANGED timers

RequestRuntimeCancellation(j) ==
  /\ asks[j] < MaxAsks
  /\ asks' = [asks EXCEPT ![j] = @ + 1]
  /\ toWorker' = [toWorker EXCEPT ![j] = Append(@, "cancel")]
  /\ timers' = [timers EXCEPT ![j] = @ \cup {"cancel"}]

Pause(j) ==
  /\ ~disposed
  /\ \/ /\ Is(j, {"queued"})
        /\ job' = [job EXCEPT ![j].status = "paused", ![j].desired = "pause"]
        /\ UNCHANGED <<timers, asks, toWorker>>
     \/ /\ Is(j, {"running"})
        /\ job' = [job EXCEPT ![j].status = "pausing", ![j].desired = "pause"]
        /\ RequestRuntimeCancellation(j)
  /\ UNCHANGED <<model, disposed, lastSequence, workerVars, toClient>>

Cancel(j) ==
  /\ ~disposed
  /\ \/ /\ Is(j, {"queued"})
        /\ job' = [job EXCEPT ![j].status = "cancelled", ![j].desired = "cancel"]
        /\ UNCHANGED <<timers, asks, toWorker>>
     \/ /\ Is(j, Executing)
        /\ job' = [job EXCEPT ![j].status = "cancelling", ![j].desired = "cancel"]
        /\ RequestRuntimeCancellation(j)
  /\ UNCHANGED <<model, disposed, lastSequence, workerVars, toClient>>

EndStatus_AnswerFirst(j, otherwise) == \* mutant: a complete answer comes before the wish
  CASE otherwise = "completed"     -> otherwise
    [] job[j].desired = "pause"  -> "paused"
    [] job[j].desired = "cancel" -> "cancelled"
    [] OTHER                     -> otherwise

\* What a wish of the user makes of the end of a job.
EndStatus(j, otherwise) ==
  CASE job[j].desired = "pause"  -> "paused"
    [] job[j].desired = "cancel" -> "cancelled"
    [] OTHER                     -> otherwise

FinishWithError_NoDispose(j, code, status) == \* mutant: finally leaves the worker
  /\ job' = [job EXCEPT ![j].status = EndStatus(j, status), ![j].rejection = code]
  /\ timers' = [timers EXCEPT ![j] = {}]
  /\ UNCHANGED <<model, disposed, asks, lastSequence, workerVars, toWorker, toClient>>

\* The promise of the run rejects: finishWithError and the finally block.
FinishWithError(j, code, status) ==
  /\ job' = [job EXCEPT ![j].status = EndStatus(j, status), ![j].rejection = code]
  /\ Close(j)

\* The promise of the run resolves; the result may exceed the memory budget.
FinishWithResult(j, kind) ==
  /\ \/ job' = [job EXCEPT ![j].status = EndStatus(j, kind), ![j].result = TRUE]
     \/ job' = [job EXCEPT ![j].status = EndStatus(j, "failed"), ![j].checkpoint = NoCheckpoint]
  /\ Close(j)

RunTimer(j) ==
  /\ "run" \in timers[j]
  /\ FinishWithError(j, "WORKER", "failed")

CancelTimer(j) ==
  /\ "cancel" \in timers[j]
  /\ FinishWithError(j, "WORKER", "failed")

\* The worker reports an error or a message that cannot be read, or exits.
WorkerFails(j) ==
  /\ Listening(j)
  /\ FinishWithError(j, "WORKER", "failed")

Dispose ==
  /\ ~disposed
  /\ disposed' = TRUE
  /\ job' = [j \in Jobs |-> IF Is(j, Active) THEN [job[j] EXCEPT !.status = "cancelled"] ELSE job[j]]
  /\ timers' = [j \in Jobs |-> {}]
  /\ worker' = [j \in Jobs |-> IF Alive(j) THEN "terminated" ELSE worker[j]]
  /\ kept' = [j \in Jobs |-> <<>>]
  /\ run' = [j \in Jobs |-> NoRun]
  /\ toWorker' = [j \in Jobs |-> <<>>]
  /\ toClient' = [j \in Jobs |-> <<>>]
  /\ lastSequence' = [j \in Jobs |-> -1]
  /\ asks' = [j \in Jobs |-> 0]
  /\ UNCHANGED model
-----------------------------------------------------------------------------
(* The client receives the worker's messages. *)

\* Sequences of a run grow; an error carries none that counts.
InSequence(j, e) == e.type = "error" \/ e.sequence > lastSequence[j]

HandleEvent(j) ==
  /\ Listening(j) /\ toClient[j] # <<>>
  /\ LET e == Head(toClient[j]) IN
       \/ /\ ~InSequence(j, e)
          /\ FinishWithError(j, "EVENT_SEQUENCE_INVALID", "failed")
       \/ /\ InSequence(j, e)
          /\ e.type \in {"accepted", "acknowledged", "checkpoint"}
          /\ lastSequence' = [lastSequence EXCEPT ![j] = e.sequence]
          /\ job' = IF e.type = "checkpoint" THEN [job EXCEPT ![j].checkpoint = e.commits] ELSE job
          /\ toClient' = [toClient EXCEPT ![j] = Tail(@)]
          /\ UNCHANGED <<model, disposed, timers, asks, workerVars, toWorker>>
       \/ /\ InSequence(j, e)
          /\ e.type \in {"completed", "failed", "blocked"}
          /\ FinishWithResult(j, e.type)
       \/ /\ InSequence(j, e) /\ e.type = "cancelled"
          /\ FinishWithError(j, "CANCELLED", "cancelled")
       \/ /\ e.type = "error"
          /\ FinishWithError(j, "WORKER", "failed")
-----------------------------------------------------------------------------
(* The worker. *)

\* WASM is loaded: what has arrived so far is handled in this turn.
Load(j) ==
  /\ worker[j] = "loading"
  /\ \E n \in 0..Len(toWorker[j]) :
       /\ kept' = [kept EXCEPT ![j] = SubSeq(toWorker[j], 1, n)]
       /\ toWorker' = [toWorker EXCEPT ![j] = SubSeq(@, n + 1, Len(@))]
       /\ worker' = [worker EXCEPT ![j] = IF n = 0 THEN "ready" ELSE "replaying"]
  /\ UNCHANGED <<serviceVars, asks, lastSequence, run, toClient>>

Event(type, sequence, commits) == [type |-> type, sequence |-> sequence, commits |-> commits]

Send(j, e) == toClient' = [toClient EXCEPT ![j] = Append(@, e)]

Running(j) == run[j].phase \in {"preflight", "task"}

\* RUN starts the run, CANCEL marks it and is acknowledged; a CANCEL that finds
\* the run over gets an error, after the event that ended the client's run.
CoreHandles(j, message) ==
  \/ /\ message = "run"
     /\ run' = [run EXCEPT ![j] = [NoRun EXCEPT !.phase = "preflight", !.commits = job[j].restart]]
     /\ UNCHANGED toClient
  \/ /\ message = "cancel" /\ Running(j)
     /\ run' = [run EXCEPT ![j].cancelled = TRUE, ![j].sequence = @ + 1]
     /\ Send(j, Event("acknowledged", run[j].sequence + 1, 0))
  \/ /\ message = "cancel" /\ ~Running(j)
     /\ UNCHANGED <<run, toClient>>

HandleKept(j) ==
  /\ worker[j] = "replaying"
  /\ CoreHandles(j, Head(kept[j]))
  /\ kept' = [kept EXCEPT ![j] = Tail(@)]
  /\ worker' = [worker EXCEPT ![j] = IF Len(kept[j]) = 1 THEN "ready" ELSE "replaying"]
  /\ UNCHANGED <<serviceVars, asks, lastSequence, toWorker>>

HandleMessage(j) ==
  /\ worker[j] = "ready" /\ run[j].phase # "preflight" /\ toWorker[j] # <<>>
  /\ CoreHandles(j, Head(toWorker[j]))
  /\ toWorker' = [toWorker EXCEPT ![j] = Tail(@)]
  /\ UNCHANGED <<serviceVars, asks, lastSequence, worker, kept>>

Preflight(j) ==
  /\ worker[j] = "ready" /\ run[j].phase = "preflight"
  /\ \/ /\ run' = [run EXCEPT ![j].phase = "task"]
        /\ Send(j, Event("accepted", 0, 0))
     \/ /\ run' = [run EXCEPT ![j] = Over]
        /\ Send(j, Event("error", 0, 0))
  /\ UNCHANGED <<serviceVars, asks, lastSequence, worker, kept, toWorker>>

\* A time history commits a step and may report a checkpoint of it; the commits
\* of a pushover leave no trace on the page.
Commit(j) ==
  /\ run[j].phase = "task" /\ ~run[j].cancelled /\ run[j].commits < MaxCommits
  /\ job[j].mode = "nlth"
  /\ \/ /\ run' = [run EXCEPT ![j].commits = @ + 1]
        /\ UNCHANGED toClient
     \/ /\ run' = [run EXCEPT ![j].commits = @ + 1, ![j].sequence = @ + 1]
        /\ Send(j, Event("checkpoint", run[j].sequence + 1, run[j].commits + 1))
  /\ UNCHANGED <<serviceVars, asks, lastSequence, worker, kept, toWorker>>

\* The task returns or throws; once cancelled, either is a cancellation.
TaskEnds(j) ==
  /\ run[j].phase = "task"
  /\ run' = [run EXCEPT ![j] = Over]
  /\ \E type \in IF run[j].cancelled THEN {"cancelled"} ELSE {"completed", "failed", "blocked", "error"} :
       Send(j, Event(type, run[j].sequence + 1, 0))
  /\ UNCHANGED <<serviceVars, asks, lastSequence, worker, kept, toWorker>>
-----------------------------------------------------------------------------
Page(j) ==
  \/ Start(j) \/ \E k \in Jobs : Retry(k, j) \/ Resume(k, j)
  \/ Pause(j) \/ Cancel(j)

Turn(j) ==
  \/ Execute(j) \/ HandleEvent(j) \/ RunTimer(j) \/ CancelTimer(j) \/ WorkerFails(j)
  \/ Load(j) \/ HandleKept(j) \/ HandleMessage(j) \/ Preflight(j) \/ Commit(j) \/ TaskEnds(j)

Next == Edit \/ Dispose \/ \E j \in Jobs : Page(j) \/ Turn(j)

Spec == Init /\ [][Next]_vars

\* Microtasks run and the cancel timer fires once armed.  Nothing is asked of the
\* worker, which may compute for ever, nor of the limit of half an hour.
FairSpec == Spec /\ \A j \in Jobs : WF_vars(Execute(j)) /\ WF_vars(CancelTimer(j))
-----------------------------------------------------------------------------
Rows == [status : {"none"} \cup Active \cup Final, desired : {"none", "pause", "cancel"},
         mode : Modes, model : Models \cup {None},
         checkpoint : 0..MaxCommits, restart : 0..MaxCommits,
         from : Jobs \cup {None}, result : BOOLEAN,
         rejection : {"none", "WORKER", "EVENT_SEQUENCE_INVALID", "CANCELLED"}, scheduled : BOOLEAN]
Runs == [phase : {"none", "preflight", "task", "over"}, cancelled : BOOLEAN,
         sequence : Nat, commits : 0..MaxCommits]
Events == [type : {"accepted", "acknowledged", "checkpoint", "cancelled", "error",
                   "completed", "failed", "blocked"},
           sequence : Nat, commits : 0..MaxCommits]

TypeOK ==
  /\ model \in Models /\ disposed \in BOOLEAN
  /\ job \in [Jobs -> Rows]
  /\ timers \in [Jobs -> SUBSET {"run", "cancel"}]
  /\ asks \in [Jobs -> 0..MaxAsks]
  /\ lastSequence \in [Jobs -> Int]
  /\ worker \in [Jobs -> {"none", "loading", "replaying", "ready", "terminated"}]
  /\ kept \in [Jobs -> Seq({"run", "cancel"})]
  /\ run \in [Jobs -> Runs]
  /\ toWorker \in [Jobs -> Seq({"run", "cancel"})]
  /\ toClient \in [Jobs -> Seq(Events)]

\* At any time at most one worker is alive, and only for the job that executes:
\* no worker outlives its job, whichever way the job ended (jobManager.js:67,322-328).
OneWorker ==
  /\ \A j \in Jobs : Alive(j) => Listening(j)
  /\ \A j, k \in Jobs : Alive(j) /\ Alive(k) => j = k

\* A job ends as the user last asked, whatever the worker answered meanwhile, and
\* completes, pauses or is cancelled for no other reason; that the client refused
\* an answer as out of sequence is never shown (jobManager.js:440-470,485-494).
EndsAsAsked ==
  \A j \in Jobs : Is(j, Final) /\ ~disposed =>
    /\ Is(j, {"cancelled"}) <=> job[j].desired = "cancel"
    /\ Is(j, {"paused"}) <=> job[j].desired = "pause"
    /\ Is(j, {"completed"}) => job[j].result /\ job[j].rejection = "none"
    /\ job[j].rejection = "EVENT_SEQUENCE_INVALID" => job[j].desired # "none"

\* A job that restarts from a checkpoint continues a paused time history of the
\* same model, from the checkpoint that job still shows (jobManager.js:154-193).
RestartsContinue ==
  \A j \in Jobs : job[j].restart # NoCheckpoint =>
    LET k == job[j].from IN
      /\ Is(k, {"paused"}) /\ job[k].mode = "nlth" /\ job[j].mode = "nlth"
      /\ job[k].model = job[j].model
      /\ job[k].checkpoint = job[j].restart
      /\ job[j].checkpoint # NoCheckpoint => job[j].checkpoint >= job[j].restart

\* A job that was started begins or ends, and one that was asked to pause or to
\* cancel ends, even if its worker never answers (jobManager.js:113,401-410).
StopsWhenAsked ==
  \A j \in Jobs : Is(j, {"queued", "pausing", "cancelling"})
                    ~> ~Is(j, {"queued", "pausing", "cancelling"})

\* Whatever messages, timers and failures cross, the rows are those of the plain
\* service of JobService: one job at a time that begins and ends once, as asked,
\* with checkpoints that only move on (jobManager.js:64-206,331-494).
Service == INSTANCE JobService WITH
             Steps <- 0..MaxCommits,
             open <- ~disposed,
             status <- [j \in Jobs |-> job[j].status],
             wish <- [j \in Jobs |-> job[j].desired],
             shown <- [j \in Jobs |-> job[j].checkpoint]
KeepsServicePromises == Service!Spec
=============================================================================
