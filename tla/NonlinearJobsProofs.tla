-------------------------- MODULE NonlinearJobsProofs --------------------------
(***************************************************************************)
(* Proofs about NonlinearJobs: one worker at a time, ends as the user      *)
(* asked, and restarts that continue the job they come from, for any       *)
(* number of jobs, models, commits and requests.                           *)
(*                                                                         *)
(* The invariant follows a job's worker and its two queues.  A worker is   *)
(* alive exactly while its job executes and one job is active at a time;   *)
(* whatever ends a job empties its queues.  RUN is the first message of a  *)
(* worker and there is no other.  Nothing is cancelled, acknowledged or    *)
(* out of sequence before the user asks to pause or cancel: only a CANCEL  *)
(* that is handled before the preflight ends overtakes "accepted".         *)
(***************************************************************************)
EXTENDS NonlinearJobs, TLAPS

Asked(j) == Is(j, {"pausing", "cancelling"})

\* A worker and its timers live as long as their job executes; one job is active.
\* A worker that handles what it kept has something left to handle.
WorkerOfJob ==
  /\ \A j \in Jobs : Alive(j) <=> Listening(j)
  /\ \A j \in Jobs : worker[j] = "replaying" => kept[j] # <<>>
  /\ \A j \in Jobs : timers[j] # {} => Listening(j)
  /\ \A j, k \in Jobs : Is(j, Active) /\ Is(k, Active) => j = k
  /\ disposed => \A j \in Jobs : ~Is(j, Active)

\* Nothing is left of a worker whose job does not execute.
Quiet ==
  \A j \in Jobs : ~Listening(j) =>
    /\ kept[j] = <<>>
    /\ toWorker[j] = <<>>
    /\ toClient[j] = <<>>
    /\ run[j] = NoRun
    /\ lastSequence[j] = -1

\* The status of an active job shows what the user asked, and no end yet.
Wishes ==
  \A j \in Jobs :
    /\ Is(j, {"none", "queued", "running"}) => job[j].desired = "none"
    /\ Is(j, {"pausing"}) => job[j].desired = "pause"
    /\ Is(j, {"cancelling"}) => job[j].desired = "cancel"
    /\ Is(j, Active) => job[j].rejection = "none"

\* The run r of a worker, what it has kept (k) and not yet received (w) and what it
\* sent (c): RUN comes first and once ...
RunFirst(r, k, w) ==
  /\ \A i \in 1..Len(k) : k[i] = "run" => i = 1 /\ r.phase = "none"
  /\ \A i \in 1..Len(w) : w[i] = "run" => i = 1 /\ k = <<>> /\ r.phase = "none"

\* ... nothing is to be cancelled, is acknowledged or ends as cancelled ...
NotCancelled(r, k, w, c) ==
  /\ ~r.cancelled
  /\ \A i \in 1..Len(k) : k[i] # "cancel"
  /\ \A i \in 1..Len(w) : w[i] # "cancel"
  /\ \A i \in 1..Len(c) : c[i].type \notin {"cancelled", "acknowledged"}

\* ... the events are in sequence after the last one received ...
InOrder(r, c, last) ==
  /\ r.phase \in {"none", "preflight"} => c = <<>> /\ last = -1
  /\ r.phase = "task" =>
       /\ last <= r.sequence
       /\ \A i \in 1..Len(c) : c[i].sequence <= r.sequence
  /\ \A i \in 1..Len(c) : c[i].type # "error" => c[i].sequence > last
  /\ \A i, n \in 1..Len(c) : i < n /\ c[n].type # "error" => c[i].sequence < c[n].sequence

\* ... and the checkpoints on their way go on, one by one, from the one that is shown
\* up to the last commit.
Onward(r, c, shown) ==
  /\ r.phase \in {"preflight", "task"} => r.commits >= shown
  /\ r.phase \in {"none", "preflight"} => \A i \in 1..Len(c) : c[i].type # "checkpoint"
  /\ \A i \in 1..Len(c) : c[i].type = "checkpoint" =>
       /\ c[i].commits > shown
       /\ r.phase = "task" => c[i].commits <= r.commits
  /\ \A i, n \in 1..Len(c) : i < n /\ c[i].type = "checkpoint" /\ c[n].type = "checkpoint" =>
       c[i].commits < c[n].commits

Fits(j, r, k, w, c) ==
  /\ RunFirst(r, k, w)
  /\ ~Asked(j) => NotCancelled(r, k, w, c) /\ InOrder(r, c, lastSequence[j])
  /\ Onward(r, c, job[j].checkpoint)

QueuesFit == \A j \in Jobs : Fits(j, run[j], kept[j], toWorker[j], toClient[j])

\* A job that restarts names the job it continues.
RestartsNamed == \A j \in Jobs : job[j].restart # NoCheckpoint => job[j].from \in Jobs

\* An active job shows the checkpoint it restarted from until its run reports one.
ShownFromRestart ==
  \A j \in Jobs : Is(j, Active) =>
    /\ job[j].checkpoint >= job[j].restart
    /\ run[j].phase = "none" => job[j].checkpoint = job[j].restart

IInv ==
  /\ TypeOK
  /\ WorkerOfJob
  /\ Quiet
  /\ Wishes
  /\ QueuesFit
  /\ RestartsNamed
  /\ ShownFromRestart
  /\ EndsAsAsked
  /\ RestartsContinue
-----------------------------------------------------------------------------
(* Operators. *)

LEMMA NoRowType == NoJob \in Rows /\ NoRun \in Runs /\ Over \in Runs
<1>1. 0 \in 0..MaxCommits
  BY JobsAssumption
<1>2. NoJob \in Rows
  BY <1>1 DEF NoJob, Rows, Active, Final, Modes, NoCheckpoint
<1>3. NoRun \in Runs /\ Over \in Runs
  BY <1>1 DEF NoRun, Over, Runs
<1> QED BY <1>2, <1>3

\* What a row, a run and an event are made of.
LEMMA RowFields ==
  ASSUME TypeOK, NEW j \in Jobs
  PROVE  /\ job[j] \in Rows
         /\ job[j].status \in {"none"} \cup Active \cup Final
         /\ job[j].desired \in {"none", "pause", "cancel"}
         /\ job[j].mode \in Modes
         /\ job[j].checkpoint \in 0..MaxCommits
         /\ job[j].restart \in 0..MaxCommits
         /\ job[j].from \in Jobs \cup {None}
  BY DEF TypeOK, Rows

LEMMA RunFields ==
  ASSUME TypeOK, NEW j \in Jobs
  PROVE  /\ run[j] \in Runs
         /\ run[j].phase \in {"none", "preflight", "task", "over"}
         /\ run[j].cancelled \in BOOLEAN
         /\ run[j].sequence \in Nat
         /\ run[j].commits \in 0..MaxCommits
  BY DEF TypeOK, Runs

\* An event at the head or behind it.
LEMMA EventFields ==
  ASSUME TypeOK, NEW j \in Jobs, NEW i \in 1..Len(toClient[j])
  PROVE  /\ toClient[j][i] \in Events
         /\ toClient[j][i].type \in {"accepted", "acknowledged", "checkpoint", "cancelled", "error",
                                     "completed", "failed", "blocked"}
         /\ toClient[j][i].sequence \in Nat
         /\ toClient[j][i].commits \in 0..MaxCommits
<1>1. toClient[j] \in Seq(Events)
  BY DEF TypeOK
<1>2. toClient[j][i] \in Events
  BY <1>1
<1> QED BY <1>2 DEF Events
-----------------------------------------------------------------------------
(* A job ends: whatever else it was, its row changes, its worker is gone and *)
(* nothing is left in the queues.                                            *)

\* The row an end of j leaves behind.
Ended(j, row) ==
  /\ row \in Rows
  /\ row.status \in Final
  /\ row.mode = job[j].mode /\ row.model = job[j].model
  /\ row.restart = job[j].restart /\ row.from = job[j].from
  /\ row.checkpoint \in {job[j].checkpoint, NoCheckpoint}
  /\ (row.status = "cancelled") <=> (row.desired = "cancel")
  /\ (row.status = "paused") <=> (row.desired = "pause")
  /\ row.status = "completed" => row.result /\ row.rejection = "none"
  /\ row.rejection = "EVENT_SEQUENCE_INVALID" => row.desired # "none"

LEMMA CloseInv ==
  ASSUME IInv, NEW j \in Jobs, Listening(j), Close(j),
         NEW row, Ended(j, row), job' = [job EXCEPT ![j] = row]
  PROVE  IInv'
<1>1. /\ job' \in [Jobs -> Rows] /\ job'[j] = row
      /\ \A k \in Jobs : k # j => job'[k] = job[k]
  BY DEF IInv, TypeOK, Ended
<1>2. /\ worker'[j] = "terminated" /\ timers'[j] = {} /\ kept'[j] = <<>> /\ run'[j] = NoRun
      /\ toWorker'[j] = <<>> /\ toClient'[j] = <<>> /\ lastSequence'[j] = -1
      /\ UNCHANGED <<model, disposed>>
  BY DEF IInv, TypeOK, Close
<1>3. \A k \in Jobs : k # j =>
        /\ worker'[k] = worker[k] /\ timers'[k] = timers[k] /\ kept'[k] = kept[k]
        /\ run'[k] = run[k] /\ toWorker'[k] = toWorker[k] /\ toClient'[k] = toClient[k]
        /\ lastSequence'[k] = lastSequence[k]
  BY DEF IInv, TypeOK, Close
<1>4. job[j].status \in Executing /\ ~disposed
  BY DEF Listening, Is, IInv, WorkerOfJob, Active, Executing
<1>5. row.status \notin Active \cup {"none"} /\ row.status \notin Executing
  BY DEF Ended, Final, Active, Executing
<1>6. TypeOK'
  <2>1. /\ worker' \in [Jobs -> {"none", "loading", "replaying", "ready", "terminated"}]
        /\ timers' \in [Jobs -> SUBSET {"run", "cancel"}]
        /\ asks' \in [Jobs -> 0..MaxAsks]
        /\ lastSequence' \in [Jobs -> Int]
    BY JobsAssumption DEF IInv, TypeOK, Close
  <2>2. /\ kept' \in [Jobs -> Seq({"run", "cancel"})]
        /\ toWorker' \in [Jobs -> Seq({"run", "cancel"})]
        /\ toClient' \in [Jobs -> Seq(Events)]
    BY DEF IInv, TypeOK, Close
  <2>3. run' \in [Jobs -> Runs]
    BY NoRowType DEF IInv, TypeOK, Close
  <2> QED BY <1>1, <1>2, <2>1, <2>2, <2>3 DEF IInv, TypeOK
<1>7. WorkerOfJob'
  BY <1>1, <1>2, <1>3, <1>4, <1>5 DEF IInv, WorkerOfJob, Alive, Listening, Is
<1>8. Quiet'
  BY <1>1, <1>2, <1>3 DEF IInv, Quiet, Listening, Is
<1>9. Wishes'
  BY <1>1, <1>5 DEF IInv, Wishes, Is, Active
<1>10. QueuesFit'
  <2>1. Fits(j, run[j], kept[j], toWorker[j], toClient[j])'
    BY <1>2 DEF Fits, RunFirst, NotCancelled, InOrder, Onward, NoRun
  <2>2. ASSUME NEW k \in Jobs, k # j
        PROVE  Fits(k, run[k], kept[k], toWorker[k], toClient[k])'
    BY <1>1, <1>3, <2>2 DEF IInv, QueuesFit, Fits, Asked, Is
  <2> QED BY <2>1, <2>2 DEF QueuesFit
<1>11. RestartsNamed'
  BY <1>1 DEF IInv, RestartsNamed, Ended
<1>12. EndsAsAsked'
  BY <1>1, <1>2 DEF IInv, EndsAsAsked, Ended, Is
<1>13. RestartsContinue'
  <2>1. ASSUME NEW k \in Jobs, job'[k].restart # NoCheckpoint
        PROVE  /\ job[k].restart # NoCheckpoint /\ job'[k].restart = job[k].restart
               /\ job'[k].from = job[k].from /\ job[k].from \in Jobs /\ job[k].from # j
               /\ job'[k].mode = job[k].mode /\ job'[k].model = job[k].model
               /\ job'[k].checkpoint \in {job[k].checkpoint, NoCheckpoint}
    BY <1>1, <1>4, <2>1 DEF IInv, RestartsNamed, RestartsContinue, Ended, Is, Executing
  <2> QED BY <1>1, <2>1 DEF IInv, RestartsContinue, Is
<1>14. ShownFromRestart'
  BY <1>1, <1>3, <1>5 DEF IInv, ShownFromRestart, Is
<1> QED BY <1>6, <1>7, <1>8, <1>9, <1>10, <1>11, <1>12, <1>13, <1>14 DEF IInv

\* What a wish makes of an end that is none of the user's.
LEMMA EndStatusEnds ==
  ASSUME TypeOK, NEW j \in Jobs, NEW otherwise \in {"completed", "failed", "blocked", "cancelled"},
         otherwise = "cancelled" => job[j].desired # "none"
  PROVE  /\ EndStatus(j, otherwise) \in Final
         /\ (EndStatus(j, otherwise) = "cancelled") <=> (job[j].desired = "cancel")
         /\ (EndStatus(j, otherwise) = "paused") <=> (job[j].desired = "pause")
         /\ EndStatus(j, otherwise) = "completed" => otherwise = "completed"
  BY RowFields DEF EndStatus, Final

LEMMA FinishWithErrorInv ==
  ASSUME IInv, NEW j \in Jobs, Listening(j),
         NEW code \in {"WORKER", "EVENT_SEQUENCE_INVALID", "CANCELLED"},
         NEW status \in {"failed", "cancelled"},
         status = "cancelled" \/ code = "EVENT_SEQUENCE_INVALID" => job[j].desired # "none",
         FinishWithError(j, code, status)
  PROVE  IInv'
<1> DEFINE row == [job[j] EXCEPT !.status = EndStatus(j, status), !.rejection = code]
<1>1. TypeOK /\ job[j] \in Rows
  BY RowFields DEF IInv
<1>2. /\ EndStatus(j, status) \in Final
      /\ (EndStatus(j, status) = "cancelled") <=> (job[j].desired = "cancel")
      /\ (EndStatus(j, status) = "paused") <=> (job[j].desired = "pause")
      /\ EndStatus(j, status) # "completed"
  BY <1>1, EndStatusEnds
<1>3. row \in Rows
  BY <1>1, <1>2 DEF Rows
<1>4. Ended(j, row)
  BY <1>1, <1>2, <1>3 DEF Ended, Rows
<1>5. job' = [job EXCEPT ![j] = row] /\ Close(j)
  BY <1>1 DEF FinishWithError, TypeOK
<1> HIDE DEF row
<1> QED BY <1>4, <1>5, CloseInv

LEMMA FinishWithResultInv ==
  ASSUME IInv, NEW j \in Jobs, Listening(j), NEW kind \in {"completed", "failed", "blocked"},
         FinishWithResult(j, kind)
  PROVE  IInv'
<1>1. TypeOK /\ job[j] \in Rows
  BY RowFields DEF IInv
<1>2. job[j].rejection = "none"
  BY DEF IInv, Wishes, Listening, Is, Active, Executing
<1>3. CASE job' = [job EXCEPT ![j].status = EndStatus(j, kind), ![j].result = TRUE]
  <2> DEFINE row == [job[j] EXCEPT !.status = EndStatus(j, kind), !.result = TRUE]
  <2>1. /\ EndStatus(j, kind) \in Final
        /\ (EndStatus(j, kind) = "cancelled") <=> (job[j].desired = "cancel")
        /\ (EndStatus(j, kind) = "paused") <=> (job[j].desired = "pause")
    BY <1>1, EndStatusEnds
  <2>2. row \in Rows
    BY <1>1, <2>1 DEF Rows
  <2>3. Ended(j, row)
    BY <1>1, <1>2, <2>1, <2>2 DEF Ended, Rows
  <2>4. job' = [job EXCEPT ![j] = row] /\ Close(j)
    BY <1>1, <1>3 DEF FinishWithResult, TypeOK
  <2> HIDE DEF row
  <2> QED BY <2>3, <2>4, CloseInv
<1>4. CASE job' = [job EXCEPT ![j].status = EndStatus(j, "failed"), ![j].checkpoint = NoCheckpoint]
  <2> DEFINE row == [job[j] EXCEPT !.status = EndStatus(j, "failed"), !.checkpoint = NoCheckpoint]
  <2>1. /\ EndStatus(j, "failed") \in Final
        /\ (EndStatus(j, "failed") = "cancelled") <=> (job[j].desired = "cancel")
        /\ (EndStatus(j, "failed") = "paused") <=> (job[j].desired = "pause")
        /\ EndStatus(j, "failed") # "completed"
    BY <1>1, EndStatusEnds
  <2>2. row \in Rows
    <3>1. NoCheckpoint \in 0..MaxCommits
      BY JobsAssumption DEF NoCheckpoint
    <3> QED BY <1>1, <2>1, <3>1 DEF Rows
  <2>3. Ended(j, row)
    BY <1>1, <1>2, <2>1, <2>2 DEF Ended, Rows
  <2>4. job' = [job EXCEPT ![j] = row] /\ Close(j)
    BY <1>1, <1>4 DEF FinishWithResult, TypeOK
  <2> HIDE DEF row
  <2> QED BY <2>3, <2>4, CloseInv
<1> QED BY <1>3, <1>4 DEF FinishWithResult

\* The service is disposed of: every active job is cancelled, nothing else is left.
LEMMA DisposeInv == ASSUME IInv, Dispose PROVE IInv'
<1>1. /\ disposed' = TRUE /\ model' = model
      /\ \A j \in Jobs : /\ timers'[j] = {} /\ kept'[j] = <<>> /\ run'[j] = NoRun
                         /\ toWorker'[j] = <<>> /\ toClient'[j] = <<>> /\ lastSequence'[j] = -1
                         /\ asks'[j] = 0
                         /\ worker'[j] = IF Alive(j) THEN "terminated" ELSE worker[j]
  BY DEF Dispose
<1>2. \A j \in Jobs :
        job'[j] = IF Is(j, Active) THEN [job[j] EXCEPT !.status = "cancelled"] ELSE job[j]
  BY DEF Dispose
<1>3. \A j \in Jobs :
        /\ job'[j].mode = job[j].mode /\ job'[j].model = job[j].model
        /\ job'[j].restart = job[j].restart /\ job'[j].from = job[j].from
        /\ job'[j].checkpoint = job[j].checkpoint
        /\ job'[j].status \notin Active
        /\ Is(j, {"paused"}) => job'[j].status = "paused"
  BY <1>2, RowFields DEF IInv, Rows, Is, Active
<1>4. TypeOK'
  <2>1. job' \in [Jobs -> Rows]
    <3>1. \A j \in Jobs : [job[j] EXCEPT !.status = "cancelled"] \in Rows /\ job[j] \in Rows
      BY RowFields DEF IInv, Rows, Final
    <3> QED BY <3>1 DEF Dispose
  <2>2. /\ worker' \in [Jobs -> {"none", "loading", "replaying", "ready", "terminated"}]
        /\ timers' \in [Jobs -> SUBSET {"run", "cancel"}]
        /\ asks' \in [Jobs -> 0..MaxAsks]
        /\ lastSequence' \in [Jobs -> Int]
    BY JobsAssumption DEF IInv, TypeOK, Dispose
  <2>3. /\ kept' \in [Jobs -> Seq({"run", "cancel"})]
        /\ toWorker' \in [Jobs -> Seq({"run", "cancel"})]
        /\ toClient' \in [Jobs -> Seq(Events)]
    BY DEF Dispose
  <2>4. run' \in [Jobs -> Runs]
    BY NoRowType DEF Dispose
  <2> QED BY <1>1, <2>1, <2>2, <2>3, <2>4 DEF IInv, TypeOK
<1>5. WorkerOfJob'
  BY <1>1, <1>3 DEF IInv, WorkerOfJob, Alive, Listening, Is, Active, Executing
<1>6. Quiet'
  BY <1>1 DEF Quiet
<1>7. Wishes'
  <2>1. ASSUME NEW j \in Jobs, job'[j].status = "none"
        PROVE  job'[j] = job[j] /\ job[j].status = "none"
    <3>1. [job[j] EXCEPT !.status = "cancelled"].status = "cancelled"
      BY RowFields DEF IInv, Rows
    <3> QED BY <1>2, <2>1, <3>1
  <2> QED BY <1>3, <2>1 DEF IInv, Wishes, Is, Active
<1>8. QueuesFit'
  BY <1>1 DEF QueuesFit, Fits, RunFirst, NotCancelled, InOrder, Onward, NoRun
<1>9. RestartsNamed'
  BY <1>3 DEF IInv, RestartsNamed
<1>10. EndsAsAsked'
  BY <1>1 DEF EndsAsAsked
<1>11. RestartsContinue'
  BY <1>3 DEF IInv, RestartsContinue, RestartsNamed, Is
<1>12. ShownFromRestart'
  BY <1>3 DEF ShownFromRestart, Is
<1> QED BY <1>4, <1>5, <1>6, <1>7, <1>8, <1>9, <1>10, <1>11, <1>12 DEF IInv
-----------------------------------------------------------------------------
(* The service starts a job, executes it and passes on what the user asks. *)

\* The row a job is created with: it restarts from nothing, or from the checkpoint
\* of a paused time history of the model being edited.
Fresh(row) ==
  /\ row \in Rows
  /\ row.desired = "none" /\ row.rejection = "none"
  /\ row.checkpoint = row.restart
  /\ row.restart # NoCheckpoint =>
       /\ row.from \in Jobs
       /\ Is(row.from, {"paused"})
       /\ job[row.from].mode = "nlth" /\ row.mode = "nlth"
       /\ job[row.from].model = model
       /\ job[row.from].checkpoint = row.restart

LEMMA CreateInv ==
  ASSUME IInv, NEW j \in Jobs, NEW row, Fresh(row), Create(j, row)
  PROVE  IInv'
<1>1. PICK ok \in BOOLEAN :
        job' = [job EXCEPT ![j] = [row EXCEPT !.model = model, !.scheduled = ok,
                                              !.status = IF ok THEN "queued" ELSE "blocked"]]
  BY DEF Create
<1> DEFINE new == [row EXCEPT !.model = model, !.scheduled = ok,
                              !.status = IF ok THEN "queued" ELSE "blocked"]
<1>2. /\ new \in Rows
      /\ new.status \in {"queued", "blocked"}
      /\ new.desired = "none" /\ new.rejection = "none"
      /\ new.model = model
      /\ new.restart = row.restart /\ new.from = row.from
      /\ new.mode = row.mode /\ new.checkpoint = row.checkpoint
  <2>1. model \in Models
    BY DEF IInv, TypeOK
  <2> QED BY <2>1 DEF Fresh, Rows, Active, Final
<1>3. /\ job' \in [Jobs -> Rows] /\ job'[j] = new
      /\ \A k \in Jobs : k # j => job'[k] = job[k]
  BY <1>1, <1>2 DEF IInv, TypeOK
<1> HIDE DEF new
<1>4. /\ UNCHANGED <<model, disposed, timers, asks, lastSequence, workerVars, toWorker, toClient>>
      /\ ~disposed /\ job[j].status = "none" /\ \A k \in Jobs : ~Is(k, Active)
  BY DEF Create, Admissible, Known, Is
<1>5. \A k \in Jobs : ~Listening(k)
  BY <1>4 DEF Listening, Is, Active, Executing
<1>6. TypeOK'
  BY <1>3, <1>4 DEF IInv, TypeOK, workerVars
<1>7. WorkerOfJob'
  BY <1>2, <1>3, <1>4, <1>5 DEF IInv, WorkerOfJob, Alive, Listening, Is, Executing, Active, workerVars
<1>8. Quiet'
  BY <1>4, <1>5 DEF IInv, Quiet, workerVars
<1>9. Wishes'
  BY <1>2, <1>3 DEF IInv, Wishes, Is
<1>10. QueuesFit'
  <2>1. \A k \in Jobs : /\ run'[k] = NoRun /\ kept'[k] = <<>> /\ toWorker'[k] = <<>>
                        /\ toClient'[k] = <<>> /\ lastSequence'[k] = -1
    BY <1>4, <1>5 DEF IInv, Quiet, workerVars
  <2> QED BY <2>1 DEF QueuesFit, Fits, RunFirst, NotCancelled, InOrder, Onward, NoRun
<1>11. RestartsNamed'
  BY <1>2, <1>3 DEF IInv, RestartsNamed, Fresh
<1>12. EndsAsAsked'
  BY <1>2, <1>3, <1>4 DEF IInv, EndsAsAsked, Is
<1>13. RestartsContinue'
  <2>1. ASSUME NEW k \in Jobs, job'[k].restart # NoCheckpoint, k # j
        PROVE  job[k].from \in Jobs /\ job[k].from # j
    BY <1>3, <1>4, <2>1 DEF IInv, RestartsNamed, RestartsContinue, Is
  <2>2. ASSUME NEW k \in Jobs, job'[k].restart # NoCheckpoint, k = j
        PROVE  /\ new.from \in Jobs /\ new.from # j
               /\ job[new.from].status = "paused" /\ job[new.from].mode = "nlth"
               /\ new.mode = "nlth" /\ job[new.from].model = new.model
               /\ job[new.from].checkpoint = new.restart /\ new.checkpoint = new.restart
    BY <1>2, <1>3, <1>4, <2>2 DEF Fresh, Is
  <2>3. new.checkpoint \in Nat
    BY <1>2, JobsAssumption DEF Rows
  <2> QED BY <1>3, <2>1, <2>2, <2>3 DEF IInv, RestartsContinue, Is
<1>14. ShownFromRestart'
  <2>1. new.checkpoint = new.restart /\ new.checkpoint \in Nat
    BY <1>2 DEF Fresh, Rows
  <2> QED BY <1>3, <1>4, <2>1 DEF ShownFromRestart, Is
<1> QED BY <1>6, <1>7, <1>8, <1>9, <1>10, <1>11, <1>12, <1>13, <1>14 DEF IInv

\* Start, retry and resume create a fresh row.
LEMMA StartInv ==
  ASSUME IInv, NEW j \in Jobs, Start(j) \/ \E k \in Jobs : Retry(k, j) \/ Resume(k, j)
  PROVE  IInv'
<1>1. /\ NoJob \in Rows /\ NoJob.desired = "none" /\ NoJob.rejection = "none"
      /\ NoJob.restart = NoCheckpoint /\ NoJob.checkpoint = NoCheckpoint
  BY NoRowType DEF NoJob
<1>2. NoCheckpoint \in 0..MaxCommits
  BY JobsAssumption DEF NoCheckpoint
<1>3. CASE Start(j)
  <2>1. PICK mode \in Modes : Create(j, [NoJob EXCEPT !.mode = mode])
    BY <1>3 DEF Start
  <2>2. Fresh([NoJob EXCEPT !.mode = mode])
    BY <1>1 DEF Fresh, Rows
  <2> QED BY <2>1, <2>2, CreateInv
<1>4. ASSUME NEW k \in Jobs, Retry(k, j) PROVE IInv'
  <2>1. job[k].mode \in Modes
    BY RowFields DEF IInv
  <2>2. Fresh([NoJob EXCEPT !.mode = job[k].mode, !.from = k])
    BY <1>1, <2>1 DEF Fresh, Rows
  <2> QED BY <1>4, <2>2, CreateInv DEF Retry
<1>5. ASSUME NEW k \in Jobs, Resume(k, j) PROVE IInv'
  <2> DEFINE restart == IF job[k].mode = "nlth" THEN job[k].checkpoint ELSE NoCheckpoint
  <2>1. job[k].mode \in Modes /\ restart \in 0..MaxCommits
    BY RowFields, <1>2 DEF IInv
  <2>2. /\ Is(k, {"paused"})
        /\ restart # NoCheckpoint => job[k].model = model
        /\ Create(j, [NoJob EXCEPT !.mode = job[k].mode, !.from = k,
                                   !.restart = restart, !.checkpoint = restart])
    BY <1>5 DEF Resume
  <2>3. restart # NoCheckpoint => job[k].mode = "nlth" /\ job[k].checkpoint = restart
    OBVIOUS
  <2> HIDE DEF restart
  <2>4. Fresh([NoJob EXCEPT !.mode = job[k].mode, !.from = k,
                            !.restart = restart, !.checkpoint = restart])
    BY <1>1, <2>1, <2>2, <2>3 DEF Fresh, Rows
  <2> QED BY <2>2, <2>4, CreateInv
<1> QED BY <1>3, <1>4, <1>5

\* A row changes without an end: to be executed, or because the user asks.
Moved(j, row) ==
  /\ row \in Rows
  /\ row.mode = job[j].mode /\ row.model = job[j].model
  /\ row.restart = job[j].restart /\ row.from = job[j].from
  /\ row.checkpoint = job[j].checkpoint
  /\ row.rejection = job[j].rejection

\* What it does to the parts that speak of rows alone.
LEMMA MoveRows ==
  ASSUME IInv, NEW j \in Jobs, NEW row, Moved(j, row), job' = [job EXCEPT ![j] = row],
         disposed' = disposed, run' = run,
         job[j].status = "paused" => row.status = "paused",
         row.status \in Active => job[j].status \in Active
  PROVE  /\ job' \in [Jobs -> Rows] /\ job'[j] = row
         /\ \A k \in Jobs : k # j => job'[k] = job[k]
         /\ RestartsNamed' /\ RestartsContinue' /\ ShownFromRestart'
<1>1. /\ job' \in [Jobs -> Rows] /\ job'[j] = row
      /\ \A k \in Jobs : k # j => job'[k] = job[k]
  BY DEF IInv, TypeOK, Moved
<1>2. \A k \in Jobs : /\ job'[k].mode = job[k].mode /\ job'[k].model = job[k].model
                      /\ job'[k].restart = job[k].restart /\ job'[k].from = job[k].from
                      /\ job'[k].checkpoint = job[k].checkpoint
                      /\ job[k].status = "paused" => job'[k].status = "paused"
  BY <1>1 DEF Moved
<1>3. RestartsContinue'
  BY <1>2 DEF IInv, RestartsNamed, RestartsContinue, Is
<1>4. RestartsNamed'
  BY <1>2 DEF IInv, RestartsNamed
<1>5. ShownFromRestart'
  <2>1. \A k \in Jobs : Is(k, Active)' => Is(k, Active)
    BY <1>1 DEF Is
  <2> QED BY <1>2, <2>1 DEF IInv, ShownFromRestart
<1> QED BY <1>1, <1>3, <1>4, <1>5

LEMMA ExecuteInv == ASSUME IInv, NEW j \in Jobs, Execute(j) PROVE IInv'
<1>1. /\ TypeOK /\ job[j] \in Rows
      /\ UNCHANGED <<model, disposed, asks, lastSequence, kept, run, toClient>>
  BY RowFields DEF IInv, Execute
<1>2. CASE /\ job' = [job EXCEPT ![j].scheduled = FALSE]
           /\ UNCHANGED <<timers, worker, toWorker>>
  <2> DEFINE row == [job[j] EXCEPT !.scheduled = FALSE]
  <2>1. /\ Moved(j, row)
        /\ row.status = job[j].status /\ row.desired = job[j].desired /\ row.result = job[j].result
    BY <1>1 DEF Moved, Rows
  <2>2. job' = [job EXCEPT ![j] = row]
    BY <1>1, <1>2 DEF TypeOK
  <2> HIDE DEF row
  <2>3. /\ job' \in [Jobs -> Rows] /\ job'[j] = row
        /\ \A k \in Jobs : k # j => job'[k] = job[k]
        /\ RestartsNamed' /\ RestartsContinue' /\ ShownFromRestart'
    BY <1>1, <2>1, <2>2, MoveRows DEF Active
  <2>4. \A k \in Jobs : /\ job'[k].status = job[k].status /\ job'[k].desired = job[k].desired
                        /\ job'[k].result = job[k].result /\ job'[k].rejection = job[k].rejection
    BY <2>1, <2>3 DEF Moved
  <2>5. TypeOK'
    BY <1>1, <1>2, <2>3 DEF TypeOK
  <2>6. WorkerOfJob'
    BY <1>1, <1>2, <2>4 DEF IInv, WorkerOfJob, Alive, Listening, Is
  <2>7. Quiet'
    BY <1>1, <1>2, <2>4 DEF IInv, Quiet, Listening, Is
  <2>8. Wishes'
    BY <2>4 DEF IInv, Wishes, Is
  <2>9. QueuesFit'
    BY <1>1, <1>2, <2>1, <2>3, <2>4 DEF IInv, QueuesFit, Fits, Asked, Is, Moved
  <2>10. EndsAsAsked'
    BY <1>1, <2>4 DEF IInv, EndsAsAsked, Is
  <2> QED BY <2>3, <2>5, <2>6, <2>7, <2>8, <2>9, <2>10 DEF IInv
<1>3. CASE /\ ~disposed /\ Is(j, {"queued"})
           /\ job' = [job EXCEPT ![j].scheduled = FALSE, ![j].status = "failed",
                                 ![j].rejection = "WORKER"]
           /\ UNCHANGED <<timers, worker, toWorker>>
  <2> DEFINE row == [job[j] EXCEPT !.scheduled = FALSE, !.status = "failed", !.rejection = "WORKER"]
  <2>1. /\ row \in Rows
        /\ row.status = "failed" /\ row.rejection = "WORKER" /\ row.desired = job[j].desired
        /\ row.mode = job[j].mode /\ row.model = job[j].model /\ row.restart = job[j].restart
        /\ row.from = job[j].from /\ row.checkpoint = job[j].checkpoint
    BY <1>1 DEF Rows, Final
  <2>2. job' = [job EXCEPT ![j] = row] /\ job[j].status = "queued" /\ job[j].desired = "none"
    BY <1>1, <1>3 DEF TypeOK, Is, IInv, Wishes
  <2> HIDE DEF row
  <2>3. /\ job' \in [Jobs -> Rows] /\ job'[j] = row
        /\ \A k \in Jobs : k # j => job'[k] = job[k]
    BY <1>1, <2>1, <2>2 DEF TypeOK
  <2>4. TypeOK'
    BY <1>1, <1>3, <2>3 DEF TypeOK
  <2>5. WorkerOfJob'
    BY <1>1, <1>3, <2>1, <2>2, <2>3
       DEF IInv, WorkerOfJob, Alive, Listening, Is, Active, Executing
  <2>6. Quiet'
    BY <1>1, <1>3, <2>2, <2>3 DEF IInv, Quiet, Listening, Is, Executing
  <2>7. Wishes'
    BY <2>1, <2>3 DEF IInv, Wishes, Is, Active
  <2>8. QueuesFit'
    BY <1>1, <1>3, <2>1, <2>2, <2>3 DEF IInv, QueuesFit, Fits, Asked, Is
  <2>9. RestartsNamed'
    BY <2>1, <2>3 DEF IInv, RestartsNamed
  <2>10. EndsAsAsked'
    BY <1>1, <2>1, <2>2, <2>3 DEF IInv, EndsAsAsked, Is
  <2>11. RestartsContinue'
    BY <2>1, <2>2, <2>3 DEF IInv, RestartsContinue, RestartsNamed, Is
  <2>12. ShownFromRestart'
    BY <1>1, <2>1, <2>3 DEF IInv, ShownFromRestart, Is, Active
  <2> QED BY <2>4, <2>5, <2>6, <2>7, <2>8, <2>9, <2>10, <2>11, <2>12 DEF IInv
<1>4. CASE /\ ~disposed /\ Is(j, {"queued"})
           /\ job' = [job EXCEPT ![j].scheduled = FALSE, ![j].status = "running"]
           /\ timers' = [timers EXCEPT ![j] = {"run"}]
           /\ worker' = [worker EXCEPT ![j] = "loading"]
           /\ toWorker' = [toWorker EXCEPT ![j] = <<"run">>]
  <2> DEFINE row == [job[j] EXCEPT !.scheduled = FALSE, !.status = "running"]
  <2>1. /\ Moved(j, row)
        /\ row.status = "running" /\ row.desired = job[j].desired /\ row.rejection = job[j].rejection
    BY <1>1 DEF Moved, Rows, Active
  <2>2. /\ job' = [job EXCEPT ![j] = row]
        /\ job[j].status = "queued" /\ job[j].desired = "none" /\ job[j].rejection = "none"
    BY <1>1, <1>4 DEF TypeOK, Is, IInv, Wishes, Active
  <2> HIDE DEF row
  <2>3. /\ job' \in [Jobs -> Rows] /\ job'[j] = row
        /\ \A k \in Jobs : k # j => job'[k] = job[k]
        /\ RestartsNamed' /\ RestartsContinue' /\ ShownFromRestart'
    BY <1>1, <2>1, <2>2, MoveRows DEF Active
  <2>4. /\ toWorker'[j] = <<"run">> /\ worker'[j] = "loading" /\ timers'[j] = {"run"}
        /\ \A k \in Jobs : k # j => /\ toWorker'[k] = toWorker[k] /\ worker'[k] = worker[k]
                                    /\ timers'[k] = timers[k]
    BY <1>1, <1>4 DEF TypeOK
  <2>5. kept[j] = <<>> /\ run[j] = NoRun /\ toClient[j] = <<>> /\ lastSequence[j] = -1
    BY <2>2 DEF IInv, Quiet, Listening, Is, Executing
  <2>6. TypeOK'
    <3>1. /\ timers' \in [Jobs -> SUBSET {"run", "cancel"}]
          /\ worker' \in [Jobs -> {"none", "loading", "replaying", "ready", "terminated"}]
      BY <1>1, <1>4 DEF TypeOK
    <3>2. toWorker' \in [Jobs -> Seq({"run", "cancel"})]
      BY <1>1, <1>4 DEF TypeOK
    <3> QED BY <1>1, <2>3, <3>1, <3>2 DEF TypeOK
  <2>7. WorkerOfJob'
    BY <1>1, <1>4, <2>1, <2>2, <2>3, <2>4
       DEF IInv, WorkerOfJob, Alive, Listening, Is, Active, Executing
  <2>8. Quiet'
    BY <1>1, <2>1, <2>3, <2>4 DEF IInv, Quiet, Listening, Is, Executing
  <2>9. Wishes'
    BY <2>1, <2>2, <2>3 DEF IInv, Wishes, Is, Active
  <2>10. QueuesFit'
    <3>1. Fits(j, run[j], kept[j], toWorker[j], toClient[j])'
      BY <1>1, <2>4, <2>5 DEF Fits, RunFirst, NotCancelled, InOrder, Onward, NoRun
    <3>2. ASSUME NEW k \in Jobs, k # j
          PROVE  Fits(k, run[k], kept[k], toWorker[k], toClient[k])'
      BY <1>1, <2>3, <2>4, <3>2 DEF IInv, QueuesFit, Fits, Asked, Is
    <3> QED BY <3>1, <3>2 DEF QueuesFit
  <2>11. EndsAsAsked'
    BY <1>1, <2>1, <2>3 DEF IInv, EndsAsAsked, Is, Final
  <2> QED BY <2>3, <2>6, <2>7, <2>8, <2>9, <2>10, <2>11 DEF IInv
<1> QED BY <1>1, <1>2, <1>3, <1>4 DEF Execute

\* A queued job ends at once when the user asks.
LEMMA DropInv ==
  ASSUME IInv, NEW j \in Jobs, Is(j, {"queued"}), ~disposed,
         NEW status, NEW desired, <<status, desired>> \in {<<"paused", "pause">>, <<"cancelled", "cancel">>},
         job' = [job EXCEPT ![j].status = status, ![j].desired = desired],
         UNCHANGED <<model, disposed, timers, asks, lastSequence, workerVars, toWorker, toClient>>
  PROVE  IInv'
<1> DEFINE row == [job[j] EXCEPT !.status = status, !.desired = desired]
<1>1. TypeOK /\ job[j] \in Rows /\ job[j].status = "queued" /\ job[j].rejection = "none"
  BY RowFields DEF IInv, Is, Wishes, Active
<1>2. /\ Moved(j, row)
      /\ row.status = status /\ row.desired = desired /\ row.rejection = "none"
      /\ \/ status = "paused" /\ desired = "pause"
         \/ status = "cancelled" /\ desired = "cancel"
  BY <1>1 DEF Moved, Rows, Final
<1>3. job' = [job EXCEPT ![j] = row]
  BY <1>1 DEF TypeOK
<1> HIDE DEF row
<1>4. /\ job' \in [Jobs -> Rows] /\ job'[j] = row
      /\ \A k \in Jobs : k # j => job'[k] = job[k]
      /\ RestartsNamed' /\ RestartsContinue' /\ ShownFromRestart'
  BY <1>1, <1>2, <1>3, MoveRows DEF workerVars, Active
<1>5. TypeOK'
  BY <1>1, <1>4 DEF TypeOK, workerVars
<1>6. WorkerOfJob'
  BY <1>1, <1>2, <1>4 DEF IInv, WorkerOfJob, Alive, Listening, Is, Active, Executing, workerVars
<1>7. Quiet'
  BY <1>1, <1>4 DEF IInv, Quiet, Listening, Is, Executing, workerVars
<1>8. Wishes'
  BY <1>2, <1>4 DEF IInv, Wishes, Is, Active
<1>9. QueuesFit'
  BY <1>1, <1>2, <1>4 DEF IInv, QueuesFit, Fits, Asked, Is, workerVars, Moved
<1>10. EndsAsAsked'
  BY <1>2, <1>4 DEF IInv, EndsAsAsked, Is
<1> QED BY <1>4, <1>5, <1>6, <1>7, <1>8, <1>9, <1>10 DEF IInv

\* A CANCEL goes to the worker of an executing job when the user asks.
LEMMA AskInv ==
  ASSUME IInv, NEW j \in Jobs, Listening(j), RequestRuntimeCancellation(j),
         NEW status, NEW desired, <<status, desired>> \in {<<"pausing", "pause">>, <<"cancelling", "cancel">>},
         job' = [job EXCEPT ![j].status = status, ![j].desired = desired],
         UNCHANGED <<model, disposed, lastSequence, workerVars, toClient>>
  PROVE  IInv'
<1> DEFINE row == [job[j] EXCEPT !.status = status, !.desired = desired]
<1>1. TypeOK /\ job[j] \in Rows /\ job[j].status \in Executing /\ job[j].rejection = "none"
  BY RowFields DEF IInv, Listening, Is, Wishes, Active, Executing
<1>2. /\ Moved(j, row)
      /\ row.status = status /\ row.desired = desired /\ row.rejection = "none"
      /\ \/ status = "pausing" /\ desired = "pause"
         \/ status = "cancelling" /\ desired = "cancel"
  BY <1>1 DEF Moved, Rows, Active
<1>3. job' = [job EXCEPT ![j] = row]
  BY <1>1 DEF TypeOK
<1> HIDE DEF row
<1>4. /\ job' \in [Jobs -> Rows] /\ job'[j] = row
      /\ \A k \in Jobs : k # j => job'[k] = job[k]
      /\ RestartsNamed' /\ RestartsContinue' /\ ShownFromRestart'
  BY <1>1, <1>2, <1>3, MoveRows DEF workerVars, Executing, Active
<1>5. /\ asks' = [asks EXCEPT ![j] = @ + 1] /\ asks[j] < MaxAsks
      /\ toWorker' = [toWorker EXCEPT ![j] = Append(@, "cancel")]
      /\ timers' = [timers EXCEPT ![j] = @ \cup {"cancel"}]
  BY DEF RequestRuntimeCancellation
<1>6. /\ toWorker'[j] = Append(toWorker[j], "cancel")
      /\ \A k \in Jobs : k # j => toWorker'[k] = toWorker[k] /\ timers'[k] = timers[k]
  BY <1>1, <1>5 DEF TypeOK
<1>7. TypeOK'
  <2>1. asks' \in [Jobs -> 0..MaxAsks]
    BY <1>1, <1>5, JobsAssumption DEF TypeOK
  <2>2. timers' \in [Jobs -> SUBSET {"run", "cancel"}]
    BY <1>1, <1>5 DEF TypeOK
  <2>3. toWorker' \in [Jobs -> Seq({"run", "cancel"})]
    BY <1>1, <1>5 DEF TypeOK
  <2> QED BY <1>1, <1>4, <2>1, <2>2, <2>3 DEF TypeOK, workerVars
<1>8. WorkerOfJob'
  BY <1>1, <1>2, <1>4, <1>6 DEF IInv, WorkerOfJob, Alive, Listening, Is, Active, Executing, workerVars
<1>9. Quiet'
  BY <1>2, <1>4, <1>6 DEF IInv, Quiet, Listening, Is, Executing, workerVars
<1>10. Wishes'
  BY <1>2, <1>4 DEF IInv, Wishes, Is, Active
<1>11. QueuesFit'
  <2>1. toWorker[j] \in Seq({"run", "cancel"}) /\ Asked(j)'
    BY <1>1, <1>2, <1>4 DEF TypeOK, Asked, Is
  <2>2. ASSUME NEW i \in 1..Len(toWorker'[j]), toWorker'[j][i] = "run"
        PROVE  i \in 1..Len(toWorker[j]) /\ toWorker[j][i] = "run"
    BY <1>6, <2>1, <2>2
  <2>3. Fits(j, run[j], kept[j], toWorker[j], toClient[j])
    BY DEF IInv, QueuesFit
  <2>4. RunFirst(run'[j], kept'[j], toWorker'[j])
    BY <2>2, <2>3 DEF Fits, RunFirst, workerVars
  <2>5. Onward(run'[j], toClient'[j], job'[j].checkpoint)
    BY <1>2, <1>4, <2>3 DEF Fits, Moved, workerVars
  <2>6. Fits(j, run[j], kept[j], toWorker[j], toClient[j])'
    BY <2>1, <2>4, <2>5 DEF Fits
  <2>7. ASSUME NEW k \in Jobs, k # j
        PROVE  Fits(k, run[k], kept[k], toWorker[k], toClient[k])'
    BY <1>4, <1>6, <2>7 DEF IInv, QueuesFit, Fits, Asked, Is, workerVars
  <2> QED BY <2>6, <2>7 DEF QueuesFit
<1>12. EndsAsAsked'
  BY <1>2, <1>4 DEF IInv, EndsAsAsked, Is, Final
<1> QED BY <1>4, <1>7, <1>8, <1>9, <1>10, <1>11, <1>12 DEF IInv

LEMMA UserAsksInv == ASSUME IInv, NEW j \in Jobs, Pause(j) \/ Cancel(j) PROVE IInv'
<1>1. UNCHANGED <<model, disposed, lastSequence, workerVars, toClient>> /\ ~disposed
  BY DEF Pause, Cancel
<1>2. CASE /\ Is(j, {"queued"}) /\ UNCHANGED <<timers, asks, toWorker>>
           /\ \/ job' = [job EXCEPT ![j].status = "paused", ![j].desired = "pause"]
              \/ job' = [job EXCEPT ![j].status = "cancelled", ![j].desired = "cancel"]
  BY <1>1, <1>2, DropInv
<1>3. CASE /\ Is(j, Executing) /\ RequestRuntimeCancellation(j)
           /\ \/ job' = [job EXCEPT ![j].status = "pausing", ![j].desired = "pause"]
              \/ job' = [job EXCEPT ![j].status = "cancelling", ![j].desired = "cancel"]
  BY <1>1, <1>3, AskInv DEF Listening
<1>4. Is(j, {"running"}) => Is(j, Executing)
  BY DEF Is, Executing
<1> QED BY <1>2, <1>3, <1>4 DEF Pause, Cancel
-----------------------------------------------------------------------------
(* The worker.  Its steps leave the rows of the service alone. *)

LEMMA WorkerStepKeepsRows ==
  ASSUME IInv, UNCHANGED serviceVars
  PROVE  Wishes' /\ EndsAsAsked' /\ RestartsContinue'
<1>1. UNCHANGED <<job, disposed>>
  BY DEF serviceVars
<1>2. Wishes'
  BY <1>1 DEF IInv, Wishes, Is
<1>3. EndsAsAsked'
  BY <1>1 DEF IInv, EndsAsAsked, Is
<1>4. RestartsContinue'
  BY <1>1 DEF IInv, RestartsContinue, Is
<1> QED BY <1>2, <1>3, <1>4

\* What the rest of a worker's step has to keep.
LEMMA WorkerInv ==
  ASSUME IInv, NEW j \in Jobs, UNCHANGED serviceVars, UNCHANGED <<asks, lastSequence>>,
         Listening(j),
         NEW place \in {"loading", "replaying", "ready"},
         worker' = [worker EXCEPT ![j] = place], Alive(j),
         NEW r \in Runs, run' = [run EXCEPT ![j] = r], r.phase = "none" => run[j].phase = "none",
         NEW k \in Seq({"run", "cancel"}), kept' = [kept EXCEPT ![j] = k],
         place = "replaying" => k # <<>>,
         NEW w \in Seq({"run", "cancel"}), toWorker' = [toWorker EXCEPT ![j] = w],
         NEW c \in Seq(Events), toClient' = [toClient EXCEPT ![j] = c],
         Fits(j, r, k, w, c)
  PROVE  IInv'
<1>1. /\ TypeOK
      /\ UNCHANGED <<model, disposed, job, timers>>
  BY DEF IInv, serviceVars
<1>2. /\ run'[j] = r /\ kept'[j] = k /\ toWorker'[j] = w /\ toClient'[j] = c
      /\ \A n \in Jobs : n # j => /\ run'[n] = run[n] /\ kept'[n] = kept[n]
                                  /\ toWorker'[n] = toWorker[n] /\ toClient'[n] = toClient[n]
  BY <1>1 DEF TypeOK
<1>3. /\ worker' \in [Jobs -> {"none", "loading", "replaying", "ready", "terminated"}]
      /\ worker'[j] = place
      /\ \A n \in Jobs : n # j => worker'[n] = worker[n]
  BY <1>1 DEF TypeOK, Alive
<1>4. TypeOK'
  <2>1. /\ run' \in [Jobs -> Runs] /\ kept' \in [Jobs -> Seq({"run", "cancel"})]
        /\ toWorker' \in [Jobs -> Seq({"run", "cancel"})] /\ toClient' \in [Jobs -> Seq(Events)]
    BY <1>1 DEF TypeOK
  <2> QED BY <1>1, <1>3, <2>1 DEF TypeOK
<1>5. WorkerOfJob'
  BY <1>1, <1>2, <1>3 DEF IInv, WorkerOfJob, Alive, Listening, Is
<1>6. Quiet'
  BY <1>1, <1>2 DEF IInv, Quiet, Listening, Is
<1>7. QueuesFit'
  <2>1. Fits(j, run[j], kept[j], toWorker[j], toClient[j])'
    BY <1>1, <1>2 DEF Fits, Asked, Is
  <2>2. ASSUME NEW n \in Jobs, n # j
        PROVE  Fits(n, run[n], kept[n], toWorker[n], toClient[n])'
    BY <1>1, <1>2, <2>2 DEF IInv, QueuesFit, Fits, Asked, Is
  <2> QED BY <2>1, <2>2 DEF QueuesFit
<1>8. RestartsNamed'
  BY <1>1 DEF IInv, RestartsNamed
<1>9. ShownFromRestart'
  BY <1>1, <1>2 DEF IInv, ShownFromRestart, Is
<1> QED BY <1>4, <1>5, <1>6, <1>7, <1>8, <1>9, WorkerStepKeepsRows DEF IInv

\* What the invariant says of one worker and its queues.
LEMMA WorkerFacts ==
  ASSUME IInv, NEW j \in Jobs
  PROVE  /\ run[j] \in Runs
         /\ kept[j] \in Seq({"run", "cancel"}) /\ toWorker[j] \in Seq({"run", "cancel"})
         /\ toClient[j] \in Seq(Events)
         /\ run = [run EXCEPT ![j] = run[j]] /\ kept = [kept EXCEPT ![j] = kept[j]]
         /\ toWorker = [toWorker EXCEPT ![j] = toWorker[j]]
         /\ toClient = [toClient EXCEPT ![j] = toClient[j]]
         /\ Fits(j, run[j], kept[j], toWorker[j], toClient[j])
         /\ run[j].phase # "none" \/ run[j].cancelled \/ toClient[j] # <<>> \/ kept[j] # <<>>
              \/ toWorker[j] # <<>> => Alive(j) /\ Listening(j)
         /\ Alive(j) => /\ Listening(j)
                        /\ worker[j] \in {"loading", "replaying", "ready"}
                        /\ worker = [worker EXCEPT ![j] = worker[j]]
                        /\ worker[j] = "replaying" => kept[j] # <<>>
<1>1. TypeOK
  BY DEF IInv
<1>2. ~Listening(j) => /\ run[j].phase = "none" /\ ~run[j].cancelled /\ toClient[j] = <<>>
                       /\ kept[j] = <<>> /\ toWorker[j] = <<>>
  BY DEF IInv, Quiet, NoRun
<1>3. Alive(j) <=> Listening(j)
  BY DEF IInv, WorkerOfJob
<1>4. /\ run[j] \in Runs
      /\ kept[j] \in Seq({"run", "cancel"}) /\ toWorker[j] \in Seq({"run", "cancel"})
      /\ toClient[j] \in Seq(Events)
      /\ run = [run EXCEPT ![j] = run[j]] /\ kept = [kept EXCEPT ![j] = kept[j]]
      /\ toWorker = [toWorker EXCEPT ![j] = toWorker[j]]
      /\ toClient = [toClient EXCEPT ![j] = toClient[j]]
  BY <1>1 DEF TypeOK
<1>5. Fits(j, run[j], kept[j], toWorker[j], toClient[j])
  BY DEF IInv, QueuesFit
<1>6. worker[j] = "replaying" => kept[j] # <<>>
  BY DEF IInv, WorkerOfJob
<1>7. worker = [worker EXCEPT ![j] = worker[j]]
  BY <1>1 DEF TypeOK
<1> QED BY <1>2, <1>3, <1>4, <1>5, <1>6, <1>7 DEF Alive


LEMMA LoadInv == ASSUME IInv, NEW j \in Jobs, Load(j) PROVE IInv'
<1>1. PICK n \in 0..Len(toWorker[j]) :
        /\ kept' = [kept EXCEPT ![j] = SubSeq(toWorker[j], 1, n)]
        /\ toWorker' = [toWorker EXCEPT ![j] = SubSeq(toWorker[j], n + 1, Len(toWorker[j]))]
        /\ worker' = [worker EXCEPT ![j] = IF n = 0 THEN "ready" ELSE "replaying"]
  BY DEF Load
<1>2. /\ Alive(j) /\ Listening(j)
      /\ UNCHANGED <<serviceVars, asks, lastSequence, run, toClient>>
  BY WorkerFacts DEF Load, Alive
<1>3. /\ toWorker[j] \in Seq({"run", "cancel"}) /\ run[j] \in Runs /\ toClient[j] \in Seq(Events)
      /\ Fits(j, run[j], kept[j], toWorker[j], toClient[j])
      /\ run' = [run EXCEPT ![j] = run[j]] /\ toClient' = [toClient EXCEPT ![j] = toClient[j]]
  BY <1>2, WorkerFacts
<1> DEFINE k == SubSeq(toWorker[j], 1, n)
           w == SubSeq(toWorker[j], n + 1, Len(toWorker[j]))
<1>4. /\ k \in Seq({"run", "cancel"}) /\ w \in Seq({"run", "cancel"})
      /\ Len(k) = n /\ Len(w) = Len(toWorker[j]) - n
      /\ \A i \in 1..Len(k) : k[i] = toWorker[j][i]
      /\ \A i \in 1..Len(w) : w[i] = toWorker[j][n + i]
  BY <1>3
<1>5. n = 0 <=> k = <<>>
  BY <1>4
<1>9. /\ n \in Nat
      /\ \A i \in 1..Len(k) : i \in 1..Len(toWorker[j])
      /\ \A i \in 1..Len(w) : n + i \in 1..Len(toWorker[j]) /\ (n + i = 1 => n = 0 /\ i = 1)
  BY <1>3, <1>4
<1>6. kept' = [kept EXCEPT ![j] = k] /\ toWorker' = [toWorker EXCEPT ![j] = w]
  BY <1>1
<1> HIDE DEF k, w
<1>7. Fits(j, run[j], k, w, toClient[j])
  <2>1. RunFirst(run[j], k, w)
    BY <1>3, <1>4, <1>5, <1>9 DEF Fits, RunFirst
  <2>2. ~Asked(j) => NotCancelled(run[j], k, w, toClient[j])
    BY <1>3, <1>4, <1>9 DEF Fits, NotCancelled
  <2> QED BY <1>3, <2>1, <2>2 DEF Fits
<1> DEFINE place == IF n = 0 THEN "ready" ELSE "replaying"
<1>8. /\ place \in {"replaying", "ready"} /\ worker' = [worker EXCEPT ![j] = place]
      /\ place = "replaying" => k # <<>>
  BY <1>1, <1>5
<1> HIDE DEF place
<1> QED BY <1>2, <1>3, <1>4, <1>6, <1>7, <1>8, WorkerInv

\* What the core makes of a message, whatever is left in the queues behind it.
LEMMA CoreHandlesFits ==
  ASSUME IInv, NEW j \in Jobs, NEW message \in {"run", "cancel"}, CoreHandles(j, message),
         NEW k, NEW w, RunFirst(run[j], k, w), Listening(j),
         message = "run" => /\ run[j].phase = "none"
                            /\ \A i \in 1..Len(k) : k[i] # "run"
                            /\ \A i \in 1..Len(w) : w[i] # "run",
         ~Asked(j) => /\ message # "cancel"
                      /\ \A i \in 1..Len(k) : k[i] # "cancel"
                      /\ \A i \in 1..Len(w) : w[i] # "cancel"
  PROVE  \E r \in Runs, c \in Seq(Events) :
           /\ run' = [run EXCEPT ![j] = r]
           /\ toClient' = [toClient EXCEPT ![j] = c]
           /\ r.phase = "none" => run[j].phase = "none"
           /\ Fits(j, r, k, w, c)
<1>1. /\ run[j] \in Runs /\ toClient[j] \in Seq(Events)
      /\ Fits(j, run[j], kept[j], toWorker[j], toClient[j])
      /\ run = [run EXCEPT ![j] = run[j]] /\ toClient = [toClient EXCEPT ![j] = toClient[j]]
  BY WorkerFacts
<1>2. CASE /\ message = "run"
           /\ run' = [run EXCEPT ![j] = [NoRun EXCEPT !.phase = "preflight", !.commits = job[j].restart]]
           /\ UNCHANGED toClient
  <2> DEFINE r == [NoRun EXCEPT !.phase = "preflight", !.commits = job[j].restart]
  <2>1. /\ r \in Runs
        /\ r.phase = "preflight" /\ ~r.cancelled /\ r.commits = job[j].restart
    BY NoRowType, RowFields DEF IInv, Runs, NoRun
  <2>2. run' = [run EXCEPT ![j] = r]
    BY <1>2
  <2> HIDE DEF r
  <2>3. job[j].restart \in Nat /\ job[j].checkpoint = job[j].restart /\ run[j].phase = "none"
    BY <1>2, RowFields DEF IInv, ShownFromRestart, Listening, Is, Active, Executing
  <2>4. Onward(r, toClient[j], job[j].checkpoint)
    BY <1>1, <2>1, <2>3 DEF Fits, Onward
  <2>5. Fits(j, r, k, w, toClient[j])
    BY <1>1, <1>2, <2>1, <2>4 DEF Fits, RunFirst, NotCancelled, InOrder
  <2> QED BY <1>1, <1>2, <2>1, <2>2, <2>5
<1>3. CASE /\ message = "cancel" /\ Running(j)
           /\ run' = [run EXCEPT ![j].cancelled = TRUE, ![j].sequence = @ + 1]
           /\ Send(j, Event("acknowledged", run[j].sequence + 1, 0))
  <2> DEFINE r == [run[j] EXCEPT !.cancelled = TRUE, !.sequence = @ + 1]
             e == Event("acknowledged", run[j].sequence + 1, 0)
             c == Append(toClient[j], e)
  <2>1. r \in Runs /\ r.phase = run[j].phase /\ r.commits = run[j].commits
    <3>1. run[j].sequence + 1 \in Nat
      BY RunFields DEF IInv
    <3> HIDE DEF r
    <3>2. r = [run[j] EXCEPT !.cancelled = TRUE, !.sequence = run[j].sequence + 1]
      BY DEF r
    <3> QED BY <1>1, <3>1, <3>2 DEF Runs
  <2>2. e \in Events /\ e.type = "acknowledged"
    BY <1>1, JobsAssumption DEF Event, Events, Runs
  <2>3. run' = [run EXCEPT ![j] = r] /\ toClient' = [toClient EXCEPT ![j] = c]
    BY <1>3 DEF Send, IInv, TypeOK
  <2> HIDE DEF r, e
  <2>4. /\ c \in Seq(Events) /\ Len(c) = Len(toClient[j]) + 1 /\ c[Len(c)] = e
        /\ \A i \in 1..Len(toClient[j]) : c[i] = toClient[j][i]
    BY <1>1, <2>2
  <2> HIDE DEF c
  <2>5. Len(toClient[j]) \in Nat
    BY <1>1
  <2>6. Onward(r, c, job[j].checkpoint)
    <3>1. \A i \in 1..Len(c) : i \in 1..Len(toClient[j]) \/ c[i] = e
      BY <2>4, <2>5
    <3> QED BY <1>1, <2>1, <2>2, <2>4, <3>1 DEF Fits, Onward
  <2>7. RunFirst(r, k, w)
    BY <2>1 DEF RunFirst
  <2>8. Asked(j)
    BY <1>3
  <2> QED BY <2>1, <2>3, <2>4, <2>6, <2>7, <2>8 DEF Fits
<1>4. CASE message = "cancel" /\ UNCHANGED <<run, toClient>>
  <2>1. Fits(j, run[j], k, w, toClient[j])
    BY <1>1, <1>4 DEF Fits, RunFirst
  <2> QED BY <1>1, <1>4, <2>1
<1> QED BY <1>2, <1>3, <1>4 DEF CoreHandles

LEMMA HandleKeptInv == ASSUME IInv, NEW j \in Jobs, HandleKept(j) PROVE IInv'
<1>1. /\ Alive(j) /\ Listening(j) /\ CoreHandles(j, Head(kept[j])) /\ kept[j] # <<>>
      /\ UNCHANGED <<serviceVars, asks, lastSequence, toWorker>>
  BY WorkerFacts DEF HandleKept, Alive
<1>2. /\ kept[j] \in Seq({"run", "cancel"}) /\ toWorker[j] \in Seq({"run", "cancel"})
      /\ Fits(j, run[j], kept[j], toWorker[j], toClient[j])
      /\ toWorker' = [toWorker EXCEPT ![j] = toWorker[j]]
  BY <1>1, WorkerFacts
<1> DEFINE k == Tail(kept[j])
           place == IF Len(kept[j]) = 1 THEN "ready" ELSE "replaying"
<1>3. /\ k \in Seq({"run", "cancel"})
      /\ Head(kept[j]) = kept[j][1] /\ 1 \in 1..Len(kept[j])
      /\ Head(kept[j]) \in {"run", "cancel"}
      /\ \A i \in 1..Len(k) : i + 1 \in 1..Len(kept[j]) /\ k[i] = kept[j][i + 1] /\ i + 1 # 1
      /\ Len(k) = Len(kept[j]) - 1
  BY <1>1, <1>2
<1>4. /\ kept' = [kept EXCEPT ![j] = k]
      /\ worker' = [worker EXCEPT ![j] = place] /\ place \in {"replaying", "ready"}
  BY DEF HandleKept
<1> HIDE DEF k
<1>6. place = "replaying" => k # <<>>
  <2>1. Len(kept[j]) \in Nat /\ (k = <<>> => Len(k) = 0)
    BY <1>2
  <2> QED BY <1>3, <2>1
<1> HIDE DEF place
<1>5. PICK r \in Runs, c \in Seq(Events) :
        /\ run' = [run EXCEPT ![j] = r]
        /\ toClient' = [toClient EXCEPT ![j] = c]
        /\ r.phase = "none" => run[j].phase = "none"
        /\ Fits(j, r, k, toWorker[j], c)
  <2>1. /\ \A i \in 1..Len(k) : k[i] # "run"
        /\ \A i \in 1..Len(toWorker[j]) : toWorker[j][i] # "run"
        /\ Head(kept[j]) = "run" => run[j].phase = "none"
        /\ RunFirst(run[j], k, toWorker[j])
    BY <1>2, <1>3 DEF Fits, RunFirst
  <2>2. ~Asked(j) => /\ Head(kept[j]) # "cancel"
                     /\ \A i \in 1..Len(k) : k[i] # "cancel"
                     /\ \A i \in 1..Len(toWorker[j]) : toWorker[j][i] # "cancel"
    BY <1>2, <1>3 DEF Fits, NotCancelled
  <2> QED BY <1>1, <1>3, <2>1, <2>2, CoreHandlesFits
<1> QED BY <1>1, <1>2, <1>3, <1>4, <1>5, <1>6, WorkerInv

LEMMA HandleMessageInv == ASSUME IInv, NEW j \in Jobs, HandleMessage(j) PROVE IInv'
<1>1. /\ toWorker[j] # <<>> /\ Alive(j) /\ Listening(j) /\ CoreHandles(j, Head(toWorker[j]))
      /\ UNCHANGED <<serviceVars, asks, lastSequence, worker, kept>>
  BY WorkerFacts DEF HandleMessage, Alive
<1>2. /\ kept[j] \in Seq({"run", "cancel"}) /\ toWorker[j] \in Seq({"run", "cancel"})
      /\ Fits(j, run[j], kept[j], toWorker[j], toClient[j])
      /\ kept' = [kept EXCEPT ![j] = kept[j]]
      /\ worker' = [worker EXCEPT ![j] = worker[j]] /\ worker[j] = "ready"
  BY <1>1, WorkerFacts DEF HandleMessage
<1> DEFINE w == Tail(toWorker[j])
<1>3. /\ w \in Seq({"run", "cancel"})
      /\ Head(toWorker[j]) = toWorker[j][1] /\ 1 \in 1..Len(toWorker[j])
      /\ Head(toWorker[j]) \in {"run", "cancel"}
      /\ \A i \in 1..Len(w) : i + 1 \in 1..Len(toWorker[j]) /\ w[i] = toWorker[j][i + 1] /\ i + 1 # 1
  BY <1>1, <1>2
<1>4. toWorker' = [toWorker EXCEPT ![j] = w]
  BY DEF HandleMessage
<1> HIDE DEF w
<1>5. PICK r \in Runs, c \in Seq(Events) :
        /\ run' = [run EXCEPT ![j] = r]
        /\ toClient' = [toClient EXCEPT ![j] = c]
        /\ r.phase = "none" => run[j].phase = "none"
        /\ Fits(j, r, kept[j], w, c)
  <2>1. /\ \A i \in 1..Len(w) : w[i] # "run"
        /\ Head(toWorker[j]) = "run" => run[j].phase = "none" /\ kept[j] = <<>>
        /\ RunFirst(run[j], kept[j], w)
    BY <1>2, <1>3 DEF Fits, RunFirst
  <2>3. kept[j] = <<>> => \A i \in 1..Len(kept[j]) : kept[j][i] # "run"
    OBVIOUS
  <2>2. ~Asked(j) => /\ Head(toWorker[j]) # "cancel"
                     /\ \A i \in 1..Len(kept[j]) : kept[j][i] # "cancel"
                     /\ \A i \in 1..Len(w) : w[i] # "cancel"
    BY <1>2, <1>3 DEF Fits, NotCancelled
  <2> QED BY <1>1, <1>3, <2>1, <2>2, <2>3, CoreHandlesFits
<1> QED BY <1>1, <1>2, <1>3, <1>4, <1>5, WorkerInv

\* An event is sent: whatever it is, those sent before it stay as they are.
LEMMA SendFits ==
  ASSUME IInv, NEW j \in Jobs, NEW e \in Events, Send(j, e), NEW r \in Runs,
         r.phase \in {"task", "over"}, run[j].phase \in {"preflight", "task"},
         r.phase = "task" => r.commits >= run[j].commits,
         e.type = "checkpoint" => /\ run[j].phase = "task"
                                  /\ run[j].commits < e.commits /\ e.commits <= r.commits,
         ~Asked(j) =>
           /\ ~r.cancelled
           /\ e.type \notin {"cancelled", "acknowledged"}
           /\ r.phase = "task" => /\ r.sequence >= e.sequence
                                  /\ r.sequence >= run[j].sequence
                                  /\ lastSequence[j] <= r.sequence
           /\ \/ e.type = "error"
              \/ /\ e.sequence > lastSequence[j]
                 /\ \A i \in 1..Len(toClient[j]) : toClient[j][i].sequence < e.sequence
  PROVE  \E c \in Seq(Events) : /\ toClient' = [toClient EXCEPT ![j] = c]
                                /\ Fits(j, r, kept[j], toWorker[j], c)
<1> DEFINE q == toClient[j]
           c == Append(q, e)
<1>1. /\ q \in Seq(Events) /\ run[j] \in Runs
      /\ Fits(j, run[j], kept[j], toWorker[j], q)
  BY WorkerFacts
<1>2. toClient' = [toClient EXCEPT ![j] = c]
  BY DEF Send
<1>3. /\ c \in Seq(Events) /\ Len(c) = Len(q) + 1 /\ c[Len(q) + 1] = e /\ Len(q) \in Nat
      /\ \A i \in 1..Len(q) : c[i] = q[i]
  BY <1>1
<1>4. \A i \in 1..Len(q) : q[i].sequence \in Nat
  BY EventFields DEF IInv
<1> HIDE DEF c, q
<1>5. \A i \in 1..Len(c) : i \in 1..Len(q) \/ i = Len(q) + 1
  BY <1>3
<1>6. RunFirst(r, kept[j], toWorker[j])
  BY <1>1 DEF Fits, RunFirst
<1>7. Onward(r, c, job[j].checkpoint)
  <2>1. Onward(run[j], q, job[j].checkpoint)
    BY <1>1 DEF Fits
  <2>2. /\ run[j].commits \in Nat /\ r.commits \in Nat /\ e.commits \in Nat
        /\ job[j].checkpoint \in Nat
        /\ \A i \in 1..Len(q) : q[i].commits \in Nat
    <3>1. \A i \in 1..Len(q) : q[i].commits \in Nat
      BY EventFields DEF IInv, q
    <3>2. job[j].checkpoint \in Nat
      BY RowFields DEF IInv
    <3> QED BY <1>1, <3>1, <3>2 DEF Runs, Events
  <2>3. ASSUME NEW i \in 1..Len(c), c[i].type = "checkpoint"
        PROVE  /\ c[i].commits > job[j].checkpoint
               /\ r.phase = "task" => c[i].commits <= r.commits
    <3>1. CASE i \in 1..Len(q)
      BY <1>3, <2>1, <2>2, <2>3, <3>1 DEF Onward
    <3>2. CASE i = Len(q) + 1
      BY <1>3, <2>1, <2>2, <2>3, <3>2 DEF Onward
    <3> QED BY <1>5, <3>1, <3>2
  <2>4. ASSUME NEW i \in 1..Len(c), NEW n \in 1..Len(c), i < n,
               c[i].type = "checkpoint", c[n].type = "checkpoint"
        PROVE  c[i].commits < c[n].commits
    <3>1. i \in 1..Len(q)
      BY <1>3, <2>4
    <3>2. CASE n \in 1..Len(q)
      BY <1>3, <2>1, <2>4, <3>1, <3>2 DEF Onward
    <3>3. CASE n = Len(q) + 1
      BY <1>3, <2>1, <2>2, <2>4, <3>1, <3>3 DEF Onward
    <3> QED BY <1>5, <3>2, <3>3
  <2>5. r.phase \in {"preflight", "task"} => r.commits >= job[j].checkpoint
    BY <2>1, <2>2 DEF Onward
  <2> QED BY <2>3, <2>4, <2>5 DEF Onward
<1>8. ASSUME ~Asked(j) PROVE NotCancelled(r, kept[j], toWorker[j], c)
  BY <1>1, <1>3, <1>5, <1>8 DEF Fits, NotCancelled
<1>9. ASSUME ~Asked(j) PROVE InOrder(r, c, lastSequence[j])
  <2>1. InOrder(run[j], q, lastSequence[j])
    BY <1>1, <1>9 DEF Fits
  <2>2. r.phase \notin {"none", "preflight"}
    BY <1>9
  <2>3. ASSUME r.phase = "task"
        PROVE  lastSequence[j] <= r.sequence /\ \A i \in 1..Len(c) : c[i].sequence <= r.sequence
    <3>1. \A i \in 1..Len(q) : q[i].sequence <= run[j].sequence
      BY <1>9, <2>1, <2>3 DEF InOrder
    <3>2. run[j].sequence \in Nat /\ r.sequence \in Nat /\ e.sequence \in Nat
      BY <1>1 DEF Runs, Events
    <3>3. \A i \in 1..Len(q) : q[i].sequence <= r.sequence
      BY <1>4, <1>9, <2>3, <3>1, <3>2
    <3> QED BY <1>3, <1>5, <1>9, <2>3, <3>3
  <2>4. \A i \in 1..Len(c) : c[i].type # "error" => c[i].sequence > lastSequence[j]
    BY <1>3, <1>5, <1>9, <2>1 DEF InOrder
  <2>5. \A i, n \in 1..Len(c) : i < n /\ c[n].type # "error" => c[i].sequence < c[n].sequence
    <3>1. ASSUME NEW i \in 1..Len(c), NEW n \in 1..Len(c), i < n, c[n].type # "error"
          PROVE  c[i].sequence < c[n].sequence
      <4>1. i \in 1..Len(q)
        BY <1>3, <3>1
      <4>2. CASE n \in 1..Len(q)
        BY <1>3, <2>1, <3>1, <4>1, <4>2 DEF InOrder
      <4>3. CASE n = Len(q) + 1
        BY <1>3, <1>9, <3>1, <4>1, <4>3 DEF q
      <4> QED BY <1>5, <4>2, <4>3
    <3> QED BY <3>1
  <2> QED BY <2>2, <2>3, <2>4, <2>5 DEF InOrder
<1>10. Fits(j, r, kept[j], toWorker[j], c)
  BY <1>6, <1>7, <1>8, <1>9 DEF Fits
<1> QED BY <1>2, <1>3, <1>10

\* The run goes on or ends without a message from the client.
LEMMA RunStepInv ==
  ASSUME IInv, NEW j \in Jobs, run[j].phase \in {"preflight", "task"},
         UNCHANGED <<serviceVars, asks, lastSequence, worker, kept, toWorker>>,
         NEW r \in Runs, r.phase # "none", run' = [run EXCEPT ![j] = r],
         NEW c \in Seq(Events), toClient' = [toClient EXCEPT ![j] = c],
         Fits(j, r, kept[j], toWorker[j], c)
  PROVE  IInv'
<1>1. Alive(j) /\ Listening(j)
  BY WorkerFacts
<1>2. /\ worker' = [worker EXCEPT ![j] = worker[j]]
      /\ worker[j] \in {"loading", "replaying", "ready"}
      /\ worker[j] = "replaying" => kept[j] # <<>>
  BY <1>1, WorkerFacts
<1>3. /\ kept[j] \in Seq({"run", "cancel"}) /\ toWorker[j] \in Seq({"run", "cancel"})
      /\ kept' = [kept EXCEPT ![j] = kept[j]] /\ toWorker' = [toWorker EXCEPT ![j] = toWorker[j]]
  BY WorkerFacts
<1> QED BY <1>1, <1>2, <1>3, WorkerInv

LEMMA PreflightInv == ASSUME IInv, NEW j \in Jobs, Preflight(j) PROVE IInv'
<1>1. /\ run[j].phase = "preflight"
      /\ UNCHANGED <<serviceVars, asks, lastSequence, worker, kept, toWorker>>
  BY DEF Preflight
<1>2. /\ run[j] \in Runs /\ run[j].sequence \in Nat /\ run[j].commits \in Nat
      /\ Fits(j, run[j], kept[j], toWorker[j], toClient[j])
  BY WorkerFacts, RunFields DEF IInv
<1>3. ~Asked(j) => toClient[j] = <<>> /\ lastSequence[j] = -1 /\ ~run[j].cancelled
  BY <1>1, <1>2 DEF Fits, InOrder, NotCancelled
<1>4. 0 \in 0..MaxCommits
  BY JobsAssumption
<1>5. CASE run' = [run EXCEPT ![j].phase = "task"] /\ Send(j, Event("accepted", 0, 0))
  <2> DEFINE r == [run[j] EXCEPT !.phase = "task"]
             e == Event("accepted", 0, 0)
  <2>1. /\ r \in Runs /\ r.phase = "task" /\ r.commits = run[j].commits
        /\ r.cancelled = run[j].cancelled /\ r.sequence = run[j].sequence
    BY <1>2 DEF Runs
  <2>2. e \in Events /\ e.type = "accepted" /\ e.sequence = 0
    BY <1>4 DEF Event, Events
  <2>3. run' = [run EXCEPT ![j] = r] /\ Send(j, e)
    BY <1>5 DEF IInv, TypeOK
  <2> HIDE DEF r, e
  <2>4. PICK c \in Seq(Events) : /\ toClient' = [toClient EXCEPT ![j] = c]
                                 /\ Fits(j, r, kept[j], toWorker[j], c)
    BY <1>1, <1>2, <1>3, <2>1, <2>2, <2>3, SendFits
  <2> QED BY <1>1, <2>1, <2>3, <2>4, RunStepInv
<1>6. CASE run' = [run EXCEPT ![j] = Over] /\ Send(j, Event("error", 0, 0))
  <2> DEFINE e == Event("error", 0, 0)
  <2>1. Over \in Runs /\ Over.phase = "over" /\ ~Over.cancelled
    BY NoRowType DEF Over, NoRun
  <2>2. e \in Events /\ e.type = "error"
    BY <1>4 DEF Event, Events
  <2> HIDE DEF e
  <2>3. PICK c \in Seq(Events) : /\ toClient' = [toClient EXCEPT ![j] = c]
                                 /\ Fits(j, Over, kept[j], toWorker[j], c)
    BY <1>1, <1>6, <2>1, <2>2, SendFits DEF e
  <2> QED BY <1>1, <1>6, <2>1, <2>3, RunStepInv
<1> QED BY <1>5, <1>6 DEF Preflight

LEMMA CommitInv == ASSUME IInv, NEW j \in Jobs, Commit(j) PROVE IInv'
<1>1. /\ run[j].phase = "task" /\ run[j].commits < MaxCommits
      /\ UNCHANGED <<serviceVars, asks, lastSequence, worker, kept, toWorker>>
  BY DEF Commit
<1>2. /\ run[j] \in Runs /\ run[j].sequence \in Nat /\ run[j].commits \in Nat
      /\ job[j].checkpoint \in Nat /\ lastSequence[j] \in Int
      /\ toClient[j] \in Seq(Events)
      /\ Fits(j, run[j], kept[j], toWorker[j], toClient[j])
      /\ run[j].commits >= job[j].checkpoint
  BY <1>1, WorkerFacts, RunFields, RowFields DEF IInv, Fits, Onward, TypeOK
<1>3. /\ run[j].commits + 1 \in 0..MaxCommits /\ run[j].commits + 1 >= job[j].checkpoint
      /\ run[j].sequence + 1 \in Nat
  BY <1>1, <1>2, JobsAssumption
<1>4. ~Asked(j) =>
        /\ lastSequence[j] <= run[j].sequence /\ ~run[j].cancelled
        /\ \A i \in 1..Len(toClient[j]) : toClient[j][i].sequence <= run[j].sequence
  BY <1>1, <1>2 DEF Fits, InOrder, NotCancelled
<1>5. CASE run' = [run EXCEPT ![j].commits = @ + 1] /\ UNCHANGED toClient
  <2> DEFINE r == [run[j] EXCEPT !.commits = run[j].commits + 1]
  <2>1. /\ r \in Runs /\ r.phase = "task" /\ r.commits = run[j].commits + 1
        /\ r.cancelled = run[j].cancelled /\ r.sequence = run[j].sequence
    BY <1>1, <1>2, <1>3 DEF Runs
  <2>2. run' = [run EXCEPT ![j] = r] /\ toClient' = [toClient EXCEPT ![j] = toClient[j]]
    BY <1>5 DEF IInv, TypeOK
  <2> HIDE DEF r
  <2>3. Onward(r, toClient[j], job[j].checkpoint)
    <3>1. \A i \in 1..Len(toClient[j]) : toClient[j][i].commits \in Nat
      BY EventFields DEF IInv
    <3>2. Onward(run[j], toClient[j], job[j].checkpoint)
      BY <1>2 DEF Fits
    <3>3. ASSUME NEW i \in 1..Len(toClient[j]), toClient[j][i].type = "checkpoint"
          PROVE  toClient[j][i].commits > job[j].checkpoint /\ toClient[j][i].commits <= r.commits
      BY <1>1, <1>2, <2>1, <3>1, <3>2, <3>3 DEF Onward
    <3> QED BY <1>3, <2>1, <3>2, <3>3 DEF Onward
  <2>4. Fits(j, r, kept[j], toWorker[j], toClient[j])
    BY <1>1, <1>2, <2>1, <2>3 DEF Fits, RunFirst, NotCancelled, InOrder
  <2> QED BY <1>1, <1>2, <2>1, <2>2, <2>4, RunStepInv
<1>6. CASE /\ run' = [run EXCEPT ![j].commits = @ + 1, ![j].sequence = @ + 1]
           /\ Send(j, Event("checkpoint", run[j].sequence + 1, run[j].commits + 1))
  <2> DEFINE r == [run[j] EXCEPT !.commits = run[j].commits + 1, !.sequence = run[j].sequence + 1]
             e == Event("checkpoint", run[j].sequence + 1, run[j].commits + 1)
  <2>1. /\ r \in Runs /\ r.phase = "task" /\ r.commits = run[j].commits + 1
        /\ r.cancelled = run[j].cancelled /\ r.sequence = run[j].sequence + 1
    BY <1>1, <1>2, <1>3 DEF Runs
  <2>2. /\ e \in Events /\ e.type = "checkpoint" /\ e.sequence = run[j].sequence + 1
        /\ e.commits = run[j].commits + 1
    BY <1>3 DEF Event, Events
  <2>3. run' = [run EXCEPT ![j] = r] /\ Send(j, e)
    BY <1>6 DEF IInv, TypeOK
  <2> HIDE DEF r, e
  <2>4. ~Asked(j) => /\ e.sequence > lastSequence[j] /\ lastSequence[j] <= r.sequence
                     /\ \A i \in 1..Len(toClient[j]) : toClient[j][i].sequence < e.sequence
    <3>1. \A i \in 1..Len(toClient[j]) : toClient[j][i].sequence \in Nat
      BY EventFields DEF IInv
    <3> QED BY <1>2, <1>4, <2>1, <2>2, <3>1
  <2>5. /\ r.sequence >= e.sequence /\ r.sequence >= run[j].sequence
        /\ r.commits >= run[j].commits /\ run[j].commits < e.commits /\ e.commits <= r.commits
    BY <1>2, <2>1, <2>2
  <2>6. PICK c \in Seq(Events) : /\ toClient' = [toClient EXCEPT ![j] = c]
                                 /\ Fits(j, r, kept[j], toWorker[j], c)
    BY <1>1, <1>3, <1>4, <2>1, <2>2, <2>3, <2>4, <2>5, SendFits
  <2> QED BY <1>1, <2>1, <2>3, <2>6, RunStepInv
<1> QED BY <1>5, <1>6 DEF Commit

LEMMA TaskEndsInv == ASSUME IInv, NEW j \in Jobs, TaskEnds(j) PROVE IInv'
<1>1. /\ run[j].phase = "task" /\ run' = [run EXCEPT ![j] = Over]
      /\ UNCHANGED <<serviceVars, asks, lastSequence, worker, kept, toWorker>>
  BY DEF TaskEnds
<1>2. PICK type \in {"cancelled", "completed", "failed", "blocked", "error"} :
        /\ type = "cancelled" => run[j].cancelled
        /\ Send(j, Event(type, run[j].sequence + 1, 0))
  BY DEF TaskEnds
<1>3. /\ run[j] \in Runs /\ run[j].sequence \in Nat /\ lastSequence[j] \in Int
      /\ Fits(j, run[j], kept[j], toWorker[j], toClient[j])
  BY WorkerFacts, RunFields DEF IInv, TypeOK
<1>4. ~Asked(j) =>
        /\ lastSequence[j] <= run[j].sequence /\ ~run[j].cancelled
        /\ \A i \in 1..Len(toClient[j]) : toClient[j][i].sequence <= run[j].sequence
  BY <1>1, <1>3 DEF Fits, InOrder, NotCancelled
<1> DEFINE e == Event(type, run[j].sequence + 1, 0)
<1>5. e \in Events /\ e.type = type /\ e.sequence = run[j].sequence + 1
  BY <1>3, JobsAssumption DEF Event, Events
<1>6. Over \in Runs /\ Over.phase = "over" /\ ~Over.cancelled
  BY NoRowType DEF Over, NoRun
<1>7. Send(j, e)
  BY <1>2
<1> HIDE DEF e
<1>8. ~Asked(j) => /\ e.sequence > lastSequence[j]
                   /\ \A i \in 1..Len(toClient[j]) : toClient[j][i].sequence < e.sequence
  <2>1. \A i \in 1..Len(toClient[j]) : toClient[j][i].sequence \in Nat
    BY EventFields DEF IInv
  <2> QED BY <1>3, <1>4, <1>5, <2>1
<1>9. PICK c \in Seq(Events) : /\ toClient' = [toClient EXCEPT ![j] = c]
                               /\ Fits(j, Over, kept[j], toWorker[j], c)
  BY <1>1, <1>2, <1>4, <1>5, <1>6, <1>7, <1>8, SendFits
<1> QED BY <1>1, <1>6, <1>9, RunStepInv
-----------------------------------------------------------------------------
(* The client receives an event. *)

\* Before the user asks, no event is out of sequence or a cancellation.
LEMMA HeadInSequence ==
  ASSUME IInv, NEW j \in Jobs, Listening(j), toClient[j] # <<>>, job[j].desired = "none"
  PROVE  InSequence(j, Head(toClient[j])) /\ Head(toClient[j]).type # "cancelled"
<1>1. ~Asked(j)
  BY DEF IInv, Wishes, Asked, Is
<1>2. /\ toClient[j] \in Seq(Events)
      /\ Fits(j, run[j], kept[j], toWorker[j], toClient[j])
  BY WorkerFacts
<1>3. Head(toClient[j]) = toClient[j][1] /\ 1 \in 1..Len(toClient[j])
  BY <1>2
<1> QED BY <1>1, <1>2, <1>3 DEF Fits, NotCancelled, InOrder, InSequence

\* An event that does not end the run is noted, and a checkpoint shown.
LEMMA NoteInv ==
  ASSUME IInv, NEW j \in Jobs, Listening(j), toClient[j] # <<>>,
         NEW e, e = Head(toClient[j]), InSequence(j, e),
         e.type \in {"accepted", "acknowledged", "checkpoint"},
         lastSequence' = [lastSequence EXCEPT ![j] = e.sequence],
         job' = IF e.type = "checkpoint" THEN [job EXCEPT ![j].checkpoint = e.commits] ELSE job,
         toClient' = [toClient EXCEPT ![j] = Tail(@)],
         UNCHANGED <<model, disposed, timers, asks, workerVars, toWorker>>
  PROVE  IInv'
<1> DEFINE q == toClient[j]
           c == Tail(q)
<1>1. /\ TypeOK /\ q \in Seq(Events) /\ run[j] \in Runs
      /\ Fits(j, run[j], kept[j], toWorker[j], q)
  BY WorkerFacts DEF IInv
<1>2. /\ e = q[1] /\ 1 \in 1..Len(q) /\ e \in Events
      /\ c \in Seq(Events) /\ Len(c) = Len(q) - 1
      /\ \A i \in 1..Len(c) : c[i] = q[i + 1] /\ i + 1 \in 1..Len(q)
  BY <1>1
<1>3. e.sequence \in Nat /\ e.commits \in 0..MaxCommits
  BY <1>2 DEF Events
<1>4. /\ toClient' = [toClient EXCEPT ![j] = c]
      /\ toClient'[j] = c /\ lastSequence'[j] = e.sequence
      /\ \A k \in Jobs : k # j => toClient'[k] = toClient[k] /\ lastSequence'[k] = lastSequence[k]
  BY <1>1 DEF TypeOK
<1> HIDE DEF c, q
<1>5. /\ job' \in [Jobs -> Rows]
      /\ \A k \in Jobs :
           /\ job'[k].status = job[k].status /\ job'[k].desired = job[k].desired
           /\ job'[k].mode = job[k].mode /\ job'[k].model = job[k].model
           /\ job'[k].restart = job[k].restart /\ job'[k].from = job[k].from
           /\ job'[k].result = job[k].result /\ job'[k].rejection = job[k].rejection
           /\ k # j => job'[k].checkpoint = job[k].checkpoint
      /\ job'[j].checkpoint = IF e.type = "checkpoint" THEN e.commits ELSE job[j].checkpoint
  <2>1. CASE e.type = "checkpoint"
    <3>1. job' = [job EXCEPT ![j] = [job[j] EXCEPT !.checkpoint = e.commits]]
      BY <1>1, <2>1 DEF TypeOK
    <3>2. /\ [job[j] EXCEPT !.checkpoint = e.commits] \in Rows
          /\ job[j] \in Rows
      BY <1>1, <1>3, RowFields DEF Rows
    <3> QED BY <1>1, <2>1, <3>1, <3>2 DEF TypeOK, Rows
  <2>2. CASE e.type # "checkpoint"
    BY <1>1, <2>2 DEF TypeOK
  <2> QED BY <2>1, <2>2
<1>6. TypeOK'
  <2>1. lastSequence' \in [Jobs -> Int]
    BY <1>1, <1>3 DEF TypeOK
  <2>2. toClient' \in [Jobs -> Seq(Events)]
    BY <1>1, <1>2, <1>4 DEF TypeOK
  <2> QED BY <1>1, <1>5, <2>1, <2>2 DEF TypeOK, workerVars
<1>7. WorkerOfJob'
  BY <1>5 DEF IInv, WorkerOfJob, Alive, Listening, Is, workerVars
<1>8. Quiet'
  BY <1>4, <1>5 DEF IInv, Quiet, Listening, Is, workerVars
<1>9. Wishes'
  BY <1>5 DEF IInv, Wishes, Is
<1>10. QueuesFit'
  <2>1. RunFirst(run[j], kept[j], toWorker[j])
    BY <1>1 DEF Fits
  <2>2. Onward(run[j], c, job'[j].checkpoint)
    <3>1. Onward(run[j], q, job[j].checkpoint)
      BY <1>1 DEF Fits
    <3>2. ASSUME NEW i \in 1..Len(c), NEW n \in 1..Len(c), i < n,
                 c[i].type = "checkpoint", c[n].type = "checkpoint"
          PROVE  c[i].commits < c[n].commits
      <4>1. i + 1 < n + 1 /\ i + 1 \in 1..Len(q) /\ n + 1 \in 1..Len(q)
        BY <1>2, <3>2
      <4> QED BY <1>2, <3>1, <3>2, <4>1 DEF Onward
    <3>3. ASSUME NEW i \in 1..Len(c), c[i].type = "checkpoint"
          PROVE  /\ c[i].commits > job'[j].checkpoint
                 /\ run[j].phase = "task" => c[i].commits <= run[j].commits
                 /\ run[j].phase \notin {"none", "preflight"}
      <4>1. i + 1 \in 1..Len(q) /\ c[i] = q[i + 1] /\ 1 < i + 1
        BY <1>2, <3>3
      <4>2. e.type = "checkpoint" => c[i].commits > e.commits
        BY <1>2, <3>1, <3>3, <4>1 DEF Onward
      <4> QED BY <1>5, <3>1, <3>3, <4>1, <4>2 DEF Onward
    <3>4. run[j].phase \in {"preflight", "task"} => run[j].commits >= job'[j].checkpoint
      <4>1. e.type = "checkpoint" =>
              /\ run[j].phase \notin {"none", "preflight"}
              /\ run[j].phase = "task" => e.commits <= run[j].commits
        BY <1>2, <3>1 DEF Onward
      <4>2. e.commits <= run[j].commits => run[j].commits >= e.commits
        BY <1>1, <1>3 DEF Runs
      <4> QED BY <1>5, <3>1, <4>1, <4>2 DEF Onward
    <3> QED BY <3>2, <3>3, <3>4 DEF Onward
  <2>3. ASSUME ~Asked(j) PROVE NotCancelled(run[j], kept[j], toWorker[j], c)
    BY <1>1, <1>2, <2>3 DEF Fits, NotCancelled
  <2>4. ASSUME ~Asked(j) PROVE InOrder(run[j], c, e.sequence)
    <3>1. InOrder(run[j], q, lastSequence[j])
      BY <1>1, <2>4 DEF Fits
    <3>2. q # <<>>
      BY DEF q
    <3> QED BY <1>2, <3>1, <3>2 DEF InOrder
  <2>5. Fits(j, run[j], kept[j], toWorker[j], toClient[j])'
    BY <1>4, <1>5, <2>1, <2>2, <2>3, <2>4 DEF Fits, Asked, Is, workerVars
  <2>6. ASSUME NEW k \in Jobs, k # j
        PROVE  Fits(k, run[k], kept[k], toWorker[k], toClient[k])'
    BY <1>4, <1>5, <2>6 DEF IInv, QueuesFit, Fits, Asked, Is, workerVars
  <2> QED BY <2>5, <2>6 DEF QueuesFit
<1>11. RestartsNamed'
  BY <1>5 DEF IInv, RestartsNamed
<1>12. EndsAsAsked'
  BY <1>5 DEF IInv, EndsAsAsked, Is
<1>13. ShownFromRestart'
  <2>1. Is(j, Active) /\ job[j].checkpoint \in Nat /\ job[j].restart \in Nat
    BY RowFields DEF IInv, Listening, Is, Active, Executing
  <2>2. e.type = "checkpoint" => e.commits > job[j].checkpoint /\ run[j].phase # "none"
    BY <1>1, <1>2 DEF Fits, Onward
  <2>3. job[j].checkpoint >= job[j].restart
    BY <2>1 DEF IInv, ShownFromRestart
  <2> QED BY <1>3, <1>5, <2>1, <2>2, <2>3 DEF IInv, ShownFromRestart, Is, workerVars
<1>14. RestartsContinue'
  <2>1. ~Is(j, {"paused"})
    BY DEF Listening, Is, Executing
  <2>2. job'[j].checkpoint >= job'[j].restart
    BY <1>5, <1>13 DEF ShownFromRestart, Is, Listening, Active, Executing
  <2> QED BY <1>5, <2>1, <2>2 DEF IInv, RestartsNamed, RestartsContinue, Is
<1> QED BY <1>6, <1>7, <1>8, <1>9, <1>10, <1>11, <1>12, <1>13, <1>14 DEF IInv

LEMMA HandleEventInv == ASSUME IInv, NEW j \in Jobs, HandleEvent(j) PROVE IInv'
<1>1. Listening(j) /\ toClient[j] # <<>>
  BY DEF HandleEvent
<1> DEFINE e == Head(toClient[j])
<1>2. job[j].desired = "none" => InSequence(j, e) /\ e.type # "cancelled"
  BY <1>1, HeadInSequence
<1>3. CASE /\ InSequence(j, e)
           /\ e.type \in {"accepted", "acknowledged", "checkpoint"}
           /\ lastSequence' = [lastSequence EXCEPT ![j] = e.sequence]
           /\ job' = IF e.type = "checkpoint" THEN [job EXCEPT ![j].checkpoint = e.commits] ELSE job
           /\ toClient' = [toClient EXCEPT ![j] = Tail(@)]
           /\ UNCHANGED <<model, disposed, timers, asks, workerVars, toWorker>>
  BY <1>1, <1>3, NoteInv
<1>4. CASE ~InSequence(j, e) /\ FinishWithError(j, "EVENT_SEQUENCE_INVALID", "failed")
  BY <1>1, <1>2, <1>4, FinishWithErrorInv
<1>5. CASE e.type \in {"completed", "failed", "blocked"} /\ FinishWithResult(j, e.type)
  BY <1>1, <1>5, FinishWithResultInv
<1>6. CASE e.type = "cancelled" /\ FinishWithError(j, "CANCELLED", "cancelled")
  BY <1>1, <1>2, <1>6, FinishWithErrorInv
<1>7. CASE FinishWithError(j, "WORKER", "failed")
  BY <1>1, <1>7, FinishWithErrorInv
<1> QED BY <1>3, <1>4, <1>5, <1>6, <1>7 DEF HandleEvent
-----------------------------------------------------------------------------
LEMMA InitInv == Init => IInv
<1> SUFFICES ASSUME Init PROVE IInv
  OBVIOUS
<1>1. \A j \in Jobs : /\ job[j] = NoJob /\ timers[j] = {} /\ asks[j] = 0 /\ lastSequence[j] = -1
                      /\ worker[j] = "none" /\ kept[j] = <<>> /\ run[j] = NoRun
                      /\ toWorker[j] = <<>> /\ toClient[j] = <<>>
  BY DEF Init
<1>2. NoJob.status = "none" /\ NoJob.desired = "none" /\ NoJob.restart = NoCheckpoint
  BY DEF NoJob
<1>3. TypeOK
  <2>1. model \in Models
    BY JobsAssumption DEF Init
  <2>2. job \in [Jobs -> Rows] /\ run \in [Jobs -> Runs]
    BY NoRowType DEF Init
  <2>3. /\ asks \in [Jobs -> 0..MaxAsks] /\ lastSequence \in [Jobs -> Int]
        /\ timers \in [Jobs -> SUBSET {"run", "cancel"}]
    BY JobsAssumption DEF Init
  <2>4. /\ kept \in [Jobs -> Seq({"run", "cancel"})]
        /\ toWorker \in [Jobs -> Seq({"run", "cancel"})]
        /\ toClient \in [Jobs -> Seq(Events)]
    BY DEF Init
  <2>5. /\ disposed \in BOOLEAN
        /\ worker \in [Jobs -> {"none", "loading", "replaying", "ready", "terminated"}]
    BY DEF Init
  <2> QED BY <2>1, <2>2, <2>3, <2>4, <2>5 DEF TypeOK
<1>4. WorkerOfJob /\ Quiet /\ Wishes
  BY <1>1, <1>2 DEF WorkerOfJob, Quiet, Wishes, Alive, Listening, Is, Active, Executing
<1>5. QueuesFit
  BY <1>1 DEF QueuesFit, Fits, RunFirst, NotCancelled, InOrder, Onward, NoRun
<1>6. RestartsNamed /\ ShownFromRestart /\ EndsAsAsked /\ RestartsContinue
  BY <1>1, <1>2 DEF RestartsNamed, ShownFromRestart, EndsAsAsked, RestartsContinue, Is, Active, Final
<1> QED BY <1>3, <1>4, <1>5, <1>6 DEF IInv

\* A timer is armed, or a worker reports, only while the job executes.
LEMMA AbortInv ==
  ASSUME IInv, NEW j \in Jobs, RunTimer(j) \/ CancelTimer(j) \/ WorkerFails(j)
  PROVE  IInv'
<1>1. Listening(j)
  BY DEF RunTimer, CancelTimer, WorkerFails, IInv, WorkerOfJob
<1> QED BY <1>1, FinishWithErrorInv DEF RunTimer, CancelTimer, WorkerFails

\* The user edits the model: no row changes.
LEMMA EditInv == ASSUME IInv, model' \in Models, UNCHANGED <<disposed, job, timers, asks,
                        lastSequence, workerVars, toWorker, toClient>>
                 PROVE IInv'
<1>1. TypeOK'
  BY DEF IInv, TypeOK, workerVars
<1>2. WorkerOfJob' /\ Quiet' /\ Wishes'
  BY DEF IInv, WorkerOfJob, Quiet, Wishes, Alive, Listening, Is, workerVars
<1>3. QueuesFit'
  BY DEF IInv, QueuesFit, Fits, Asked, Is, workerVars
<1>4. RestartsNamed' /\ ShownFromRestart' /\ EndsAsAsked' /\ RestartsContinue'
  BY DEF IInv, RestartsNamed, ShownFromRestart, EndsAsAsked, RestartsContinue, Is, workerVars
<1> QED BY <1>1, <1>2, <1>3, <1>4 DEF IInv

LEMMA StepInv == IInv /\ [Next]_vars => IInv'
<1> SUFFICES ASSUME IInv, [Next]_vars PROVE IInv'
  OBVIOUS
<1>1. CASE UNCHANGED vars
  <2>1. model' \in Models
    BY <1>1 DEF vars, serviceVars, IInv, TypeOK
  <2> QED BY <1>1, <2>1, EditInv DEF vars, serviceVars
<1>2. CASE Edit
  BY <1>2, EditInv DEF Edit
<1>3. CASE Dispose
  BY <1>3, DisposeInv
<1>4. ASSUME NEW j \in Jobs, Page(j) PROVE IInv'
  BY <1>4, StartInv, UserAsksInv DEF Page
<1>5. ASSUME NEW j \in Jobs, Turn(j) PROVE IInv'
  BY <1>5, ExecuteInv, HandleEventInv, AbortInv, LoadInv, HandleKeptInv, HandleMessageInv,
     PreflightInv, CommitInv, TaskEndsInv DEF Turn
<1> QED BY <1>1, <1>2, <1>3, <1>4, <1>5 DEF Next

LEMMA Invariance == Spec => []IInv
<1> QED BY InitInv, StepInv, PTL DEF Spec

\* The rows of the service, the queues and the worker's run keep their shape: the
\* checkpoint of a row, like a commit of a run, never passes the last commit.
THEOREM TypeCorrect == Spec => []TypeOK
<1>1. IInv => TypeOK
  BY DEF IInv
<1> QED BY <1>1, Invariance, PTL

\* For any number of jobs, at most one worker is alive, that of the job that
\* executes: every way a job may end terminates its worker.
THEOREM WorkersAlone == Spec => []OneWorker
<1>1. IInv => OneWorker
  BY DEF IInv, WorkerOfJob, OneWorker, Listening, Is, Active, Executing
<1> QED BY <1>1, Invariance, PTL

\* However answers and requests cross each other, a job ends as the user last
\* asked, and only then as paused or cancelled; an answer out of sequence is never
\* the reason that is shown unless the user asked.
THEOREM EndsFollowWishes == Spec => []EndsAsAsked
<1>1. IInv => EndsAsAsked
  BY DEF IInv
<1> QED BY <1>1, Invariance, PTL

\* A job that restarts continues a paused time history of the same model from the
\* checkpoint that job still shows, and never falls behind it.
THEOREM RestartsGoOn == Spec => []RestartsContinue
<1>1. IInv => RestartsContinue
  BY DEF IInv
<1> QED BY <1>1, Invariance, PTL
-----------------------------------------------------------------------------
(* The rows are those of the plain service of JobService. *)

\* A function that differs from another in one place.
LEMMA ExceptMaps ==
  ASSUME NEW S, NEW f, NEW g, f = [k \in S |-> f[k]], g = [k \in S |-> g[k]],
         NEW j \in S, NEW v, g[j] = v, \A k \in S : k # j => g[k] = f[k]
  PROVE  g = [f EXCEPT ![j] = v]
OBVIOUS

\* What a changed row changes for it.
LEMMA RowsMap ==
  ASSUME TypeOK, NEW j \in Jobs, NEW row, job' = [job EXCEPT ![j] = row]
  PROVE  /\ [k \in Jobs |-> job'[k].status] = [[k \in Jobs |-> job[k].status] EXCEPT ![j] = row.status]
         /\ [k \in Jobs |-> job'[k].desired] = [[k \in Jobs |-> job[k].desired] EXCEPT ![j] = row.desired]
         /\ [k \in Jobs |-> job'[k].checkpoint] =
              [[k \in Jobs |-> job[k].checkpoint] EXCEPT ![j] = row.checkpoint]
<1>1. job'[j] = row /\ \A k \in Jobs : k # j => job'[k] = job[k]
  BY DEF TypeOK
<1>2. [k \in Jobs |-> job'[k].status] = [[k \in Jobs |-> job[k].status] EXCEPT ![j] = row.status]
  <2> DEFINE f == [k \in Jobs |-> job[k].status]
             g == [k \in Jobs |-> job'[k].status]
  <2>1. /\ f = [k \in Jobs |-> f[k]] /\ g = [k \in Jobs |-> g[k]]
        /\ g[j] = row.status /\ \A k \in Jobs : k # j => g[k] = f[k]
    BY <1>1
  <2> HIDE DEF f, g
  <2>2. g = [f EXCEPT ![j] = row.status]
    BY <2>1, ExceptMaps
  <2> QED BY <2>2 DEF f, g
<1>3. [k \in Jobs |-> job'[k].desired] = [[k \in Jobs |-> job[k].desired] EXCEPT ![j] = row.desired]
  <2> DEFINE f == [k \in Jobs |-> job[k].desired]
             g == [k \in Jobs |-> job'[k].desired]
  <2>1. /\ f = [k \in Jobs |-> f[k]] /\ g = [k \in Jobs |-> g[k]]
        /\ g[j] = row.desired /\ \A k \in Jobs : k # j => g[k] = f[k]
    BY <1>1
  <2> HIDE DEF f, g
  <2>2. g = [f EXCEPT ![j] = row.desired]
    BY <2>1, ExceptMaps
  <2> QED BY <2>2 DEF f, g
<1>4. [k \in Jobs |-> job'[k].checkpoint] = [[k \in Jobs |-> job[k].checkpoint] EXCEPT ![j] = row.checkpoint]
  <2> DEFINE f == [k \in Jobs |-> job[k].checkpoint]
             g == [k \in Jobs |-> job'[k].checkpoint]
  <2>1. /\ f = [k \in Jobs |-> f[k]] /\ g = [k \in Jobs |-> g[k]]
        /\ g[j] = row.checkpoint /\ \A k \in Jobs : k # j => g[k] = f[k]
    BY <1>1
  <2> HIDE DEF f, g
  <2>2. g = [f EXCEPT ![j] = row.checkpoint]
    BY <2>1, ExceptMaps
  <2> QED BY <2>2 DEF f, g
<1> QED BY <1>2, <1>3, <1>4

\* What leaves the rows alone is nothing to it.
LEMMA RowsSame ==
  ASSUME UNCHANGED disposed,
         \A k \in Jobs : /\ job'[k].status = job[k].status
                         /\ job'[k].desired = job[k].desired
                         /\ job'[k].checkpoint = job[k].checkpoint
  PROVE  UNCHANGED Service!jobVars
BY DEF Service!jobVars

LEMMA CreateAdmits ==
  ASSUME IInv, NEW j \in Jobs, NEW row, row \in Rows, Create(j, row), row.desired = "none",
         row.checkpoint \in {0} \cup {job[k].checkpoint : k \in {i \in Jobs : Is(i, {"paused"})}}
  PROVE  Service!Admit(j)
<1>1. PICK ok \in BOOLEAN :
        job' = [job EXCEPT ![j] = [row EXCEPT !.model = model, !.scheduled = ok,
                                              !.status = IF ok THEN "queued" ELSE "blocked"]]
  BY DEF Create
<1> DEFINE new == [row EXCEPT !.model = model, !.scheduled = ok,
                              !.status = IF ok THEN "queued" ELSE "blocked"]
<1>2. /\ new.status \in {"queued", "blocked"} /\ new.desired = "none"
      /\ new.checkpoint = row.checkpoint
  BY DEF Rows
<1>3. job' = [job EXCEPT ![j] = new]
  BY <1>1
<1> HIDE DEF new
<1>4. /\ ~disposed /\ UNCHANGED disposed
      /\ job[j].status = "none" /\ \A k \in Jobs : job[k].status \notin Active
  BY DEF Create, Admissible, Known, Is
<1>5. job[j].desired = "none"
  BY <1>4 DEF IInv, Wishes, Is
<1>6. TypeOK
  BY DEF IInv
<1>7. [k \in Jobs |-> job'[k].desired] = [k \in Jobs |-> job[k].desired]
  BY <1>2, <1>3, <1>5, <1>6 DEF TypeOK
<1>8. /\ [k \in Jobs |-> job'[k].status] = [[k \in Jobs |-> job[k].status] EXCEPT ![j] = new.status]
      /\ [k \in Jobs |-> job'[k].checkpoint] =
           [[k \in Jobs |-> job[k].checkpoint] EXCEPT ![j] = row.checkpoint]
  <2>1. [k \in Jobs |-> job'[k].checkpoint] =
          [[k \in Jobs |-> job[k].checkpoint] EXCEPT ![j] = new.checkpoint]
    BY <1>3, <1>6, RowsMap
  <2> QED BY <1>2, <1>3, <1>6, <2>1, RowsMap
<1>9. row.checkpoint \in {0} \cup {[n \in Jobs |-> job[n].checkpoint][k] :
                                      k \in {i \in Jobs : [n \in Jobs |-> job[n].status][i] = "paused"}}
  BY DEF Is
<1> QED BY <1>2, <1>4, <1>7, <1>8, <1>9 DEF Service!Admit, Service!Active, Service!Executing, Active, Is

LEMMA StartAdmits ==
  ASSUME IInv, NEW j \in Jobs, Start(j) \/ \E k \in Jobs : Retry(k, j) \/ Resume(k, j)
  PROVE  Service!Admit(j)
<1>1. NoJob \in Rows /\ NoJob.desired = "none" /\ NoJob.checkpoint = 0
  BY NoRowType DEF NoJob, NoCheckpoint
<1>2. CASE Start(j)
  <2>1. PICK mode \in Modes : Create(j, [NoJob EXCEPT !.mode = mode])
    BY <1>2 DEF Start
  <2> QED BY <1>1, <2>1, CreateAdmits DEF Rows
<1>3. ASSUME NEW k \in Jobs, Retry(k, j) PROVE Service!Admit(j)
  <2>1. job[k].mode \in Modes
    BY RowFields DEF IInv
  <2>2. Create(j, [NoJob EXCEPT !.mode = job[k].mode, !.from = k])
    BY <1>3 DEF Retry
  <2> QED BY <1>1, <2>1, <2>2, CreateAdmits DEF Rows
<1>4. ASSUME NEW k \in Jobs, Resume(k, j) PROVE Service!Admit(j)
  <2> DEFINE restart == IF job[k].mode = "nlth" THEN job[k].checkpoint ELSE NoCheckpoint
             row == [NoJob EXCEPT !.mode = job[k].mode, !.from = k,
                                  !.restart = restart, !.checkpoint = restart]
  <2>1. /\ job[k].mode \in Modes /\ restart \in 0..MaxCommits
        /\ restart \in {0, job[k].checkpoint}
    BY RowFields, JobsAssumption DEF IInv, NoCheckpoint
  <2>2. Create(j, row) /\ Is(k, {"paused"})
    BY <1>4 DEF Resume
  <2> HIDE DEF restart
  <2>3. row \in Rows /\ row.desired = "none" /\ row.checkpoint = restart
    BY <1>1, <2>1 DEF Rows
  <2> HIDE DEF row
  <2> QED BY <2>1, <2>2, <2>3, CreateAdmits
<1> QED BY <1>2, <1>3, <1>4

LEMMA ExecuteBegins ==
  ASSUME IInv, NEW j \in Jobs, Execute(j)
  PROVE  Service!Begin(j) \/ UNCHANGED Service!jobVars
<1>1. TypeOK /\ job[j] \in Rows /\ UNCHANGED disposed
  BY RowFields DEF IInv, Execute
<1>2. CASE job' = [job EXCEPT ![j].scheduled = FALSE]
  <2>1. job'[j] = [job[j] EXCEPT !.scheduled = FALSE] /\ \A k \in Jobs : k # j => job'[k] = job[k]
    BY <1>1, <1>2 DEF TypeOK
  <2>2. /\ job'[j].status = job[j].status /\ job'[j].desired = job[j].desired
        /\ job'[j].checkpoint = job[j].checkpoint
    BY <1>1, <2>1 DEF Rows
  <2> QED BY <1>1, <2>1, <2>2, RowsSame
<1>3. ASSUME Is(j, {"queued"}), NEW row, job' = [job EXCEPT ![j] = row],
             row.status \in {"running", "failed"},
             row.desired = job[j].desired, row.checkpoint = job[j].checkpoint
      PROVE  Service!Begin(j)
  <2>1. [k \in Jobs |-> job'[k].status] = [[k \in Jobs |-> job[k].status] EXCEPT ![j] = row.status]
    BY <1>1, <1>3, RowsMap
  <2>2. /\ [k \in Jobs |-> job'[k].desired] = [k \in Jobs |-> job[k].desired]
        /\ [k \in Jobs |-> job'[k].checkpoint] = [k \in Jobs |-> job[k].checkpoint]
    BY <1>1, <1>3 DEF TypeOK
  <2> QED BY <1>1, <1>3, <2>1, <2>2 DEF Service!Begin, Is
<1>4. CASE /\ Is(j, {"queued"})
           /\ job' = [job EXCEPT ![j].scheduled = FALSE, ![j].status = "failed",
                                 ![j].rejection = "WORKER"]
  <2> DEFINE row == [job[j] EXCEPT !.scheduled = FALSE, !.status = "failed", !.rejection = "WORKER"]
  <2>1. row.status = "failed" /\ row.desired = job[j].desired /\ row.checkpoint = job[j].checkpoint
    BY <1>1 DEF Rows
  <2>2. job' = [job EXCEPT ![j] = row]
    BY <1>1, <1>4 DEF TypeOK
  <2> HIDE DEF row
  <2> QED BY <1>3, <1>4, <2>1, <2>2
<1>5. CASE Is(j, {"queued"}) /\ job' = [job EXCEPT ![j].scheduled = FALSE, ![j].status = "running"]
  <2> DEFINE row == [job[j] EXCEPT !.scheduled = FALSE, !.status = "running"]
  <2>1. row.status = "running" /\ row.desired = job[j].desired /\ row.checkpoint = job[j].checkpoint
    BY <1>1 DEF Rows
  <2>2. job' = [job EXCEPT ![j] = row]
    BY <1>1, <1>5 DEF TypeOK
  <2> HIDE DEF row
  <2> QED BY <1>3, <1>5, <2>1, <2>2
<1> QED BY <1>2, <1>4, <1>5 DEF Execute

LEMMA UserAsks ==
  ASSUME IInv, NEW j \in Jobs, Pause(j) \/ Cancel(j)
  PROVE  Service!AskPause(j) \/ Service!AskCancel(j)
<1>1. /\ TypeOK /\ job[j] \in Rows /\ UNCHANGED disposed /\ ~disposed
  BY RowFields DEF IInv, Pause, Cancel
<1>2. ASSUME NEW status, NEW desired,
             job' = [job EXCEPT ![j].status = status, ![j].desired = desired]
      PROVE  /\ [k \in Jobs |-> job'[k].status] = [[k \in Jobs |-> job[k].status] EXCEPT ![j] = status]
             /\ [k \in Jobs |-> job'[k].desired] = [[k \in Jobs |-> job[k].desired] EXCEPT ![j] = desired]
             /\ [k \in Jobs |-> job'[k].checkpoint] = [k \in Jobs |-> job[k].checkpoint]
  <2> DEFINE row == [job[j] EXCEPT !.status = status, !.desired = desired]
  <2>1. row.status = status /\ row.desired = desired /\ row.checkpoint = job[j].checkpoint
    BY <1>1 DEF Rows
  <2>2. job' = [job EXCEPT ![j] = row]
    BY <1>1, <1>2 DEF TypeOK
  <2> HIDE DEF row
  <2>3. [k \in Jobs |-> job'[k].checkpoint] = [k \in Jobs |-> job[k].checkpoint]
    BY <1>1, <2>1, <2>2 DEF TypeOK
  <2> QED BY <1>1, <2>1, <2>2, <2>3, RowsMap
<1>3. CASE Pause(j)
  <2>1. \/ /\ job[j].status = "queued"
           /\ job' = [job EXCEPT ![j].status = "paused", ![j].desired = "pause"]
        \/ /\ job[j].status = "running"
           /\ job' = [job EXCEPT ![j].status = "pausing", ![j].desired = "pause"]
    BY <1>3 DEF Pause, Is
  <2> QED BY <1>1, <1>2, <2>1 DEF Service!AskPause
<1>4. CASE Cancel(j)
  <2>1. \/ /\ job[j].status = "queued"
           /\ job' = [job EXCEPT ![j].status = "cancelled", ![j].desired = "cancel"]
        \/ /\ job[j].status \in Executing
           /\ job' = [job EXCEPT ![j].status = "cancelling", ![j].desired = "cancel"]
    BY <1>4 DEF Cancel, Is
  <2> QED BY <1>1, <1>2, <2>1 DEF Service!AskCancel, Service!Executing, Executing
<1> QED BY <1>3, <1>4

\* Whatever ends a job, it ends as the wish leaves it.
LEMMA EndMaps ==
  ASSUME IInv, NEW j \in Jobs, Listening(j), UNCHANGED disposed,
         NEW row, job' = [job EXCEPT ![j] = row],
         row.status \in Service!Ends(job[j].desired), row.desired = job[j].desired,
         \/ row.checkpoint = job[j].checkpoint
         \/ row.checkpoint = 0 /\ row.status # "completed"
  PROVE  Service!End(j)
<1>1. TypeOK /\ job[j].status \in Executing
  BY DEF IInv, Listening, Is
<1>2. /\ [k \in Jobs |-> job'[k].status] = [[k \in Jobs |-> job[k].status] EXCEPT ![j] = row.status]
      /\ [k \in Jobs |-> job'[k].checkpoint] =
           [[k \in Jobs |-> job[k].checkpoint] EXCEPT ![j] = row.checkpoint]
  BY <1>1, RowsMap
<1>3. [k \in Jobs |-> job'[k].desired] = [k \in Jobs |-> job[k].desired]
  BY <1>1 DEF TypeOK
<1>4. row.checkpoint = job[j].checkpoint =>
        [k \in Jobs |-> job'[k].checkpoint] = [k \in Jobs |-> job[k].checkpoint]
  BY <1>2
<1>5. Service!Ends([k \in Jobs |-> job[k].desired][j]) = Service!Ends(job[j].desired)
  OBVIOUS
<1> QED BY <1>1, <1>2, <1>3, <1>4, <1>5 DEF Service!End, Service!Executing, Executing

LEMMA EndStatusAllowed ==
  ASSUME TypeOK, NEW j \in Jobs, NEW otherwise \in {"completed", "failed", "blocked", "cancelled"},
         otherwise = "cancelled" => job[j].desired # "none"
  PROVE  /\ EndStatus(j, otherwise) \in Service!Ends(job[j].desired)
         /\ EndStatus(j, otherwise) = "completed" => otherwise = "completed"
  BY RowFields DEF EndStatus, Service!Ends

LEMMA ErrorEnds ==
  ASSUME IInv, NEW j \in Jobs, Listening(j), NEW code, NEW status \in {"failed", "cancelled"},
         status = "cancelled" => job[j].desired # "none",
         FinishWithError(j, code, status)
  PROVE  Service!End(j)
<1> DEFINE row == [job[j] EXCEPT !.status = EndStatus(j, status), !.rejection = code]
<1>1. TypeOK /\ job[j] \in Rows
  BY RowFields DEF IInv
<1>2. /\ row.status = EndStatus(j, status)
      /\ row.desired = job[j].desired /\ row.checkpoint = job[j].checkpoint
  BY <1>1 DEF Rows
<1>3. job' = [job EXCEPT ![j] = row] /\ UNCHANGED disposed
  BY <1>1 DEF FinishWithError, Close, TypeOK
<1>4. EndStatus(j, status) \in Service!Ends(job[j].desired)
  BY <1>1, EndStatusAllowed
<1> HIDE DEF row
<1> QED BY <1>2, <1>3, <1>4, EndMaps

LEMMA ResultEnds ==
  ASSUME IInv, NEW j \in Jobs, Listening(j), NEW kind \in {"completed", "failed", "blocked"},
         FinishWithResult(j, kind)
  PROVE  Service!End(j)
<1>1. TypeOK /\ job[j] \in Rows /\ UNCHANGED disposed
  BY RowFields DEF IInv, FinishWithResult, Close
<1>2. CASE job' = [job EXCEPT ![j].status = EndStatus(j, kind), ![j].result = TRUE]
  <2> DEFINE row == [job[j] EXCEPT !.status = EndStatus(j, kind), !.result = TRUE]
  <2>1. /\ row.status = EndStatus(j, kind)
        /\ row.desired = job[j].desired /\ row.checkpoint = job[j].checkpoint
    BY <1>1 DEF Rows
  <2>2. job' = [job EXCEPT ![j] = row]
    BY <1>1, <1>2 DEF TypeOK
  <2>3. EndStatus(j, kind) \in Service!Ends(job[j].desired)
    BY <1>1, EndStatusAllowed
  <2> HIDE DEF row
  <2> QED BY <1>1, <2>1, <2>2, <2>3, EndMaps
<1>3. CASE job' = [job EXCEPT ![j].status = EndStatus(j, "failed"), ![j].checkpoint = NoCheckpoint]
  <2> DEFINE row == [job[j] EXCEPT !.status = EndStatus(j, "failed"), !.checkpoint = NoCheckpoint]
  <2>1. row.status = EndStatus(j, "failed") /\ row.desired = job[j].desired /\ row.checkpoint = 0
    BY <1>1 DEF Rows, NoCheckpoint
  <2>2. job' = [job EXCEPT ![j] = row]
    BY <1>1, <1>3 DEF TypeOK
  <2>3. /\ EndStatus(j, "failed") \in Service!Ends(job[j].desired)
        /\ EndStatus(j, "failed") # "completed"
    BY <1>1, EndStatusAllowed
  <2> HIDE DEF row
  <2> QED BY <1>1, <2>1, <2>2, <2>3, EndMaps
<1> QED BY <1>2, <1>3 DEF FinishWithResult

\* An event is a report, an end, or nothing to the service's promises.
LEMMA EventMaps ==
  ASSUME IInv, NEW j \in Jobs, HandleEvent(j)
  PROVE  Service!Report(j) \/ Service!End(j) \/ UNCHANGED Service!jobVars
<1> DEFINE e == Head(toClient[j])
<1>1. Listening(j) /\ toClient[j] # <<>> /\ TypeOK
  BY DEF HandleEvent, IInv
<1>2. job[j].desired = "none" => e.type # "cancelled"
  BY <1>1, HeadInSequence
<1>3. CASE e.type # "checkpoint" /\ job' = job /\ UNCHANGED disposed
  BY <1>3, RowsSame
<1>4. CASE e.type = "checkpoint" /\ job' = [job EXCEPT ![j].checkpoint = e.commits] /\ UNCHANGED disposed
  <2>1. e = toClient[j][1] /\ 1 \in 1..Len(toClient[j])
    BY <1>1 DEF TypeOK
  <2>2. e.commits \in 0..MaxCommits
    BY <1>1, <2>1, EventFields
  <2>3. e.commits > job[j].checkpoint
    BY <1>4, <2>1, WorkerFacts DEF Fits, Onward
  <2> HIDE DEF e
  <2> DEFINE row == [job[j] EXCEPT !.checkpoint = e.commits]
  <2>4. /\ row.status = job[j].status /\ row.desired = job[j].desired
        /\ row.checkpoint = e.commits
    BY <1>1, RowFields DEF Rows
  <2>5. job' = [job EXCEPT ![j] = row]
    BY <1>1, <1>4 DEF TypeOK
  <2> HIDE DEF row
  <2>6. /\ [k \in Jobs |-> job'[k].status] = [k \in Jobs |-> job[k].status]
        /\ [k \in Jobs |-> job'[k].desired] = [k \in Jobs |-> job[k].desired]
    BY <1>1, <2>4, <2>5 DEF TypeOK
  <2>7. [k \in Jobs |-> job'[k].checkpoint] =
          [[k \in Jobs |-> job[k].checkpoint] EXCEPT ![j] = e.commits]
    <3>1. [k \in Jobs |-> job'[k].checkpoint] =
            [[k \in Jobs |-> job[k].checkpoint] EXCEPT ![j] = row.checkpoint]
      BY <1>1, <2>5, RowsMap
    <3> QED BY <2>4, <3>1
  <2>8. job[j].status \in Executing
    BY <1>1 DEF Listening, Is
  <2> QED BY <1>4, <2>2, <2>3, <2>6, <2>7, <2>8 DEF Service!Report, Service!Executing, Executing
<1>5. CASE \E code : FinishWithError(j, code, "failed")
  BY <1>1, <1>5, ErrorEnds
<1>6. CASE e.type \in {"completed", "failed", "blocked"} /\ FinishWithResult(j, e.type)
  BY <1>1, <1>6, ResultEnds
<1>7. CASE e.type = "cancelled" /\ FinishWithError(j, "CANCELLED", "cancelled")
  BY <1>1, <1>2, <1>7, ErrorEnds
<1> QED BY <1>3, <1>4, <1>5, <1>6, <1>7 DEF HandleEvent

LEMMA DisposeCloses == ASSUME IInv, Dispose PROVE Service!Close
<1>1. ~disposed /\ disposed' = TRUE
  BY DEF Dispose
<1>2. \A k \in Jobs :
        job'[k] = IF Is(k, Active) THEN [job[k] EXCEPT !.status = "cancelled"] ELSE job[k]
  BY DEF Dispose
<1>3. \A k \in Jobs :
        /\ job'[k].status = IF job[k].status \in Active THEN "cancelled" ELSE job[k].status
        /\ job'[k].desired = job[k].desired /\ job'[k].checkpoint = job[k].checkpoint
  BY <1>2, RowFields DEF IInv, Rows, Is
<1> QED BY <1>1, <1>3 DEF Service!Close, Service!Active, Service!Executing, Active

LEMMA ServiceStep ==
  ASSUME IInv, [Next]_vars
  PROVE  [Service!Next]_(Service!jobVars)
<1>1. ASSUME UNCHANGED <<disposed, job>> PROVE UNCHANGED Service!jobVars
  BY <1>1, RowsSame
<1>2. CASE UNCHANGED vars
  BY <1>1, <1>2 DEF vars, serviceVars
<1>3. CASE Edit
  BY <1>1, <1>3 DEF Edit
<1>4. CASE Dispose
  BY <1>4, DisposeCloses DEF Service!Next
<1>5. ASSUME NEW j \in Jobs, Page(j) PROVE Service!Next
  BY <1>5, StartAdmits, UserAsks DEF Page, Service!Next
<1>6. ASSUME NEW j \in Jobs, Turn(j) PROVE Service!Next \/ UNCHANGED Service!jobVars
  <2>1. CASE Execute(j)
    BY <2>1, ExecuteBegins DEF Service!Next
  <2>2. CASE HandleEvent(j)
    BY <2>2, EventMaps DEF Service!Next
  <2>3. CASE RunTimer(j) \/ CancelTimer(j) \/ WorkerFails(j)
    <3>1. Listening(j) /\ FinishWithError(j, "WORKER", "failed")
      BY <2>3 DEF RunTimer, CancelTimer, WorkerFails, IInv, WorkerOfJob
    <3> QED BY <3>1, ErrorEnds DEF Service!Next
  <2>4. CASE Load(j) \/ HandleKept(j) \/ HandleMessage(j) \/ Preflight(j) \/ Commit(j) \/ TaskEnds(j)
    <3>1. UNCHANGED <<disposed, job>>
      BY <2>4 DEF Load, HandleKept, HandleMessage, Preflight, Commit, TaskEnds, serviceVars
    <3> QED BY <1>1, <3>1
  <2> QED BY <1>6, <2>1, <2>2, <2>3, <2>4 DEF Turn
<1> QED BY <1>2, <1>3, <1>4, <1>5, <1>6 DEF Next

\* Whatever messages, timers and failures cross, and however many jobs there are:
\* the rows are those of a service that runs one job at a time, begins and ends each
\* once, as asked, and whose checkpoints only move on.
THEOREM ImplementsService == Spec => KeepsServicePromises
<1>1. Init => Service!Init
  BY DEF Init, Service!Init, NoJob, NoCheckpoint
<1> QED BY <1>1, ServiceStep, Invariance, PTL DEF Spec, Service!Spec, KeepsServicePromises
=============================================================================
