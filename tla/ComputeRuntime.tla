---------------------------- MODULE ComputeRuntime ----------------------------
(***************************************************************************)
(* The compute worker protocol: the client on the page                     *)
(* (src/compute/runtime/workerClient.js), the core in the worker           *)
(* (workerCore.js) and the two message queues between them, each in order  *)
(* and handled one message per turn of the receiver's event loop.  The     *)
(* executor of a run yields between its steps, so messages are handled     *)
(* while it runs.  What an executor hands over to be posted, progress, a   *)
(* result or an error, may turn out to be impossible to clone: then the    *)
(* post throws.  The other messages are plain data.                        *)
(*                                                                         *)
(* Request ids are fresh (the client counts them); run ids come from the   *)
(* plan and may be used again.  Bounds: the ids, MaxProgress, MaxBoundary, *)
(* MaxFailures.                                                            *)
(***************************************************************************)
EXTENDS Integers, Sequences

CONSTANTS Starts, Cancels,  \* request ids of start and of cancel
          Runs,             \* run ids
          None,
          MaxProgress,      \* progress reports of one run
          MaxBoundary,      \* committed boundaries of one run
          MaxFailures       \* error events the worker object raises while its worker lives on

ASSUME RuntimeAssumption ==
  /\ Starts \cap Cancels = {}
  /\ None \notin Starts \cup Cancels \cup Runs
  /\ MaxProgress \in Nat /\ MaxBoundary \in Nat /\ MaxFailures \in Nat

VARIABLES
  \* the client
  active,       \* request of _active, or None
  lastSequence, \* of _active
  progressSeen, \* progressSequence of _active
  outcome,      \* of the promises of start
  runOf,        \* run id given to start and to cancel, None while the id is unused
  cancels,      \* of the promises of cancel: _cancelRequests holds the pending ones
  ackOf, ackAt, \* runRequestId and committedBoundary told by the acknowledgement
  endAt,        \* committedBoundary told by ComputeJobCancelledError
  disposed,
  failures,
  \* the two queues
  toCore, toClient,
  \* the core
  busy,         \* request of the core's active run, or None
  cancelRequested, sequence, progressSequence, boundary,
  seenRunIds,
  coreDisposed,
  alive,        \* the worker has not been terminated
  verdict       \* the terminal event, or the refusal, of a request; "unsent" if its post threw

clientVars == <<active, lastSequence, progressSeen, outcome, runOf, cancels, ackOf, ackAt, endAt,
                disposed, failures>>
coreVars == <<busy, cancelRequested, sequence, progressSequence, boundary, seenRunIds,
              coreDisposed, alive, verdict>>
vars == <<clientVars, toCore, toClient, coreVars>>

NoSequence == -1   \* an ERROR that belongs to no run carries sequence null
Terminals == {"result", "cancelled", "failed"}

Init ==
  /\ active = None /\ lastSequence = -1 /\ progressSeen = 0
  /\ outcome = [q \in Starts |-> "unused"]
  /\ runOf = [q \in Starts \cup Cancels |-> None]
  /\ cancels = [c \in Cancels |-> "unused"]
  /\ ackOf = [c \in Cancels |-> None]
  /\ ackAt = [c \in Cancels |-> -1]
  /\ endAt = [q \in Starts |-> -1]
  /\ disposed = FALSE /\ failures = 0
  /\ toCore = <<>> /\ toClient = <<>>
  /\ busy = None
  /\ cancelRequested = FALSE /\ sequence = 0 /\ progressSequence = 0 /\ boundary = 0
  /\ seenRunIds = {}
  /\ coreDisposed = FALSE /\ alive = TRUE
  /\ verdict = [q \in Starts |-> "none"]

Request(type, id, run) == [type |-> type, id |-> id, run |-> run]

\* Events of the run the core executes, and answers that belong to no run.
Event(type, id) ==
  [type |-> type, id |-> id, call |-> busy, run |-> runOf[busy], sequence |-> sequence + 1,
   progress |-> progressSequence, boundary |-> boundary]

Answer(type, id, call, run, seq) ==
  [type |-> type, id |-> id, call |-> call, run |-> run, sequence |-> seq,
   progress |-> 0, boundary |-> 0]
-----------------------------------------------------------------------------
(* The client. *)

\* _nextId counts, so ids are taken in a fixed order.
NextStart == CHOOSE q \in Starts : outcome[q] = "unused"
NextCancel == CHOOSE c \in Cancels : cancels[c] = "unused"

\* start() of a disposed or busy client is rejected and changes nothing.
Start(q, r) ==
  /\ ~disposed /\ active = None
  /\ outcome[q] = "unused" /\ q = NextStart
  /\ active' = q /\ lastSequence' = -1 /\ progressSeen' = 0
  /\ outcome' = [outcome EXCEPT ![q] = "pending"]
  /\ runOf' = [runOf EXCEPT ![q] = r]
  /\ toCore' = Append(toCore, Request("START", q, r))
  /\ UNCHANGED <<cancels, ackOf, ackAt, endAt, disposed, failures, toClient, coreVars>>

\* postMessage throws, the payload cannot be cloned.
StartFails(q, r) ==
  /\ ~disposed /\ active = None
  /\ outcome[q] = "unused" /\ q = NextStart
  /\ outcome' = [outcome EXCEPT ![q] = "unposted"]
  /\ runOf' = [runOf EXCEPT ![q] = r]
  /\ UNCHANGED <<active, lastSequence, progressSeen, cancels, ackOf, ackAt, endAt, disposed, failures,
                 toCore, toClient, coreVars>>

\* Any run the page ever started can be cancelled, also through the cancel
\* method of its promise and also when the client is disposed.
Cancel(c, r) ==
  /\ cancels[c] = "unused" /\ c = NextCancel
  /\ \E q \in Starts : runOf[q] = r
  /\ cancels' = [cancels EXCEPT ![c] = "pending"]
  /\ runOf' = [runOf EXCEPT ![c] = r]
  /\ toCore' = Append(toCore, Request("CANCEL", c, r))
  /\ UNCHANGED <<active, lastSequence, progressSeen, outcome, ackOf, ackAt, endAt, disposed, failures,
                 toClient, coreVars>>

\* _finish: the run's promise settles and so does every pending cancel.
FinishRun(v) ==
  /\ outcome' = [outcome EXCEPT ![active] = v]
  /\ active' = None
  /\ cancels' = [c \in Cancels |-> IF cancels[c] = "pending" THEN "rejected" ELSE cancels[c]]

RejectAll(v) ==
  IF active # None
  THEN FinishRun(v)
  ELSE /\ cancels' = [c \in Cancels |-> IF cancels[c] = "pending" THEN "rejected" ELSE cancels[c]]
       /\ UNCHANGED <<outcome, active>>

Dispose ==
  /\ ~disposed
  /\ disposed' = TRUE
  /\ RejectAll("disposed")
  /\ toCore' = Append(toCore, Request("DISPOSE", None, IF active = None THEN None ELSE runOf[active]))
  /\ toClient' = <<>>  \* the listeners are detached
  /\ UNCHANGED <<lastSequence, progressSeen, runOf, ackOf, ackAt, endAt, failures, coreVars>>

\* _onFailure: an error or messageerror event of the worker object.
Failure ==
  /\ ~disposed /\ failures < MaxFailures
  /\ failures' = failures + 1
  /\ RejectAll("broken")
  /\ UNCHANGED <<lastSequence, progressSeen, runOf, ackOf, ackAt, endAt, disposed, toCore, toClient, coreVars>>

Fresh(m) == m.sequence > lastSequence

\* CANCEL_ACKNOWLEDGED: the sequence check uses whatever run is active.
OnAcknowledged(m) ==
  IF active # None /\ ~Fresh(m)
  THEN FinishRun("failed") /\ UNCHANGED <<lastSequence, progressSeen, ackOf, ackAt, endAt>>
  ELSE /\ lastSequence' = IF active = None THEN lastSequence ELSE m.sequence
       /\ IF cancels[m.id] = "pending"
          THEN /\ cancels' = [cancels EXCEPT ![m.id] = "acked"]
               /\ ackOf' = [ackOf EXCEPT ![m.id] = m.call]
               /\ ackAt' = [ackAt EXCEPT ![m.id] = m.boundary]
          ELSE UNCHANGED <<cancels, ackOf, ackAt>>
       /\ UNCHANGED <<active, outcome, progressSeen, endAt>>

\* Events of the active run.
OnRunEvent(m) ==
  \/ /\ m.sequence = NoSequence \/ ~Fresh(m)
     /\ FinishRun("failed")
     /\ UNCHANGED <<lastSequence, progressSeen, ackOf, ackAt, endAt>>
  \/ /\ Fresh(m) /\ m.type = "progress" /\ m.progress <= progressSeen
     /\ FinishRun("failed")
     /\ lastSequence' = m.sequence
     /\ UNCHANGED <<progressSeen, ackOf, ackAt, endAt>>
  \/ /\ Fresh(m)
     /\ m.type = "accepted" \/ (m.type = "progress" /\ m.progress > progressSeen)
     /\ lastSequence' = m.sequence
     /\ progressSeen' = IF m.type = "progress" THEN m.progress ELSE progressSeen
     /\ UNCHANGED <<active, outcome, cancels, ackOf, ackAt, endAt>>
  \/ /\ Fresh(m) /\ m.type \in Terminals
     /\ FinishRun(m.type)
     /\ lastSequence' = m.sequence
     /\ endAt' = [endAt EXCEPT ![active] = IF m.type = "cancelled" THEN m.boundary ELSE -1]
     /\ UNCHANGED <<progressSeen, ackOf, ackAt>>

Concerns_RunOnly(m) == active # None /\ m.run = runOf[active] \* mutant: requestId is not compared

Concerns(m) == active # None /\ m.run = runOf[active] /\ m.id = active

\* _onMessage: an event of another run or request is ignored, also the
\* worker's answer that a cancel came too late.
Receive ==
  /\ ~disposed /\ toClient # <<>>
  /\ LET m == Head(toClient) IN
       IF m.type = "acknowledged" THEN OnAcknowledged(m)
       ELSE IF Concerns(m) THEN OnRunEvent(m)
       ELSE UNCHANGED <<active, lastSequence, progressSeen, outcome, cancels, ackOf, ackAt, endAt>>
  /\ toClient' = Tail(toClient)
  /\ UNCHANGED <<runOf, disposed, failures, toCore, coreVars>>
-----------------------------------------------------------------------------
(* The core. *)

\* Once the client has detached its listeners nothing posted arrives.
Post(m) == toClient' = IF disposed THEN <<>> ELSE Append(toClient, m)

Take(type) == alive /\ toCore # <<>> /\ Head(toCore).type = type /\ toCore' = Tail(toCore)

MayRun(m) == ~coreDisposed /\ busy = None /\ m.run \notin seenRunIds

\* A start is refused for its plan or for what the core has done before.
HandleStart ==
  /\ Take("START")
  /\ \E validPlan \in BOOLEAN : LET m == Head(toCore) IN
       IF validPlan /\ MayRun(m)
       THEN /\ busy' = m.id
            /\ cancelRequested' = FALSE
            /\ sequence' = 0 /\ progressSequence' = 0 /\ boundary' = 0
            /\ seenRunIds' = seenRunIds \cup {m.run}
            /\ Post(Answer("accepted", m.id, m.id, m.run, 0))
            /\ UNCHANGED verdict
       ELSE /\ verdict' = [verdict EXCEPT ![m.id] = "failed"]
            /\ Post(Answer("failed", m.id, m.id, m.run, NoSequence))
            /\ UNCHANGED <<busy, cancelRequested, sequence, progressSequence, boundary, seenRunIds>>
  /\ UNCHANGED <<clientVars, coreDisposed, alive>>

HandleCancel_FlagLater == \* mutant: the acknowledgement is posted, the flag is not set
  /\ Take("CANCEL")
  /\ LET m == Head(toCore) IN
       IF busy # None /\ runOf[busy] = m.run
       THEN /\ sequence' = sequence + 1
            /\ Post(Event("acknowledged", m.id))
       ELSE /\ Post(Answer("failed", m.id, None, m.run, NoSequence))
            /\ UNCHANGED sequence
  /\ UNCHANGED <<clientVars, busy, cancelRequested, progressSequence, boundary, seenRunIds,
                 coreDisposed, alive, verdict>>

HandleCancel ==
  /\ Take("CANCEL")
  /\ LET m == Head(toCore) IN
       IF busy # None /\ runOf[busy] = m.run
       THEN /\ cancelRequested' = TRUE
            /\ sequence' = sequence + 1
            /\ Post(Event("acknowledged", m.id))
       ELSE /\ Post(Answer("failed", m.id, None, m.run, NoSequence))
            /\ UNCHANGED <<cancelRequested, sequence>>
  /\ UNCHANGED <<clientVars, busy, progressSequence, boundary, seenRunIds,
                 coreDisposed, alive, verdict>>

HandleDispose ==
  /\ Take("DISPOSE")
  /\ coreDisposed' = TRUE
  /\ IF busy = None
     THEN UNCHANGED <<cancelRequested, sequence>>
     ELSE cancelRequested' = TRUE /\ sequence' = sequence + 1
  /\ Post(Answer("disposed", None, None, Head(toCore).run, sequence'))
  /\ UNCHANGED <<clientVars, busy, progressSequence, boundary, seenRunIds, alive, verdict>>

Executing == alive /\ busy # None

\* reportProgress does nothing once the run is cancelled.  If its post throws, the
\* executor sees the error and goes on or ends, the numbers are used up.
ReportProgress ==
  /\ Executing /\ ~cancelRequested
  /\ progressSequence < MaxProgress
  /\ progressSequence' = progressSequence + 1
  /\ sequence' = sequence + 1
  /\ \/ Post([Event("progress", busy) EXCEPT !.progress = progressSequence + 1])
     \/ UNCHANGED toClient
  /\ UNCHANGED <<clientVars, toCore, busy, cancelRequested, boundary, seenRunIds,
                 coreDisposed, alive, verdict>>

CommitBoundary_WhileCancelled == \* mutant: commitBoundary without throwIfCancelled
  /\ Executing
  /\ boundary < MaxBoundary
  /\ boundary' = boundary + 1
  /\ UNCHANGED <<clientVars, toCore, toClient, busy, cancelRequested, sequence,
                 progressSequence, seenRunIds, coreDisposed, alive, verdict>>

\* commitBoundary throws once the run is cancelled, which ends the run.
CommitBoundary ==
  /\ Executing /\ ~cancelRequested
  /\ boundary < MaxBoundary
  /\ boundary' = boundary + 1
  /\ UNCHANGED <<clientVars, toCore, toClient, busy, cancelRequested, sequence,
                 progressSequence, seenRunIds, coreDisposed, alive, verdict>>

Finish_ForgetsTerminal(v) == \* mutant: a failing executor posts no terminal event
  /\ Executing
  /\ LET type == IF cancelRequested THEN "cancelled" ELSE v IN
       /\ verdict' = [verdict EXCEPT ![busy] = type]
       /\ IF type = "failed" THEN UNCHANGED toClient
          ELSE Post(Event(type, busy))
  /\ sequence' = sequence + 1
  /\ busy' = None
  /\ UNCHANGED <<clientVars, toCore, cancelRequested, progressSequence, boundary, seenRunIds,
                 coreDisposed, alive>>

\* The executor returned or threw.  A requested cancellation wins over both.  If the
\* post of the terminal event throws, the run has been marked terminal before, and
\* no other event is posted in its place.
\* No executor registers a disposer, so no message is handled between the
\* terminal event and the end of the run.
Finish(v) ==
  /\ Executing
  /\ LET type == IF cancelRequested THEN "cancelled" ELSE v IN
       \/ /\ verdict' = [verdict EXCEPT ![busy] = type]
          /\ Post(Event(type, busy))
       \/ /\ type # "cancelled"
          /\ verdict' = [verdict EXCEPT ![busy] = "unsent"]
          /\ UNCHANGED toClient
  /\ sequence' = sequence + 1
  /\ busy' = None
  /\ UNCHANGED <<clientVars, toCore, cancelRequested, progressSequence, boundary, seenRunIds,
                 coreDisposed, alive>>

\* terminate() of the client's dispose.
Terminate ==
  /\ alive /\ disposed
  /\ alive' = FALSE
  /\ UNCHANGED <<clientVars, toCore, toClient, busy, cancelRequested, sequence,
                 progressSequence, boundary, seenRunIds, coreDisposed, verdict>>
-----------------------------------------------------------------------------
CoreHandles == HandleStart \/ HandleCancel \/ HandleDispose
ExecutorEnds == Finish("result") \/ Finish("failed")

Next ==
  \/ \E q \in Starts, r \in Runs : Start(q, r) \/ StartFails(q, r)
  \/ \E c \in Cancels, r \in Runs : Cancel(c, r)
  \/ Dispose \/ Failure \/ Receive
  \/ CoreHandles
  \/ ReportProgress \/ CommitBoundary \/ ExecutorEnds
  \/ Terminate

Spec == Init /\ [][Next]_vars

\* Event loops run and executors end.
FairSpec ==
  /\ Spec
  /\ WF_vars(Receive) /\ WF_vars(CoreHandles)
  /\ WF_vars(ExecutorEnds)
-----------------------------------------------------------------------------
RequestTypes == {"START", "CANCEL", "DISPOSE"}
EventTypes == Terminals \cup {"accepted", "acknowledged", "progress", "disposed"}
Ids == Starts \cup Cancels \cup {None}
RunIds == Runs \cup {None}

TypeOK ==
  /\ active \in Starts \cup {None}
  /\ lastSequence \in Int /\ progressSeen \in 0..MaxProgress
  /\ outcome \in [Starts -> Terminals \cup {"unused", "pending", "unposted", "disposed", "broken"}]
  /\ runOf \in [Starts \cup Cancels -> RunIds]
  /\ cancels \in [Cancels -> {"unused", "pending", "acked", "rejected"}]
  /\ ackOf \in [Cancels -> Starts \cup {None}]
  /\ ackAt \in [Cancels -> -1..MaxBoundary] /\ endAt \in [Starts -> -1..MaxBoundary]
  /\ disposed \in BOOLEAN /\ failures \in 0..MaxFailures
  /\ toCore \in Seq([type : RequestTypes, id : Ids, run : RunIds])
  /\ toClient \in Seq([type : EventTypes, id : Ids, call : Starts \cup {None}, run : RunIds, sequence : Int,
                       progress : 0..MaxProgress, boundary : 0..MaxBoundary])
  /\ busy \in Starts \cup {None}
  /\ cancelRequested \in BOOLEAN /\ sequence \in Nat
  /\ progressSequence \in 0..MaxProgress /\ boundary \in 0..MaxBoundary
  /\ seenRunIds \in SUBSET Runs
  /\ coreDisposed \in BOOLEAN /\ alive \in BOOLEAN
  /\ verdict \in [Starts -> Terminals \cup {"none", "unsent"}]

\* An acknowledged cancellation is final: the run it names never delivers a
\* result, and the run ends at the very boundary the acknowledgement named, so
\* nothing is committed behind it (workerCore.js:116,145-165,219-223).
AckIsFinal ==
  \A c \in Cancels : cancels[c] = "acked" =>
    /\ outcome[ackOf[c]] # "result"
    /\ outcome[ackOf[c]] = "cancelled" => endAt[ackOf[c]] = ackAt[c]

\* Unless the worker object raised an error event, the caller learns what
\* happened in the worker: no event of another run, late or out of turn,
\* decides a call (workerClient.js:122-170).
OutcomeIsVerdict ==
  failures = 0 =>
  \A q \in Starts : outcome[q] \in Terminals => verdict[q] = outcome[q]

\* Every started call settles, unless the post of its terminal event throws: then
\* nothing settles it but a dispose or an error event (workerClient.js:172-189,
\* workerCore.js:108-142,231-246).
StartsSettle ==
  \A q \in Starts : outcome[q] = "pending" ~> outcome[q] # "pending" \/ verdict[q] = "unsent"

\* The protocol keeps the promises of ComputeJob: one call at a time, one
\* outcome each, cancelled only if acknowledged before.
Job == INSTANCE ComputeJob WITH
         Calls <- Starts,
         status <- outcome,
         stopped <- {ackOf[c] : c \in {d \in Cancels : cancels[d] = "acked"}}
KeepsJobPromises == Job!Spec
=============================================================================
