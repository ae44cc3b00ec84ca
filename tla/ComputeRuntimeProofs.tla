------------------------- MODULE ComputeRuntimeProofs -------------------------
(***************************************************************************)
(* Proofs about ComputeRuntime, for any calls, cancels and run ids, any    *)
(* number of progress reports, boundaries and error events: an             *)
(* acknowledged cancel is final, an outcome is the verdict of the worker,  *)
(* and the protocol keeps the promises of ComputeJob.                      *)
(*                                                                         *)
(* The invariant follows a call through the two queues.  Its START is      *)
(* handled once, so that whatever names the call comes from the one run of *)
(* it (Handled).  Once a cancel is acknowledged the run commits nothing    *)
(* more, so all who tell where it ended tell the same (ToldAgrees).  The   *)
(* queues are in order, so a cancel that reaches the run of the active     *)
(* call was sent after the call was started and is still awaited           *)
(* (CancelsPending), and its acknowledgement comes before the end of the   *)
(* run (CancelAnnounced).  Only the numbering of the events needs that the *)
(* worker object raised no error (InOrder).                                *)
(***************************************************************************)
EXTENDS ComputeRuntime, SequenceTheorems, TLAPS

Sent == 1..Len(toCore)     \* the requests on their way to the core
Posted == 1..Len(toClient) \* the events on their way to the client

\* The core has handled the START of q.
Handled(q) == busy = q \/ verdict[q] # "none"

\* The client and its promises.
Promises ==
  /\ lastSequence >= -1
  /\ active # None => outcome[active] = "pending"
  /\ \A q \in Starts : outcome[q] = "pending" => q = active
  /\ disposed => active = None /\ toClient = <<>>
  /\ \A q \in Starts : outcome[q] = "result" => verdict[q] = "result"
  /\ \A q \in Starts : Handled(q) => outcome[q] \notin {"unused", "unposted"}

\* A call is handled once, a cancel is answered once.
Requested ==
  /\ busy # None => verdict[busy] = "none"
  /\ \A i \in Sent :
       /\ toCore[i].type = "START" =>
            /\ toCore[i].id \in Starts /\ toCore[i].run \in Runs /\ ~Handled(toCore[i].id)
            /\ outcome[toCore[i].id] \notin {"unused", "unposted"}
       /\ toCore[i].type = "CANCEL" =>
            toCore[i].id \in Cancels /\ cancels[toCore[i].id] \in {"pending", "rejected"}
       /\ toCore[i].type = "DISPOSE" => disposed /\ toCore[i].id = None
  /\ \A i, j \in Sent : toCore[i].type # "DISPOSE" /\ toCore[i].id = toCore[j].id => i = j

\* What is posted is about a call that was handled, and tells its verdict.
Answers ==
  /\ \A i \in Posted :
       /\ toClient[i].type # "disposed"
       /\ toClient[i].call # None => Handled(toClient[i].call)
       /\ toClient[i].type = "acknowledged" =>
            /\ toClient[i].id \in Cancels /\ toClient[i].call \in Starts
            /\ cancels[toClient[i].id] \in {"pending", "rejected"}
            /\ \A j \in Sent : toCore[j].id # toClient[i].id
       /\ toClient[i].type # "acknowledged" /\ toClient[i].id \in Starts =>
            /\ toClient[i].call = toClient[i].id
            /\ toClient[i].type \in Terminals => verdict[toClient[i].id] = toClient[i].type
       /\ toClient[i].type # "acknowledged" /\ toClient[i].id \notin Starts =>
            toClient[i].call = None /\ toClient[i].type = "failed"
  /\ \A i, j \in Posted :
       toClient[i].type = "acknowledged" /\ toClient[j].type = "acknowledged"
         /\ toClient[i].id = toClient[j].id => i = j

Acked(q) == \E c \in Cancels : cancels[c] = "acked" /\ ackOf[c] = q

\* Somebody tells, or is about to tell, that q stopped at boundary b.
AckOf(q, i) == toClient[i].type = "acknowledged" /\ toClient[i].call = q
EndOf(q, i) == toClient[i].type = "cancelled" /\ toClient[i].id = q

Told(q, b) ==
  \/ \E i \in Posted : toClient[i].boundary = b /\ (AckOf(q, i) \/ EndOf(q, i))
  \/ \E c \in Cancels : cancels[c] = "acked" /\ ackOf[c] = q /\ ackAt[c] = b
  \/ outcome[q] = "cancelled" /\ endAt[q] = b

ToldAgrees ==
  /\ \A c \in Cancels : cancels[c] = "acked" => ackOf[c] \in Starts
  /\ \A q \in Starts, b \in Int :
       Told(q, b) =>
         /\ \A d \in Int : Told(q, d) => b = d
         /\ Handled(q) /\ verdict[q] \in {"none", "cancelled"}
         /\ busy = q => cancelRequested /\ b = boundary

StartOf(q, i) == toCore[i].type = "START" /\ toCore[i].id = q

CancelsPending ==
  active # None =>
    /\ \A j \in Sent : /\ toCore[j].type = "CANCEL"
                       /\ \A k \in Sent : j < k => ~StartOf(active, k)
                       => cancels[toCore[j].id] = "pending"
    /\ \A i \in Posted : AckOf(active, i) => cancels[toClient[i].id] = "pending"

CancelAnnounced ==
  active # None =>
    /\ busy = active /\ cancelRequested => Acked(active) \/ \E i \in Posted : AckOf(active, i)
    /\ \A j \in Posted : EndOf(active, j) =>
         Acked(active) \/ \E i \in Posted : i < j /\ AckOf(active, i)

\* The sequence and progress numbers reach the client in the order it expects.
InOrder ==
  failures = 0 /\ ~disposed =>
    /\ busy # None => /\ busy = active
                      /\ lastSequence <= sequence /\ progressSeen <= progressSequence
    /\ \A i \in Sent : toCore[i].type = "START" =>
         toCore[i].id = active /\ lastSequence = -1 /\ progressSeen = 0
    /\ \A i \in Posted : toClient[i].call # None =>
         /\ toClient[i].call = active
         /\ \/ toClient[i].sequence > lastSequence
            \/ toClient[i].type = "failed" /\ toClient[i].sequence = NoSequence
         /\ busy # None => toClient[i].sequence <= sequence
         /\ toClient[i].type = "progress" =>
              /\ toClient[i].progress > progressSeen
              /\ busy # None => toClient[i].progress <= progressSequence
    /\ \A i, j \in Posted : i < j /\ toClient[i].call # None /\ toClient[j].call # None =>
         /\ toClient[i].type \notin Terminals
         /\ toClient[i].sequence < toClient[j].sequence
         /\ toClient[i].type = "progress" /\ toClient[j].type = "progress" =>
              toClient[i].progress < toClient[j].progress

IInv ==
  /\ TypeOK /\ Promises /\ Requested /\ Answers /\ ToldAgrees
  /\ CancelsPending /\ CancelAnnounced /\ InOrder /\ OutcomeIsVerdict
-----------------------------------------------------------------------------
(* Queues. *)

Requests == [type : RequestTypes, id : Ids, run : RunIds]
Events == [type : EventTypes, id : Ids, call : Starts \cup {None}, run : RunIds, sequence : Int,
           progress : 0..MaxProgress, boundary : 0..MaxBoundary]

\* Queue r is q with m behind it, or q without its first message.
Grown(q, r, m) ==
  /\ Len(q) \in Nat /\ Len(r) = Len(q) + 1
  /\ \A i \in 1..Len(q) : r[i] = q[i]
  /\ r[Len(q) + 1] = m

Shrunk(q, r) ==
  /\ Len(q) \in Nat \ {0} /\ Len(r) = Len(q) - 1
  /\ \A i \in 1..Len(r) : r[i] = q[i + 1]
  /\ Head(q) = q[1]

LEMMA AppendGrows ==
  ASSUME NEW S, NEW q \in Seq(S), NEW m \in S
  PROVE  Append(q, m) \in Seq(S) /\ Grown(q, Append(q, m), m)
BY AppendProperties DEF Grown

LEMMA TailShrinks ==
  ASSUME NEW S, NEW q \in Seq(S), q # <<>>
  PROVE  Tail(q) \in Seq(S) /\ Shrunk(q, Tail(q)) /\ Head(q) \in S
BY HeadTailProperties, EmptySeq DEF Shrunk

\* What is posted arrives, unless the client no longer listens.
LEMMA PostOK ==
  ASSUME toClient \in Seq(Events), disposed \in BOOLEAN, NEW m \in Events, Post(m)
  PROVE  /\ toClient' \in Seq(Events)
         /\ disposed => toClient' = <<>>
         /\ ~disposed => Grown(toClient, toClient', m)
<1>1. CASE disposed
  BY <1>1 DEF Post
<1>2. CASE ~disposed
  BY <1>2, AppendGrows DEF Post
<1> QED
  BY <1>1, <1>2

LEMMA TakeOK ==
  ASSUME toCore \in Seq(Requests), NEW type, Take(type)
  PROVE  /\ toCore' \in Seq(Requests) /\ Shrunk(toCore, toCore')
         /\ Head(toCore) \in Requests /\ Head(toCore).type = type
BY TailShrinks DEF Take

LEMMA RequestFields ==
  ASSUME NEW type \in RequestTypes, NEW id \in Ids, NEW r \in RunIds
  PROVE  /\ Request(type, id, r) \in Requests
         /\ Request(type, id, r).type = type /\ Request(type, id, r).id = id
         /\ Request(type, id, r).run = r
BY DEF Request, Requests

LEMMA AnswerFields ==
  ASSUME NEW type \in EventTypes, NEW id \in Ids, NEW call \in Starts \cup {None}, NEW r \in RunIds,
         NEW seq \in Int
  PROVE  LET m == Answer(type, id, call, r, seq) IN
         /\ m \in Events
         /\ m.type = type /\ m.id = id /\ m.call = call /\ m.sequence = seq
         /\ m.boundary = 0 /\ m.progress = 0
BY RuntimeAssumption DEF Answer, Events

LEMMA EventFields ==
  ASSUME TypeOK, busy # None, NEW type \in EventTypes, NEW id \in Ids
  PROVE  LET m == Event(type, id) IN
         /\ m \in Events
         /\ m.type = type /\ m.id = id /\ m.call = busy /\ m.sequence = sequence + 1
         /\ m.boundary = boundary /\ m.progress = progressSequence
<1>1. runOf[busy] \in RunIds
  BY DEF TypeOK
<1> QED
  BY <1>1 DEF Event, Events, TypeOK

\* A cancelled run's event, a progress report.
LEMMA ProgressFields ==
  ASSUME TypeOK, busy # None, progressSequence < MaxProgress
  PROVE  LET m == [Event("progress", busy) EXCEPT !.progress = progressSequence + 1] IN
         /\ m \in Events
         /\ m.type = "progress" /\ m.id = busy /\ m.call = busy /\ m.sequence = sequence + 1
         /\ m.boundary = boundary /\ m.progress = progressSequence + 1
<1>1. Event("progress", busy) \in Events /\ "progress" \in EventTypes /\ busy \in Ids
  BY EventFields DEF TypeOK, EventTypes, Ids
<1>2. progressSequence + 1 \in 0..MaxProgress
  BY RuntimeAssumption DEF TypeOK
<1> HIDE DEF Events
<1> QED
  BY <1>1, <1>2, EventFields DEF Events
-----------------------------------------------------------------------------
(* Types. *)

LEMMA QueueTypes ==
  TypeOK => toCore \in Seq(Requests) /\ toClient \in Seq(Events)
BY DEF TypeOK, Requests, Events

ClientTypeOK ==
  /\ active \in Starts \cup {None}
  /\ lastSequence \in Int /\ progressSeen \in 0..MaxProgress
  /\ outcome \in [Starts -> Terminals \cup {"unused", "pending", "unposted", "disposed", "broken"}]
  /\ runOf \in [Starts \cup Cancels -> RunIds]
  /\ cancels \in [Cancels -> {"unused", "pending", "acked", "rejected"}]
  /\ ackOf \in [Cancels -> Starts \cup {None}]
  /\ ackAt \in [Cancels -> -1..MaxBoundary] /\ endAt \in [Starts -> -1..MaxBoundary]
  /\ disposed \in BOOLEAN /\ failures \in 0..MaxFailures

CoreTypeOK ==
  /\ busy \in Starts \cup {None}
  /\ cancelRequested \in BOOLEAN /\ sequence \in Nat
  /\ progressSequence \in 0..MaxProgress /\ boundary \in 0..MaxBoundary
  /\ seenRunIds \in SUBSET Runs
  /\ coreDisposed \in BOOLEAN /\ alive \in BOOLEAN
  /\ verdict \in [Starts -> Terminals \cup {"none", "unsent"}]

LEMMA TypeParts ==
  /\ TypeOK <=> ClientTypeOK /\ CoreTypeOK /\ toCore \in Seq(Requests) /\ toClient \in Seq(Events)
  /\ TypeOK' <=> ClientTypeOK' /\ CoreTypeOK' /\ toCore' \in Seq(Requests) /\ toClient' \in Seq(Events)
BY DEF TypeOK, ClientTypeOK, CoreTypeOK, Requests, Events

LEMMA EmptyQueue == <<>> \in Seq(Events)
BY EmptySeq
-----------------------------------------------------------------------------
(* Steps of the client. *)

Outcomes == Terminals \cup {"unused", "pending", "unposted", "disposed", "broken"}

\* The end of the active call, if there is one: nobody awaits a cancel any more.
Ended(v) ==
  /\ active' = None
  /\ outcome' \in [Starts -> Outcomes]
  /\ \A q \in Starts : outcome'[q] = IF q = active THEN v ELSE outcome[q]
  /\ cancels' \in [Cancels -> {"unused", "pending", "acked", "rejected"}]
  /\ \A c \in Cancels : cancels'[c] = IF cancels[c] = "pending" THEN "rejected" ELSE cancels[c]

LEMMA FinishRunEnds ==
  ASSUME TypeOK, NEW v \in Outcomes, active # None, FinishRun(v)
  PROVE  Ended(v)
BY DEF TypeOK, FinishRun, Ended, Outcomes

LEMMA RejectAllEnds ==
  ASSUME TypeOK, NEW v \in Outcomes, RejectAll(v)
  PROVE  Ended(v)
<1>1. CASE active # None
  BY <1>1, FinishRunEnds DEF RejectAll
<1>2. CASE active = None
  <2>1. active \notin Starts
    BY <1>2, RuntimeAssumption
  <2> QED
    BY <1>2, <2>1 DEF RejectAll, TypeOK, Ended, Outcomes
<1> QED
  BY <1>1, <1>2

\* The core does nothing.
CoreSame ==
  /\ busy' = busy /\ cancelRequested' = cancelRequested /\ sequence' = sequence
  /\ progressSequence' = progressSequence /\ boundary' = boundary /\ seenRunIds' = seenRunIds
  /\ coreDisposed' = coreDisposed /\ alive' = alive /\ verdict' = verdict

LEMMA StartOK ==
  ASSUME IInv, NEW q \in Starts, NEW r \in Runs, Start(q, r)
  PROVE  IInv'
<1>1. ~disposed /\ active = None /\ outcome[q] = "unused" /\ q # None
  BY RuntimeAssumption DEF Start
<1>2. /\ active' = q /\ lastSequence' = -1 /\ progressSeen' = 0
      /\ cancels' = cancels /\ ackOf' = ackOf /\ ackAt' = ackAt /\ endAt' = endAt
      /\ disposed' = disposed /\ failures' = failures /\ toClient' = toClient
  BY DEF Start
<1>c. CoreSame
  BY DEF Start, CoreSame, coreVars
<1>i. /\ TypeOK /\ Promises /\ Requested /\ Answers /\ ToldAgrees
      /\ CancelsPending /\ CancelAnnounced /\ InOrder /\ OutcomeIsVerdict
  BY DEF IInv
<1>3. outcome' \in [Starts -> Outcomes] /\ outcome'[q] = "pending"
      /\ \A p \in Starts \ {q} : outcome'[p] = outcome[p]
  BY DEF Start, IInv, TypeOK, Outcomes
<1>4. /\ toCore' \in Seq(Requests) /\ Grown(toCore, toCore', Request("START", q, r))
      /\ Request("START", q, r).type = "START" /\ Request("START", q, r).id = q
      /\ Request("START", q, r).run = r
  BY QueueTypes, RequestFields, AppendGrows DEF Start, IInv, RequestTypes, Ids, RunIds
<1>5. TypeOK'
  <2>1. ClientTypeOK'
    <3>1. runOf' \in [Starts \cup Cancels -> RunIds]
      BY DEF Start, IInv, TypeOK, RunIds
    <3>2. ClientTypeOK
      BY <1>i, TypeParts
    <3> QED
      BY <1>2, <1>3, <3>1, <3>2, RuntimeAssumption DEF ClientTypeOK, Outcomes
  <2>2. CoreTypeOK' /\ toClient' \in Seq(Events)
    BY <1>2, <1>c, <1>i, TypeParts DEF CoreTypeOK, CoreSame
  <2> QED
    BY <1>4, <2>1, <2>2, TypeParts
<1>6. busy # q /\ verdict[q] = "none"
  BY <1>1, <1>i DEF Promises, Handled
<1>7. Promises'
  BY <1>1, <1>2, <1>c, <1>i, <1>3, <1>6, RuntimeAssumption DEF Promises, Handled, CoreSame
<1>8. Requested'
  <2>1. \A i \in Sent' : (i \in Sent /\ toCore'[i] = toCore[i]) \/ i = Len(toCore) + 1
    BY <1>4 DEF Grown, Sent
  <2>2. \A i \in Sent : toCore[i].type # "DISPOSE" /\ toCore[i].id # q
    <3> TAKE i \in Sent
    <3>1. toCore[i] \in Requests
      BY <1>i, QueueTypes DEF Sent
    <3>2. toCore[i].type \in RequestTypes
      BY <3>1 DEF Requests
    <3> QED
      BY <1>1, <1>i, <3>2, RuntimeAssumption DEF Requested, RequestTypes
  <2>3. \A i, j \in Sent' : toCore'[i].type # "DISPOSE" /\ toCore'[i].id = toCore'[j].id => i = j
    BY <1>4, <1>i, <2>1, <2>2 DEF Requested, Grown
  <2> QED
    BY <1>1, <1>2, <1>c, <1>i, <1>3, <1>4, <1>6, <2>1, <2>2, <2>3, RuntimeAssumption DEF Requested, Handled, Grown, CoreSame
<1>9. Answers'
  BY <1>2, <1>c, <1>i, <1>4, RuntimeAssumption DEF Answers, Grown, Sent, Posted, Handled, CoreSame
<1>10. ToldAgrees'
  BY <1>1, <1>2, <1>c, <1>i, <1>3 DEF ToldAgrees, Told, AckOf, EndOf, Posted, Handled, CoreSame
<1>11. CancelsPending'
  BY <1>2, <1>c, <1>i, <1>4, <1>6 DEF Answers, CancelsPending, Handled, StartOf, AckOf, Grown, Sent, Posted
<1>12. CancelAnnounced'
  BY <1>2, <1>c, <1>i, <1>6 DEF Answers, CancelAnnounced, EndOf, AckOf, Acked, Posted, Handled, Terminals, CoreSame
<1>13. InOrder'
  BY <1>1, <1>2, <1>c, <1>i, <1>4, <1>6 DEF Requested, InOrder, Grown, Sent, Posted, Handled, CoreSame
<1>14. OutcomeIsVerdict'
  BY <1>2, <1>c, <1>i, <1>3 DEF OutcomeIsVerdict, Terminals, CoreSame
<1> QED
  BY <1>5, <1>7, <1>8, <1>9, <1>10, <1>11, <1>12, <1>13, <1>14 DEF IInv

LEMMA StartFailsOK ==
  ASSUME IInv, NEW q \in Starts, NEW r \in Runs, StartFails(q, r)
  PROVE  IInv'
<1>1. outcome[q] = "unused"
  BY DEF StartFails
<1>2. /\ active' = active /\ lastSequence' = lastSequence /\ progressSeen' = progressSeen
      /\ cancels' = cancels /\ ackOf' = ackOf /\ ackAt' = ackAt /\ endAt' = endAt
      /\ disposed' = disposed /\ failures' = failures /\ toCore' = toCore /\ toClient' = toClient
  BY DEF StartFails
<1>c. CoreSame
  BY DEF StartFails, CoreSame, coreVars
<1>i. /\ TypeOK /\ Promises /\ Requested /\ Answers /\ ToldAgrees
      /\ CancelsPending /\ CancelAnnounced /\ InOrder /\ OutcomeIsVerdict
  BY DEF IInv
<1>3. outcome' \in [Starts -> Outcomes] /\ outcome'[q] = "unposted"
      /\ \A p \in Starts \ {q} : outcome'[p] = outcome[p]
  BY DEF StartFails, IInv, TypeOK, Outcomes
<1>4. TypeOK'
  <2>1. ClientTypeOK'
    <3>1. runOf' \in [Starts \cup Cancels -> RunIds]
      BY DEF StartFails, IInv, TypeOK, RunIds
    <3> QED
      BY <1>2, <1>3, <1>i, <3>1, TypeParts DEF ClientTypeOK, Outcomes
  <2> QED
    BY <1>2, <1>c, <1>i, <2>1, TypeParts DEF CoreTypeOK, CoreSame
<1>5. ~Handled(q)
  BY <1>1, <1>i DEF Promises
<1>6. Promises'
  <2>1. active \in Starts \cup {None}
    BY <1>i DEF TypeOK
  <2> QED
    BY <1>1, <1>2, <1>3, <1>5, <1>c, <1>i, <2>1, RuntimeAssumption DEF Promises, Handled, CoreSame
<1>7. Requested'
  BY <1>1, <1>2, <1>3, <1>5, <1>c, <1>i DEF Requested, Handled, CoreSame, Sent
<1>8. Answers'
  BY <1>2, <1>c, <1>i DEF Answers, Handled, CoreSame, Sent, Posted
<1>9. ToldAgrees'
  BY <1>1, <1>2, <1>3, <1>c, <1>i DEF ToldAgrees, Told, AckOf, EndOf, Posted, Handled, CoreSame
<1>10. CancelsPending' /\ CancelAnnounced'
  BY <1>2, <1>c, <1>i DEF CancelsPending, CancelAnnounced, StartOf, AckOf, EndOf, Acked, Sent, Posted, CoreSame
<1>11. InOrder'
  BY <1>2, <1>c, <1>i DEF InOrder, Sent, Posted, CoreSame
<1>12. OutcomeIsVerdict'
  BY <1>2, <1>c, <1>i, <1>3 DEF OutcomeIsVerdict, Terminals, CoreSame
<1> QED
  BY <1>4, <1>6, <1>7, <1>8, <1>9, <1>10, <1>11, <1>12 DEF IInv

LEMMA CancelOK ==
  ASSUME IInv, NEW c \in Cancels, NEW r \in Runs, Cancel(c, r)
  PROVE  IInv'
<1>1. cancels[c] = "unused" /\ c \notin Starts /\ c # None
  BY RuntimeAssumption DEF Cancel
<1>2. /\ active' = active /\ lastSequence' = lastSequence /\ progressSeen' = progressSeen
      /\ outcome' = outcome /\ ackOf' = ackOf /\ ackAt' = ackAt /\ endAt' = endAt
      /\ disposed' = disposed /\ failures' = failures /\ toClient' = toClient
  BY DEF Cancel
<1>c. CoreSame
  BY DEF Cancel, CoreSame, coreVars
<1>i. /\ TypeOK /\ Promises /\ Requested /\ Answers /\ ToldAgrees
      /\ CancelsPending /\ CancelAnnounced /\ InOrder /\ OutcomeIsVerdict
  BY DEF IInv
<1>3. /\ cancels' \in [Cancels -> {"unused", "pending", "acked", "rejected"}]
      /\ cancels'[c] = "pending" /\ \A d \in Cancels \ {c} : cancels'[d] = cancels[d]
  BY DEF Cancel, IInv, TypeOK
<1>4. /\ toCore' \in Seq(Requests) /\ Grown(toCore, toCore', Request("CANCEL", c, r))
      /\ Request("CANCEL", c, r).type = "CANCEL" /\ Request("CANCEL", c, r).id = c
  BY QueueTypes, RequestFields, AppendGrows DEF Cancel, IInv, RequestTypes, Ids, RunIds
<1>5. TypeOK'
  <2>1. ClientTypeOK'
    <3>1. runOf' \in [Starts \cup Cancels -> RunIds]
      BY DEF Cancel, IInv, TypeOK, RunIds
    <3> QED
      BY <1>2, <1>3, <1>i, <3>1, TypeParts DEF ClientTypeOK
  <2> QED
    BY <1>2, <1>4, <1>c, <1>i, <2>1, TypeParts DEF CoreTypeOK, CoreSame
<1>6. Promises'
  BY <1>2, <1>c, <1>i DEF Promises, Handled, CoreSame
<1>s. \A i \in Sent' : (i \in Sent /\ toCore'[i] = toCore[i]) \/ i = Len(toCore) + 1
  BY <1>4 DEF Grown, Sent
<1>7. Requested'
  <2>2. \A i \in Sent : toCore[i].id # c
    <3> TAKE i \in Sent
    <3>1. toCore[i] \in Requests
      BY <1>i, QueueTypes DEF Sent
    <3>2. toCore[i].type \in RequestTypes
      BY <3>1 DEF Requests
    <3> QED
      BY <1>1, <1>i, <3>2 DEF Requested, RequestTypes
  <2>3. \A i, j \in Sent' : toCore'[i].type # "DISPOSE" /\ toCore'[i].id = toCore'[j].id => i = j
    BY <1>4, <1>i, <1>s, <2>2 DEF Requested, Grown
  <2> QED
    BY <1>2, <1>3, <1>4, <1>c, <1>i, <1>s, <2>3 DEF Requested, Handled, Grown, CoreSame
<1>8. Answers'
  <2>1. \A i \in Posted : toClient[i].type = "acknowledged" => toClient[i].id # c
    BY <1>1, <1>i DEF Answers
  <2> QED
    BY <1>2, <1>3, <1>4, <1>c, <1>i, <1>s, <2>1 DEF Answers, Handled, Grown, CoreSame, Sent, Posted
<1>9. ToldAgrees'
  BY <1>1, <1>2, <1>3, <1>c, <1>i DEF ToldAgrees, Told, AckOf, EndOf, Posted, Handled, CoreSame
<1>10. CancelsPending'
  <2>1. Len(toCore) + 1 \in Sent' /\ Sent \subseteq Sent'
    BY <1>4 DEF Grown, Sent
  <2>2. ASSUME active # None, NEW j \in Sent', toCore'[j].type = "CANCEL",
               \A k \in Sent' : j < k => toCore'[k].type # "START" \/ toCore'[k].id # active
        PROVE  cancels'[toCore'[j].id] = "pending"
    <3>1. CASE j = Len(toCore) + 1
      BY <1>3, <1>4, <3>1 DEF Grown
    <3>2. CASE j \in Sent /\ toCore'[j] = toCore[j]
      <4>1. \A k \in Sent : j < k => ~StartOf(active, k)
        BY <1>4, <2>1, <2>2 DEF StartOf, Grown, Sent
      <4>2. cancels[toCore[j].id] = "pending" /\ toCore[j].id \in Cancels
        BY <1>i, <2>2, <3>2, <4>1 DEF CancelsPending, Requested
      <4> QED
        BY <1>1, <1>3, <3>2, <4>2
    <3> QED
      BY <1>s, <3>1, <3>2
  <2>3. \A i \in Posted : active # None /\ AckOf(active, i) => cancels'[toClient[i].id] = "pending"
    BY <1>1, <1>3, <1>i DEF CancelsPending, Answers, AckOf
  <2> QED
    BY <1>2, <2>2, <2>3 DEF CancelsPending, StartOf, AckOf, Posted
<1>11. CancelAnnounced'
  BY <1>1, <1>2, <1>3, <1>c, <1>i DEF CancelAnnounced, AckOf, EndOf, Acked, Posted, CoreSame
<1>12. InOrder'
  BY <1>2, <1>4, <1>c, <1>i, <1>s DEF InOrder, Grown, Sent, Posted, CoreSame
<1>13. OutcomeIsVerdict'
  BY <1>2, <1>c, <1>i DEF OutcomeIsVerdict, Terminals, CoreSame
<1> QED
  BY <1>5, <1>6, <1>7, <1>8, <1>9, <1>10, <1>11, <1>12, <1>13 DEF IInv

LEMMA DisposeOK ==
  ASSUME IInv, Dispose
  PROVE  IInv'
<1> DEFINE run == IF active = None THEN None ELSE runOf[active]
<1>i. /\ TypeOK /\ Promises /\ Requested /\ Answers /\ ToldAgrees
      /\ CancelsPending /\ CancelAnnounced /\ InOrder /\ OutcomeIsVerdict
  BY DEF IInv
<1>1. run \in RunIds
  BY <1>i DEF TypeOK, RunIds
<1> HIDE DEF run
<1>2. /\ ~disposed /\ disposed' = TRUE /\ toClient' = <<>>
      /\ lastSequence' = lastSequence /\ progressSeen' = progressSeen
      /\ runOf' = runOf /\ ackOf' = ackOf /\ ackAt' = ackAt /\ endAt' = endAt /\ failures' = failures
      /\ toCore' = Append(toCore, Request("DISPOSE", None, run))
  BY DEF Dispose, run
<1>c. CoreSame
  BY DEF Dispose, CoreSame, coreVars
<1>3. Ended("disposed")
  BY <1>i, RejectAllEnds DEF Dispose, Outcomes
<1>4. /\ toCore' \in Seq(Requests) /\ Grown(toCore, toCore', Request("DISPOSE", None, run))
      /\ Request("DISPOSE", None, run).type = "DISPOSE" /\ Request("DISPOSE", None, run).id = None
  <2>1. "DISPOSE" \in RequestTypes /\ None \in Ids
    BY DEF RequestTypes, Ids
  <2>2. /\ Request("DISPOSE", None, run) \in Requests
        /\ Request("DISPOSE", None, run).type = "DISPOSE" /\ Request("DISPOSE", None, run).id = None
    BY <1>1, <2>1, RequestFields
  <2> QED
    BY <1>2, <1>i, <2>2, QueueTypes, AppendGrows
<1>5. TypeOK'
  BY <1>2, <1>3, <1>4, <1>c, <1>i, TypeParts, EmptyQueue
     DEF ClientTypeOK, CoreTypeOK, CoreSame, Ended, Outcomes
<1>6. Promises'
  BY <1>2, <1>3, <1>c, <1>i, RuntimeAssumption DEF Promises, Handled, CoreSame, Ended
<1>s. \A i \in Sent' : (i \in Sent /\ toCore'[i] = toCore[i]) \/ i = Len(toCore) + 1
  BY <1>4 DEF Grown, Sent
<1>7. Requested'
  <2>1. \A i \in Sent : toCore[i].type # "DISPOSE" /\ toCore[i].id # None
    <3> TAKE i \in Sent
    <3>1. toCore[i] \in Requests
      BY <1>i, QueueTypes DEF Sent
    <3>2. toCore[i].type \in RequestTypes
      BY <3>1 DEF Requests
    <3> QED
      BY <1>2, <1>i, <3>2, RuntimeAssumption DEF Requested, RequestTypes
  <2>2. \A i, j \in Sent' : toCore'[i].type # "DISPOSE" /\ toCore'[i].id = toCore'[j].id => i = j
    BY <1>4, <1>i, <1>s, <2>1 DEF Requested, Grown
  <2>3. /\ \A q \in Starts : ~Handled(q) => busy' # q /\ verdict'[q] = "none"
        /\ \A q \in Starts : outcome[q] \notin {"unused", "unposted"} => outcome'[q] \notin {"unused", "unposted"}
        /\ \A d \in Cancels : cancels[d] \in {"pending", "rejected"} => cancels'[d] \in {"pending", "rejected"}
    BY <1>3, <1>c DEF Handled, CoreSame, Ended
  <2>4. (busy # None => verdict[busy] = "none")'
    BY <1>c, <1>i DEF Requested, CoreSame
  <2>5. ASSUME NEW i \in Sent'
        PROVE  /\ toCore'[i].type = "START" =>
                    /\ toCore'[i].id \in Starts /\ toCore'[i].run \in Runs
                    /\ busy' # toCore'[i].id /\ verdict'[toCore'[i].id] = "none"
                    /\ outcome'[toCore'[i].id] \notin {"unused", "unposted"}
               /\ toCore'[i].type = "CANCEL" =>
                    toCore'[i].id \in Cancels /\ cancels'[toCore'[i].id] \in {"pending", "rejected"}
               /\ toCore'[i].type = "DISPOSE" => toCore'[i].id = None
    <3>1. CASE i = Len(toCore) + 1
      BY <1>4, <3>1 DEF Grown
    <3>2. CASE i \in Sent /\ toCore'[i] = toCore[i]
      BY <1>i, <2>3, <3>2 DEF Requested
    <3> QED
      BY <1>s, <3>1, <3>2
  <2> QED
    BY <1>2, <2>2, <2>4, <2>5 DEF Requested, Handled
<1>8. Answers'
  BY <1>2 DEF Answers, Posted
<1>9. ToldAgrees'
  <2>1. \A q \in Starts, b \in Int : Told(q, b)' => Told(q, b)
    BY <1>2, <1>3 DEF Told, Ended, Posted
  <2>2. \A d \in Cancels : cancels'[d] = "acked" => cancels[d] = "acked"
    BY <1>3 DEF Ended
  <2> QED
    BY <1>2, <1>c, <1>i, <2>1, <2>2 DEF ToldAgrees, Handled, CoreSame
<1>10. CancelsPending' /\ CancelAnnounced' /\ InOrder'
  BY <1>2, <1>3 DEF CancelsPending, CancelAnnounced, InOrder, Ended
<1>11. OutcomeIsVerdict'
  BY <1>2, <1>3, <1>c, <1>i DEF OutcomeIsVerdict, Terminals, CoreSame, Ended
<1> QED
  BY <1>5, <1>6, <1>7, <1>8, <1>9, <1>10, <1>11 DEF IInv

LEMMA FailureOK ==
  ASSUME IInv, Failure
  PROVE  IInv'
<1>i. /\ TypeOK /\ Promises /\ Requested /\ Answers /\ ToldAgrees
      /\ CancelsPending /\ CancelAnnounced /\ InOrder /\ OutcomeIsVerdict
  BY DEF IInv
<1>2. /\ ~disposed /\ disposed' = disposed /\ toClient' = toClient /\ toCore' = toCore
      /\ lastSequence' = lastSequence /\ progressSeen' = progressSeen
      /\ runOf' = runOf /\ ackOf' = ackOf /\ ackAt' = ackAt /\ endAt' = endAt
  BY DEF Failure
<1>c. CoreSame
  BY DEF Failure, CoreSame, coreVars
<1>3. Ended("broken")
  BY <1>i, RejectAllEnds DEF Failure, Outcomes
<1>4. failures' \in 1..MaxFailures
  BY <1>i, RuntimeAssumption DEF Failure, TypeOK
<1>5. TypeOK'
  BY <1>2, <1>3, <1>4, <1>c, <1>i, TypeParts
     DEF ClientTypeOK, CoreTypeOK, CoreSame, Ended, Outcomes
<1>6. Promises'
  BY <1>2, <1>3, <1>c, <1>i, RuntimeAssumption DEF Promises, Handled, CoreSame, Ended
<1>7. Requested'
  BY <1>2, <1>3, <1>c, <1>i DEF Requested, Handled, CoreSame, Ended, Sent
<1>8. Answers'
  BY <1>2, <1>3, <1>c, <1>i DEF Answers, Handled, CoreSame, Ended, Sent, Posted
<1>9. ToldAgrees'
  <2>1. \A q \in Starts, b \in Int : Told(q, b)' => Told(q, b)
    BY <1>2, <1>3 DEF Told, AckOf, EndOf, Ended, Posted
  <2>2. \A d \in Cancels : cancels'[d] = "acked" => cancels[d] = "acked"
    BY <1>3 DEF Ended
  <2> QED
    BY <1>2, <1>c, <1>i, <2>1, <2>2 DEF ToldAgrees, Handled, CoreSame
<1>10. CancelsPending' /\ CancelAnnounced' /\ InOrder' /\ OutcomeIsVerdict'
  BY <1>3, <1>4 DEF CancelsPending, CancelAnnounced, InOrder, OutcomeIsVerdict, Ended
<1> QED
  BY <1>5, <1>6, <1>7, <1>8, <1>9, <1>10 DEF IInv
-----------------------------------------------------------------------------
(* Receive.  The message is toClient[1]. *)

Received ==
  /\ ~disposed /\ disposed' = disposed /\ failures' = failures /\ runOf' = runOf /\ toCore' = toCore
  /\ CoreSame
  /\ toClient' \in Seq(Events)
  /\ Len(toClient) \in Nat \ {0} /\ 1 \in Posted /\ toClient[1] \in Events
  /\ \A i \in Posted' : i + 1 \in Posted /\ toClient'[i] = toClient[i + 1]
  /\ \A i \in Posted : i = 1 \/ (i - 1 \in Posted' /\ toClient'[i - 1] = toClient[i])

LEMMA ReceiveFacts ==
  ASSUME TypeOK, Receive
  PROVE  Received /\ Head(toClient) = toClient[1]
<1>1. /\ ~disposed /\ disposed' = disposed /\ failures' = failures /\ runOf' = runOf /\ toCore' = toCore
      /\ toClient # <<>> /\ toClient' = Tail(toClient)
  BY DEF Receive
<1>2. CoreSame
  BY DEF Receive, CoreSame, coreVars
<1>3. toClient' \in Seq(Events) /\ Shrunk(toClient, toClient') /\ Head(toClient) \in Events
  BY <1>1, QueueTypes, TailShrinks
<1>4. \A i \in Posted' : i + 1 \in Posted /\ toClient'[i] = toClient[i + 1]
  BY <1>3 DEF Shrunk, Posted
<1>5. \A i \in Posted : i = 1 \/ (i - 1 \in Posted' /\ toClient'[i - 1] = toClient[i])
  <2> TAKE i \in Posted
  <2>1. CASE i # 1
    <3>1. i - 1 \in 1..Len(toClient') /\ (i - 1) + 1 = i
      BY <1>3, <2>1 DEF Shrunk, Posted
    <3> QED
      BY <1>3, <3>1 DEF Shrunk, Posted
  <2> QED
    BY <2>1
<1> QED
  BY <1>1, <1>2, <1>3, <1>4, <1>5 DEF Received, Shrunk, Posted

\* A message that leaves the queue takes nothing told with it if the client notes what it told.
LEMMA StillTold ==
  ASSUME IInv, Received,
         \A d \in Cancels : cancels'[d] = "acked" /\ cancels[d] # "acked" =>
           AckOf(ackOf'[d], 1) /\ ackAt'[d] = toClient[1].boundary,
         \A d \in Cancels : cancels[d] = "acked" =>
           cancels'[d] = "acked" /\ ackOf'[d] = ackOf[d] /\ ackAt'[d] = ackAt[d],
         \A q \in Starts : outcome'[q] = "cancelled" =>
           \/ outcome[q] = "cancelled" /\ endAt'[q] = endAt[q]
           \/ EndOf(q, 1) /\ endAt'[q] = toClient[1].boundary
  PROVE  ToldAgrees'
<1>i. ToldAgrees /\ Answers /\ TypeOK
  BY DEF IInv
<1>1. \A q \in Starts, b \in Int : Told(q, b)' => Told(q, b)
  <2>1. ASSUME NEW q \in Starts, NEW b \in Int, Told(q, b)'
        PROVE  Told(q, b)
    <3>1. CASE \E i \in Posted' : toClient'[i].boundary = b /\ (AckOf(q, i)' \/ EndOf(q, i)')
      BY <3>1 DEF Received, Told, AckOf, EndOf
    <3>2. CASE \E d \in Cancels : cancels'[d] = "acked" /\ ackOf'[d] = q /\ ackAt'[d] = b
      BY <3>2 DEF Received, Told
    <3>3. CASE outcome'[q] = "cancelled" /\ endAt'[q] = b
      BY <3>3 DEF Received, Told
    <3> QED
      BY <2>1, <3>1, <3>2, <3>3 DEF Told
  <2> QED
    BY <2>1
<1>2. \A d \in Cancels : cancels'[d] = "acked" => ackOf'[d] \in Starts
  BY <1>i DEF ToldAgrees, Answers, AckOf, Received
<1> QED
  BY <1>1, <1>2, <1>i DEF ToldAgrees, Handled, Received, CoreSame

\* Of a run without error events, what follows its terminal event is not about a call.
LEMMA TerminalIsLast ==
  ASSUME IInv, ~disposed, failures = 0, 1 \in Posted, active # None,
         toClient[1].type \in Terminals, toClient[1].id = active
  PROVE  /\ verdict[active] = toClient[1].type /\ busy = None
         /\ \A i \in Sent : toCore[i].type # "START"
         /\ \A i \in Posted : i > 1 => toClient[i].call = None
<1>i. TypeOK /\ Requested /\ Answers /\ InOrder
  BY DEF IInv
<1>1. active \in Starts
  BY <1>i DEF TypeOK
<1>2. toClient[1].type # "acknowledged" /\ "none" \notin Terminals
  BY DEF Terminals
<1>3. verdict[active] = toClient[1].type /\ toClient[1].call = active
  BY <1>1, <1>2, <1>i DEF Answers
<1>4. busy = None
  BY <1>2, <1>3, <1>i DEF Requested, InOrder
<1>5. \A i \in Sent : toCore[i].type # "START"
  BY <1>2, <1>3, <1>i DEF Requested, InOrder, Handled
<1>6. ASSUME NEW i \in Posted, i > 1
      PROVE  toClient[i].call = None
  BY <1>3, <1>6, <1>i DEF InOrder
<1> QED
  BY <1>3, <1>4, <1>5, <1>6

\* The active call ends, by its terminal event or by a broken rule.
LEMMA EndsOK ==
  ASSUME IInv, Received, active # None, NEW v \in Terminals, Ended(v),
         lastSequence' \in Int, lastSequence' >= -1, progressSeen' = progressSeen,
         ackOf' = ackOf, ackAt' = ackAt, endAt' \in [Starts -> -1..MaxBoundary],
         \A q \in Starts : q # active => endAt'[q] = endAt[q],
         v = "result" => verdict[active] = "result",
         v = "cancelled" => EndOf(active, 1) /\ endAt'[active] = toClient[1].boundary,
         failures = 0 => toClient[1].type = v /\ toClient[1].id = active
  PROVE  IInv'
<1>i. /\ TypeOK /\ Promises /\ Requested /\ Answers /\ ToldAgrees
      /\ CancelsPending /\ CancelAnnounced /\ InOrder /\ OutcomeIsVerdict
  BY DEF IInv
<1>1. v \in Outcomes /\ v \notin {"unused", "pending", "unposted"} /\ active \in Starts
  BY <1>i DEF Terminals, Outcomes, TypeOK
<1>2. TypeOK'
  BY <1>1, <1>i, TypeParts DEF Received, ClientTypeOK, CoreTypeOK, CoreSame, Ended, Outcomes
<1>3. Promises'
  BY <1>1, <1>i, RuntimeAssumption DEF Received, Promises, Handled, CoreSame, Ended
<1>4. Requested'
  BY <1>1, <1>i DEF Received, Requested, Handled, CoreSame, Ended, Sent
<1>5. Answers'
  <2>1. \A d \in Cancels : cancels[d] \in {"pending", "rejected"} => cancels'[d] \in {"pending", "rejected"}
    BY DEF Ended
  <2>2. \A i, j \in Posted' :
          toClient'[i].type = "acknowledged" /\ toClient'[j].type = "acknowledged"
            /\ toClient'[i].id = toClient'[j].id => i = j
    BY <1>i DEF Received, Answers, Posted
  <2>3. ASSUME NEW i \in Posted, toClient[i].type = "acknowledged"
        PROVE  /\ toClient[i].id \in Cancels /\ toClient[i].call \in Starts
               /\ cancels'[toClient[i].id] \in {"pending", "rejected"}
               /\ \A j \in Sent : toCore[j].id # toClient[i].id
    BY <1>i, <2>1, <2>3 DEF Answers
  <2> QED
    BY <1>i, <2>2, <2>3 DEF Received, Answers, Handled, CoreSame, Sent
<1>6. ToldAgrees'
  BY <1>1, StillTold DEF Ended
<1>7. CancelsPending' /\ CancelAnnounced'
  BY DEF CancelsPending, CancelAnnounced, Ended
<1>8. InOrder' /\ OutcomeIsVerdict'
  <2>1. CASE failures = 0
    <3>1. /\ verdict[active] = v /\ busy = None
          /\ \A i \in Sent : toCore[i].type # "START"
          /\ \A i \in Posted : i > 1 => toClient[i].call = None
      BY <2>1, TerminalIsLast DEF Received
    <3>2. \A i \in Posted' : toClient'[i].call = None
      BY <3>1 DEF Received, Posted
    <3>3. OutcomeIsVerdict'
      BY <1>i, <2>1, <3>1 DEF OutcomeIsVerdict, Ended, Received, CoreSame
    <3> QED
      BY <3>1, <3>2, <3>3 DEF InOrder, Received, CoreSame, Sent
  <2>2. CASE failures # 0
    BY <2>2 DEF InOrder, OutcomeIsVerdict, Received
  <2> QED
    BY <2>1, <2>2
<1> QED
  BY <1>2, <1>3, <1>4, <1>5, <1>6, <1>7, <1>8 DEF IInv

\* The active call goes on; the message may end the wait for one cancel.
LEMMA GoesOnOK ==
  ASSUME IInv, Received, active' = active, outcome' = outcome, endAt' = endAt,
         lastSequence' \in Int, lastSequence' >= -1, progressSeen' \in 0..MaxProgress,
         cancels' \in [Cancels -> {"unused", "pending", "acked", "rejected"}],
         ackOf' \in [Cancels -> Starts \cup {None}], ackAt' \in [Cancels -> -1..MaxBoundary],
         \A d \in Cancels : cancels'[d] # cancels[d] =>
           /\ cancels[d] = "pending" /\ cancels'[d] = "acked" /\ toClient[1].id = d
           /\ AckOf(ackOf'[d], 1) /\ ackAt'[d] = toClient[1].boundary,
         \A d \in Cancels : cancels[d] = "acked" => ackOf'[d] = ackOf[d] /\ ackAt'[d] = ackAt[d],
         active # None /\ AckOf(active, 1) => Acked(active)',
         failures = 0 /\ ~(lastSequence' = lastSequence /\ progressSeen' = progressSeen) =>
           /\ active # None /\ toClient[1].call = active /\ lastSequence' = toClient[1].sequence
           /\ \/ progressSeen' = progressSeen
              \/ toClient[1].type = "progress" /\ progressSeen' = toClient[1].progress
  PROVE  IInv'
<1>i. /\ TypeOK /\ Promises /\ Requested /\ Answers /\ ToldAgrees
      /\ CancelsPending /\ CancelAnnounced /\ InOrder /\ OutcomeIsVerdict
  BY DEF IInv
<1>1. active \in Starts \cup {None}
  BY <1>i DEF TypeOK
<1>2. TypeOK'
  BY <1>i, TypeParts DEF Received, ClientTypeOK, CoreTypeOK, CoreSame
<1>3. Promises'
  BY <1>i DEF Received, Promises, Handled, CoreSame
<1>4. \A d \in Cancels : toClient[1].id # d \/ toClient[1].type # "acknowledged" => cancels'[d] = cancels[d]
  BY DEF AckOf
<1>5. Requested'
  <2>1. ASSUME NEW i \in Sent, toCore[i].type = "CANCEL"
        PROVE  toCore[i].id \in Cancels /\ cancels'[toCore[i].id] \in {"pending", "rejected"}
    <3>1. toCore[i].id \in Cancels /\ cancels[toCore[i].id] \in {"pending", "rejected"}
      BY <1>i, <2>1 DEF Requested
    <3>2. toClient[1].type = "acknowledged" => toClient[1].id # toCore[i].id
      BY <1>i DEF Answers, Received
    <3> QED
      BY <1>4, <3>1, <3>2
  <2> QED
    BY <1>i, <2>1 DEF Requested, Received, Handled, CoreSame, Sent
<1>6. \A i \in Posted : i > 1 /\ toClient[i].type = "acknowledged" =>
        toClient[i].id \in Cancels /\ cancels'[toClient[i].id] = cancels[toClient[i].id]
  <2>1. ASSUME NEW i \in Posted, i > 1, toClient[i].type = "acknowledged", toClient[1].type = "acknowledged"
        PROVE  toClient[1].id # toClient[i].id
    BY <1>i, <2>1 DEF Answers, Received, Posted
  <2>2. \A i \in Posted : toClient[i].type = "acknowledged" => toClient[i].id \in Cancels
    BY <1>i DEF Answers
  <2> QED
    BY <1>4, <2>1, <2>2
<1>7. Answers'
  <2>2. ASSUME NEW i \in Posted', NEW j \in Posted',
               toClient'[i].type = "acknowledged", toClient'[j].type = "acknowledged",
               toClient'[i].id = toClient'[j].id
        PROVE  i = j
    <3>1. i \in Int /\ j \in Int
      BY DEF Posted
    <3>2. i + 1 = j + 1
      BY <1>i, <2>2 DEF Received, Answers
    <3> QED
      BY <3>1, <3>2
  <2>3. ASSUME NEW i \in Posted, i > 1, toClient[i].type = "acknowledged"
        PROVE  /\ toClient[i].id \in Cancels /\ toClient[i].call \in Starts
               /\ cancels'[toClient[i].id] \in {"pending", "rejected"}
               /\ \A j \in Sent : toCore[j].id # toClient[i].id
    BY <1>6, <1>i, <2>3 DEF Answers
  <2>4. \A i \in Posted' : i + 1 > 1
    BY DEF Posted
  <2> QED
    BY <1>i, <2>2, <2>3, <2>4 DEF Received, Answers, Handled, CoreSame, Sent
<1>8. ToldAgrees'
  BY StillTold
<1>9. CancelsPending'
  <2>1. ASSUME NEW j \in Sent, toCore[j].type = "CANCEL"
        PROVE  cancels'[toCore[j].id] = cancels[toCore[j].id]
    BY <1>4, <1>i, <2>1 DEF Requested, Answers, Received
  <2>2. \A i \in Posted : i > 1 /\ AckOf(active, i) => cancels'[toClient[i].id] = cancels[toClient[i].id]
    BY <1>6 DEF AckOf
  <2>3. \A i \in Posted' : active # None /\ AckOf(active, i)' => cancels'[toClient'[i].id] = "pending"
    BY <1>i, <2>2 DEF CancelsPending, AckOf, Received, Posted
  <2> QED
    BY <1>i, <2>1, <2>3 DEF CancelsPending, Received, StartOf, Sent
<1>10. CancelAnnounced'
  <2>1. Acked(active) => Acked(active)'
    BY DEF Acked
  <2>2. ASSUME active # None, NEW i \in Posted, AckOf(active, i)
        PROVE  Acked(active)' \/ (i - 1 \in Posted' /\ AckOf(active, i - 1)')
    BY <2>2 DEF Received, AckOf
  <2>3. active # None /\ busy = active /\ cancelRequested =>
          Acked(active)' \/ \E i \in Posted' : AckOf(active, i)'
    BY <1>i, <2>1, <2>2 DEF CancelAnnounced
  <2>4. ASSUME active # None, NEW j \in Posted', EndOf(active, j)'
        PROVE  Acked(active)' \/ \E i \in Posted' : i < j /\ AckOf(active, i)'
    <3>1. j \in Nat /\ j + 1 \in Posted /\ EndOf(active, j + 1)
      BY <2>4 DEF Received, EndOf, Posted
    <3>2. CASE Acked(active)
      BY <2>1, <3>2
    <3>3. CASE \E i \in Posted : i < j + 1 /\ AckOf(active, i)
      <4>1. PICK i \in Posted : i < j + 1 /\ AckOf(active, i)
        BY <3>3
      <4>2. i \in Nat /\ i - 1 < j
        BY <3>1, <4>1 DEF Posted
      <4> QED
        BY <2>2, <2>4, <4>1, <4>2
    <3> QED
      BY <1>i, <2>4, <3>1, <3>2, <3>3 DEF CancelAnnounced
  <2> QED
    BY <2>3, <2>4 DEF CancelAnnounced, Received, CoreSame, Acked, AckOf, EndOf
<1>11. InOrder'
  <2> DEFINE moved == ~(lastSequence' = lastSequence /\ progressSeen' = progressSeen)
  <2> SUFFICES ASSUME failures = 0
               PROVE  InOrder'
    BY DEF InOrder, Received
  <2>0. ~disposed /\ toClient[1].sequence \in Int /\ sequence \in Int /\ progressSequence \in Int
        /\ lastSequence \in Int /\ progressSeen \in Int
    BY <1>i DEF Received, Events, TypeOK
  <2>1. moved => /\ toClient[1].call = active /\ active # None /\ Handled(active)
                 /\ lastSequence' = toClient[1].sequence
    BY <1>i DEF Answers, Received
  <2>2. busy # None => /\ busy = active
                       /\ lastSequence' <= sequence /\ progressSeen' <= progressSequence
    BY <1>i, <2>0, <2>1 DEF InOrder, Received
  <2>3. ASSUME NEW i \in Sent, toCore[i].type = "START"
        PROVE  toCore[i].id = active /\ lastSequence' = -1 /\ progressSeen' = 0
    BY <1>i, <2>0, <2>1, <2>3 DEF Requested, InOrder
  <2>4. ASSUME NEW i \in Posted, i > 1, toClient[i].call # None
        PROVE  /\ toClient[i].call = active
               /\ \/ toClient[i].sequence > lastSequence'
                  \/ toClient[i].type = "failed" /\ toClient[i].sequence = NoSequence
               /\ busy # None => toClient[i].sequence <= sequence
               /\ toClient[i].type = "progress" =>
                    /\ toClient[i].progress > progressSeen'
                    /\ busy # None => toClient[i].progress <= progressSequence
    <3>1. toClient[i] \in Events
      BY <1>i, QueueTypes DEF Posted
    <3>2. toClient[i].sequence \in Int
      BY <3>1 DEF Events
    <3>3. moved => toClient[1].sequence < toClient[i].sequence
      BY <1>i, <2>0, <2>1, <2>4 DEF InOrder, Received
    <3>4. moved => toClient[i].sequence > lastSequence'
      BY <2>0, <2>1, <3>2, <3>3
    <3>5. toClient[i].type = "progress" => toClient[i].progress > progressSeen'
      BY <1>i, <2>0, <2>1, <2>4 DEF InOrder, Received
    <3> QED
      BY <1>i, <2>0, <2>4, <3>4, <3>5 DEF InOrder
  <2>5. \A i \in Posted' : i \in Int /\ i + 1 > 1 /\ i + 1 \in Posted
    BY DEF Received, Posted
  <2>6. ASSUME NEW i \in Posted', NEW j \in Posted', i < j,
               toClient'[i].call # None, toClient'[j].call # None
        PROVE  /\ toClient'[i].type \notin Terminals
               /\ toClient'[i].sequence < toClient'[j].sequence
               /\ toClient'[i].type = "progress" /\ toClient'[j].type = "progress" =>
                    toClient'[i].progress < toClient'[j].progress
    <3>1. i + 1 < j + 1
      BY <2>5, <2>6
    <3>2. toClient'[i] = toClient[i + 1] /\ toClient'[j] = toClient[j + 1]
      BY DEF Received
    <3>3. /\ toClient[i + 1].type \notin Terminals
          /\ toClient[i + 1].sequence < toClient[j + 1].sequence
          /\ toClient[i + 1].type = "progress" /\ toClient[j + 1].type = "progress" =>
               toClient[i + 1].progress < toClient[j + 1].progress
      BY <1>i, <2>0, <2>5, <2>6, <3>1, <3>2 DEF InOrder
    <3> QED
      BY <3>2, <3>3
  <2>7. \A i \in Sent' : i \in Sent /\ toCore' = toCore
    BY DEF Received, Sent
  <2>8. \A i \in Posted' : toClient'[i] = toClient[i + 1]
    BY DEF Received
  <2>9. active' = active /\ busy' = busy /\ sequence' = sequence /\ progressSequence' = progressSequence
    BY DEF Received, CoreSame
  <2> HIDE DEF moved
  <2> QED
    BY <2>2, <2>3, <2>4, <2>5, <2>6, <2>7, <2>8, <2>9 DEF InOrder
<1>12. OutcomeIsVerdict'
  BY <1>i DEF OutcomeIsVerdict, Received, CoreSame
<1> QED
  BY <1>2, <1>3, <1>5, <1>7, <1>8, <1>9, <1>10, <1>11, <1>12 DEF IInv

LEMMA ReceiveOK ==
  ASSUME IInv, Receive
  PROVE  IInv'
<1> DEFINE m == toClient[1]
<1>i. /\ TypeOK /\ Promises /\ Requested /\ Answers /\ ToldAgrees
      /\ CancelsPending /\ CancelAnnounced /\ InOrder /\ OutcomeIsVerdict
  BY DEF IInv
<1>1. Received /\ Head(toClient) = m
  BY <1>i, ReceiveFacts
<1>2. /\ m \in Events /\ 1 \in Posted
      /\ m.type \in EventTypes /\ m.id \in Ids /\ m.sequence \in Int
      /\ m.progress \in 0..MaxProgress /\ m.boundary \in 0..MaxBoundary
  BY <1>1 DEF Received, Events
<1>3. /\ active \in Starts \cup {None} /\ lastSequence \in Int /\ lastSequence >= -1
      /\ progressSeen \in 0..MaxProgress
      /\ cancels \in [Cancels -> {"unused", "pending", "acked", "rejected"}]
      /\ ackOf \in [Cancels -> Starts \cup {None}]
      /\ ackAt \in [Cancels -> -1..MaxBoundary] /\ endAt \in [Starts -> -1..MaxBoundary]
  BY <1>i DEF TypeOK, Promises
<1>4. "failed" \in Terminals /\ Terminals \subseteq Outcomes
  BY DEF Terminals, Outcomes
<1> HIDE DEF m
\* The rules the message breaks are not broken while the worker raises no error.
<1>5. failures = 0 /\ m.call # None =>
        /\ m.call = active
        /\ m.sequence > lastSequence \/ (m.type = "failed" /\ m.sequence = NoSequence)
        /\ m.type = "progress" => m.progress > progressSeen
  BY <1>1, <1>2, <1>i DEF InOrder, Received, m
<1>6. ASSUME m.type = "acknowledged", OnAcknowledged(m)
      PROVE  IInv'
  <2>1. /\ m.id \in Cancels /\ m.call \in Starts /\ m.call # None
        /\ active # None /\ m.call = active => cancels[m.id] = "pending"
    BY <1>2, <1>6, <1>i, RuntimeAssumption DEF Answers, CancelsPending, AckOf, m
  <2>2. CASE active # None /\ ~Fresh(m)
    <3>1. Ended("failed") /\ failures # 0
      BY <1>4, <1>5, <1>6, <1>i, <2>1, <2>2, FinishRunEnds DEF OnAcknowledged, Fresh
    <3>2. /\ lastSequence' = lastSequence /\ progressSeen' = progressSeen
          /\ ackOf' = ackOf /\ ackAt' = ackAt /\ endAt' = endAt
      BY <1>6, <2>2 DEF OnAcknowledged
    <3> QED
      BY <1>1, <1>3, <1>4, <2>2, <3>1, <3>2, EndsOK
  <2>3. CASE ~(active # None /\ ~Fresh(m))
    <3>1. /\ active' = active /\ outcome' = outcome /\ endAt' = endAt /\ progressSeen' = progressSeen
          /\ lastSequence' = IF active = None THEN lastSequence ELSE m.sequence
      BY <1>6, <2>3 DEF OnAcknowledged
    <3>2. lastSequence' \in Int /\ lastSequence' >= -1
      BY <1>2, <1>3, <2>3, <3>1 DEF Fresh
    <3>3. failures = 0 => active # None /\ m.call = active
      BY <1>5, <2>1, <1>3, RuntimeAssumption
    <3>4. CASE cancels[m.id] = "pending"
      <4>1. /\ cancels' = [cancels EXCEPT ![m.id] = "acked"]
            /\ ackOf' = [ackOf EXCEPT ![m.id] = m.call] /\ ackAt' = [ackAt EXCEPT ![m.id] = m.boundary]
        BY <1>6, <2>3, <3>4 DEF OnAcknowledged
      <4>2. /\ cancels' \in [Cancels -> {"unused", "pending", "acked", "rejected"}]
            /\ ackOf' \in [Cancels -> Starts \cup {None}] /\ ackAt' \in [Cancels -> -1..MaxBoundary]
        BY <1>2, <1>3, <2>1, <4>1, RuntimeAssumption
      <4>3. cancels'[m.id] = "acked" /\ ackOf'[m.id] = m.call /\ ackAt'[m.id] = m.boundary
        BY <1>3, <2>1, <4>1
      <4>4. \A d \in Cancels : d # m.id =>
              cancels'[d] = cancels[d] /\ ackOf'[d] = ackOf[d] /\ ackAt'[d] = ackAt[d]
        BY <1>3, <2>1, <4>1
      <4>5. \A d \in Cancels : cancels'[d] # cancels[d] =>
              /\ cancels[d] = "pending" /\ cancels'[d] = "acked" /\ toClient[1].id = d
              /\ AckOf(ackOf'[d], 1) /\ ackAt'[d] = toClient[1].boundary
        BY <1>6, <3>4, <4>3, <4>4 DEF AckOf, m
      <4>6. \A d \in Cancels : cancels[d] = "acked" => ackOf'[d] = ackOf[d] /\ ackAt'[d] = ackAt[d]
        BY <3>4, <4>4
      <4>7. AckOf(active, 1) => Acked(active)'
        BY <2>1, <3>1, <4>3 DEF AckOf, Acked, m
      <4>8. failures = 0 => lastSequence' = toClient[1].sequence /\ toClient[1].call = active
        BY <3>1, <3>3 DEF m
      <4> QED
        BY <1>1, <1>3, <3>1, <3>2, <3>3, <4>2, <4>5, <4>6, <4>7, <4>8, GoesOnOK
    <3>5. CASE cancels[m.id] # "pending"
      <4>1. cancels' = cancels /\ ackOf' = ackOf /\ ackAt' = ackAt
        BY <1>6, <2>3, <3>5 DEF OnAcknowledged
      <4>2. active # None => ~AckOf(active, 1)
        BY <2>1, <3>5 DEF AckOf, m
      <4>3. failures = 0 => lastSequence' = toClient[1].sequence /\ toClient[1].call = active
        BY <3>1, <3>3 DEF m
      <4> QED
        BY <1>1, <1>3, <3>1, <3>2, <3>3, <4>1, <4>2, <4>3, GoesOnOK
    <3> QED
      BY <3>4, <3>5
  <2> QED
    BY <2>2, <2>3
<1>7. ASSUME m.type # "acknowledged", Concerns(m), OnRunEvent(m)
      PROVE  IInv'
  <2>1. /\ active # None /\ active \in Starts /\ m.id = active /\ m.call = active
        /\ m.type \in Terminals => verdict[active] = m.type
    BY <1>2, <1>3, <1>7, <1>i DEF Answers, Concerns, m
  <2>2. ASSUME m.sequence = NoSequence \/ ~Fresh(m), FinishRun("failed"),
               UNCHANGED <<lastSequence, progressSeen, ackOf, ackAt, endAt>>
        PROVE  IInv'
    <3>1. failures = 0 => m.type = "failed"
      BY <1>3, <1>5, <2>1, <2>2 DEF Fresh, NoSequence
    <3>2. Ended("failed")
      BY <1>4, <1>i, <2>1, <2>2, FinishRunEnds
    <3> QED
      BY <1>1, <1>3, <1>4, <2>1, <2>2, <3>1, <3>2, EndsOK DEF m
  <2>3. ASSUME Fresh(m), m.type = "progress", m.progress <= progressSeen, FinishRun("failed"),
               lastSequence' = m.sequence, UNCHANGED <<progressSeen, ackOf, ackAt, endAt>>
        PROVE  IInv'
    <3>1. failures # 0
      BY <1>2, <1>3, <1>5, <2>1, <2>3
    <3>2. Ended("failed")
      BY <1>4, <1>i, <2>1, <2>3, FinishRunEnds
    <3>3. lastSequence' \in Int /\ lastSequence' >= -1
      BY <1>2, <1>3, <2>3 DEF Fresh
    <3> QED
      BY <1>1, <1>3, <1>4, <2>1, <2>3, <3>1, <3>2, <3>3, EndsOK
  <2>4. ASSUME Fresh(m), m.type = "accepted" \/ (m.type = "progress" /\ m.progress > progressSeen),
               lastSequence' = m.sequence,
               progressSeen' = IF m.type = "progress" THEN m.progress ELSE progressSeen,
               UNCHANGED <<active, outcome, cancels, ackOf, ackAt, endAt>>
        PROVE  IInv'
    <3>1. lastSequence' \in Int /\ lastSequence' >= -1 /\ progressSeen' \in 0..MaxProgress
      BY <1>2, <1>3, <2>4 DEF Fresh
    <3>2. ~AckOf(active, 1)
      BY <1>7 DEF AckOf, m
    <3>3. /\ toClient[1].call = active /\ lastSequence' = toClient[1].sequence
          /\ \/ progressSeen' = progressSeen
             \/ toClient[1].type = "progress" /\ progressSeen' = toClient[1].progress
      BY <2>1, <2>4 DEF m
    <3>4. /\ active' = active /\ outcome' = outcome /\ cancels' = cancels
          /\ ackOf' = ackOf /\ ackAt' = ackAt /\ endAt' = endAt
      BY <2>4
    <3> QED
      BY <1>1, <1>3, <2>1, <3>1, <3>2, <3>3, <3>4, GoesOnOK
  <2>5. ASSUME Fresh(m), m.type \in Terminals, FinishRun(m.type), lastSequence' = m.sequence,
               endAt' = [endAt EXCEPT ![active] = IF m.type = "cancelled" THEN m.boundary ELSE -1],
               UNCHANGED <<progressSeen, ackOf, ackAt>>
        PROVE  IInv'
    <3>1. Ended(m.type)
      BY <1>4, <1>i, <2>1, <2>5, FinishRunEnds
    <3>2. lastSequence' \in Int /\ lastSequence' >= -1
      BY <1>2, <1>3, <2>5 DEF Fresh
    <3>3. /\ endAt' \in [Starts -> -1..MaxBoundary]
          /\ \A q \in Starts : q # active => endAt'[q] = endAt[q]
          /\ m.type = "cancelled" => endAt'[active] = m.boundary
      BY <1>2, <1>3, <2>1, <2>5, RuntimeAssumption
    <3>4. m.type = "cancelled" => EndOf(active, 1) /\ endAt'[active] = toClient[1].boundary
      BY <2>1, <3>3 DEF EndOf, m
    <3>5. toClient[1].type = m.type /\ toClient[1].id = active
      BY <2>1 DEF m
    <3> QED
      BY <1>1, <1>3, <2>1, <2>5, <3>1, <3>2, <3>3, <3>4, <3>5, EndsOK
  <2> QED
    BY <1>7, <2>2, <2>3, <2>4, <2>5 DEF OnRunEvent
<1>8. ASSUME m.type # "acknowledged",
             UNCHANGED <<active, lastSequence, progressSeen, outcome, cancels, ackOf, ackAt, endAt>>
      PROVE  IInv'
  <2>1. /\ active' = active /\ lastSequence' = lastSequence /\ progressSeen' = progressSeen
        /\ outcome' = outcome /\ cancels' = cancels
        /\ ackOf' = ackOf /\ ackAt' = ackAt /\ endAt' = endAt
    BY <1>8
  <2>2. ~AckOf(active, 1)
    BY <1>8 DEF AckOf, m
  <2> QED
    BY <1>1, <1>3, <2>1, <2>2, GoesOnOK
<1> QED
  BY <1>1, <1>6, <1>7, <1>8 DEF Receive
-----------------------------------------------------------------------------
(* Steps of the core.  The request it handles is toCore[1]. *)

ClientSame ==
  /\ active' = active /\ lastSequence' = lastSequence /\ progressSeen' = progressSeen
  /\ outcome' = outcome /\ runOf' = runOf /\ cancels' = cancels /\ ackOf' = ackOf /\ ackAt' = ackAt
  /\ endAt' = endAt /\ disposed' = disposed /\ failures' = failures

\* The first d requests are gone.
Drops(d) ==
  /\ toCore' \in Seq(Requests)
  /\ \A i \in Sent' : i + d \in Sent /\ toCore'[i] = toCore[i + d]
  /\ \A i \in Sent : i > d => i - d \in Sent'

\* m is behind what was posted, unless the client is disposed.
Posts(m) ==
  /\ toClient' \in Seq(Events)
  /\ disposed => toClient' = <<>>
  /\ ~disposed =>
       /\ \A i \in Posted : i \in Posted' /\ toClient'[i] = toClient[i] /\ i < Len(toClient) + 1
       /\ Len(toClient) + 1 \in Posted' /\ toClient'[Len(toClient) + 1] = m
       /\ \A i \in Posted' : i \in Posted \/ i = Len(toClient) + 1

LEMMA PostPosts ==
  ASSUME IInv, NEW m \in Events, Post(m)
  PROVE  Posts(m)
<1>1. toClient \in Seq(Events) /\ disposed \in BOOLEAN
  BY QueueTypes DEF IInv, TypeOK
<1>2. /\ toClient' \in Seq(Events)
      /\ disposed => toClient' = <<>>
      /\ ~disposed => Grown(toClient, toClient', m)
  BY <1>1, PostOK
<1> QED
  BY <1>2 DEF Posts, Grown, Posted

LEMMA TakeDrops ==
  ASSUME IInv, NEW type, Take(type)
  PROVE  /\ Drops(1) /\ 1 \in Sent /\ Head(toCore) = toCore[1]
         /\ toCore[1] \in Requests /\ toCore[1].type = type
         /\ \A i \in Sent' : i + 1 # 1
<1>1. toCore \in Seq(Requests)
  BY QueueTypes DEF IInv
<1>2. /\ toCore' \in Seq(Requests) /\ Shrunk(toCore, toCore')
      /\ Head(toCore) \in Requests /\ Head(toCore).type = type
  BY <1>1, TakeOK
<1>3. \A i \in Sent : i > 1 => i - 1 \in Sent'
  BY <1>2 DEF Shrunk, Sent
<1> QED
  BY <1>2, <1>3 DEF Drops, Shrunk, Sent

LEMMA NothingDrops ==
  ASSUME IInv, toCore' = toCore
  PROVE  Drops(0)
BY QueueTypes DEF IInv, Drops, Sent

\* What an answer or event of the core says is so.
Truthful(m) ==
  /\ m.type # "disposed"
  /\ m.call # None => Handled(m.call)'
  /\ m.type = "acknowledged" =>
       /\ 1 \in Sent /\ toCore[1].type = "CANCEL" /\ toCore[1].id = m.id
       /\ busy # None /\ m.call = busy /\ m.boundary = boundary
       /\ busy' = busy /\ cancelRequested' /\ boundary' = boundary
  /\ m.type # "acknowledged" /\ m.id \in Starts =>
       m.call = m.id /\ (m.type \in Terminals => verdict'[m.id] = m.type)
  /\ m.type # "acknowledged" /\ m.id \notin Starts => m.call = None /\ m.type = "failed"
  /\ m.type = "cancelled" /\ m.id \in Starts =>
       busy = m.id /\ busy' = None /\ cancelRequested /\ m.boundary = boundary

\* A run begins by its START only, a verdict stands, a cancelled run commits nothing.
RunStep(d) ==
  /\ \A q \in Starts : verdict[q] # "none" => verdict'[q] = verdict[q]
  /\ busy' # None => verdict'[busy'] = "none"
  /\ \A q \in Starts : Handled(q) => Handled(q)'
  /\ \A q \in Starts : Handled(q)' =>
       Handled(q) \/ (d = 1 /\ 1 \in Sent /\ toCore[1].type = "START" /\ toCore[1].id = q)
  /\ busy' # None => \/ busy' = busy
                     \/ ~Handled(busy') /\ ~cancelRequested'
  /\ busy' # None /\ busy' = busy /\ cancelRequested => cancelRequested' /\ boundary' = boundary
  /\ busy # None /\ cancelRequested => verdict'[busy] \in {"none", "cancelled"}

LEMMA CoreStepOK ==
  ASSUME IInv, ClientSame, CoreTypeOK', NEW d \in {0, 1}, Drops(d), d = 1 => 1 \in Sent,
         NEW m \in Events, Posts(m), Truthful(m), RunStep(d),
         m.type = "acknowledged" => d = 1,
         active # None /\ busy' = active /\ cancelRequested' =>
           busy = active /\ (cancelRequested \/ m.type = "acknowledged")
  PROVE  /\ TypeOK' /\ Promises' /\ Requested' /\ Answers' /\ ToldAgrees'
         /\ CancelsPending' /\ CancelAnnounced' /\ OutcomeIsVerdict'
<1>i. /\ TypeOK /\ Promises /\ Requested /\ Answers /\ ToldAgrees
      /\ CancelsPending /\ CancelAnnounced /\ OutcomeIsVerdict
  BY DEF IInv
<1> DEFINE new == Len(toClient) + 1
<1>n. "none" \notin Terminals
  BY DEF Terminals
<1>1. TypeOK'
  BY <1>i, TypeParts DEF Drops, Posts, ClientSame, ClientTypeOK
<1>t. /\ active \in Starts \cup {None} /\ busy \in Starts \cup {None} /\ busy' \in Starts \cup {None}
      /\ m.call \in Starts \cup {None} /\ m.boundary \in Int /\ boundary \in Int
  BY <1>i DEF TypeOK, CoreTypeOK, Events
<1>2. Promises'
  <2>1. ASSUME NEW q \in Starts, Handled(q)'
        PROVE  outcome[q] \notin {"unused", "unposted"}
    BY <1>i, <2>1 DEF Promises, Requested, RunStep
  <2>2. \A q \in Starts : outcome[q] = "result" => verdict'[q] = "result"
    BY <1>i DEF Promises, RunStep
  <2> QED
    BY <1>i, <2>1, <2>2 DEF Promises, ClientSame, Posts
<1>3. Requested'
  <2>1. ASSUME NEW i \in Sent', toCore'[i].type = "START"
        PROVE  busy' # toCore'[i].id /\ verdict'[toCore'[i].id] = "none"
    <3>1. /\ i + d \in Sent /\ toCore'[i] = toCore[i + d] /\ toCore[i + d].id \in Starts
          /\ ~Handled(toCore[i + d].id)
      BY <1>i, <2>1 DEF Requested, Drops
    <3>2. d = 1 => i + d # 1
      BY DEF Sent
    <3>3. d = 1 => toCore[1].id # toCore[i + d].id
      BY <1>i, <2>1, <3>1, <3>2 DEF Requested
    <3> QED
      BY <3>1, <3>3 DEF RunStep, Handled
  <2>2. \A i, j \in Sent' : i + d = j + d => i = j
    BY DEF Sent
  <2>3. \A i, j \in Sent' : toCore'[i].type # "DISPOSE" /\ toCore'[i].id = toCore'[j].id => i = j
    BY <1>i, <2>2 DEF Requested, Drops
  <2>4. busy' # None => verdict'[busy'] = "none"
    BY DEF RunStep
  <2> QED
    BY <1>i, <2>1, <2>3, <2>4 DEF Requested, Drops, ClientSame, Handled
<1>4. CASE disposed
  <2>1. active = None /\ active' = None /\ Posted' = {}
    BY <1>4, <1>i DEF Promises, ClientSame, Posts, Posted
  <2>2. Answers' /\ CancelsPending' /\ CancelAnnounced'
    BY <2>1 DEF Answers, CancelsPending, CancelAnnounced
  <2>3. \A q \in Starts, b \in Int : Told(q, b)' => Told(q, b)
    BY <2>1 DEF Told, ClientSame
  <2>4. ToldAgrees'
    <3>1. ASSUME NEW q \in Starts, NEW b \in Int, Told(q, b)
          PROVE  /\ Handled(q)' /\ verdict'[q] \in {"none", "cancelled"}
                 /\ busy' = q => cancelRequested' /\ b = boundary'
      <4>1. /\ Handled(q) /\ verdict[q] \in {"none", "cancelled"}
            /\ busy = q => cancelRequested /\ b = boundary
        BY <1>i, <3>1 DEF ToldAgrees
      <4> QED
        BY <1>t, <4>1, RuntimeAssumption DEF RunStep, Handled
    <3> QED
      BY <1>i, <2>3, <3>1 DEF ToldAgrees, ClientSame
  <2>5. OutcomeIsVerdict'
    BY <1>i, <1>n DEF OutcomeIsVerdict, ClientSame, RunStep
  <2> QED
    BY <1>1, <1>2, <1>3, <2>2, <2>4, <2>5
<1>5. CASE ~disposed
  <2>p. /\ \A i \in Posted : i \in Posted' /\ toClient'[i] = toClient[i] /\ i < new
        /\ new \in Posted' /\ toClient'[new] = m
        /\ \A i \in Posted' : i \in Posted \/ i = new
    BY <1>5 DEF Posts
  <2>d. \A j \in Sent' : j + d \in Sent /\ toCore'[j] = toCore[j + d]
    BY DEF Drops
  <2> HIDE DEF new
  <2>a. m.type = "acknowledged" =>
          /\ m.id \in Cancels /\ m.call \in Starts /\ cancels[m.id] \in {"pending", "rejected"}
          /\ \A j \in Sent' : toCore'[j].id # m.id
          /\ \A i \in Posted : toClient[i].type = "acknowledged" => toClient[i].id # m.id
          /\ active = m.call => cancels[m.id] = "pending"
    <3> SUFFICES ASSUME m.type = "acknowledged"
                 PROVE  /\ m.id \in Cancels /\ m.call \in Starts /\ cancels[m.id] \in {"pending", "rejected"}
                        /\ \A j \in Sent' : toCore'[j].id # m.id
                        /\ \A i \in Posted : toClient[i].type = "acknowledged" => toClient[i].id # m.id
                        /\ active = m.call => cancels[m.id] = "pending"
      OBVIOUS
    <3>1. /\ 1 \in Sent /\ toCore[1].type = "CANCEL" /\ toCore[1].id = m.id /\ d = 1
          /\ busy # None /\ m.call = busy /\ busy \in Starts
      BY <1>t DEF Truthful
    <3>2. m.id \in Cancels /\ cancels[m.id] \in {"pending", "rejected"}
      BY <1>i, <3>1 DEF Requested
    <3>3. ASSUME NEW j \in Sent'
          PROVE  toCore'[j].id # m.id
      <4>1. j + 1 # 1
        BY DEF Sent
      <4> QED
        BY <1>i, <2>d, <3>1, <4>1 DEF Requested
    <3>4. \A i \in Posted : toClient[i].type = "acknowledged" => toClient[i].id # m.id
      BY <1>i, <3>1 DEF Answers
    <3>5. active = m.call => cancels[m.id] = "pending"
      BY <1>i, <3>1 DEF CancelsPending, Requested, StartOf, Handled
    <3> QED
      BY <3>1, <3>2, <3>3, <3>4, <3>5
  <2>1. Answers'
    <3>1. ASSUME NEW i \in Posted'
          PROVE  /\ toClient'[i].type # "disposed"
                 /\ toClient'[i].call # None => busy' = toClient'[i].call \/ verdict'[toClient'[i].call] # "none"
                 /\ toClient'[i].type = "acknowledged" =>
                      /\ toClient'[i].id \in Cancels /\ toClient'[i].call \in Starts
                      /\ cancels[toClient'[i].id] \in {"pending", "rejected"}
                      /\ \A j \in Sent' : toCore'[j].id # toClient'[i].id
                 /\ toClient'[i].type # "acknowledged" /\ toClient'[i].id \in Starts =>
                      /\ toClient'[i].call = toClient'[i].id
                      /\ toClient'[i].type \in Terminals => verdict'[toClient'[i].id] = toClient'[i].type
                 /\ toClient'[i].type # "acknowledged" /\ toClient'[i].id \notin Starts =>
                      toClient'[i].call = None /\ toClient'[i].type = "failed"
      <4>1. CASE i = new
        BY <2>a, <2>p, <4>1 DEF Truthful, Handled
      <4>2. CASE i \in Posted
        <5>1. toClient[i] \in Events
          BY <1>i, <4>2, QueueTypes DEF Posted
        <5>2. toClient[i].call \in Starts \cup {None}
          BY <5>1 DEF Events
        <5>3. toClient[i].call # None => busy' = toClient[i].call \/ verdict'[toClient[i].call] # "none"
          BY <1>i, <4>2, <5>2 DEF Answers, RunStep, Handled
        <5>4. toClient[i].type = "acknowledged" =>
                /\ toClient[i].id \in Cancels /\ toClient[i].call \in Starts
                /\ cancels[toClient[i].id] \in {"pending", "rejected"}
                /\ \A j \in Sent' : toCore'[j].id # toClient[i].id
          BY <1>i, <2>d, <4>2 DEF Answers
        <5>5. /\ toClient[i].type # "acknowledged" /\ toClient[i].id \in Starts =>
                   /\ toClient[i].call = toClient[i].id
                   /\ toClient[i].type \in Terminals => verdict'[toClient[i].id] = toClient[i].type
              /\ toClient[i].type # "acknowledged" /\ toClient[i].id \notin Starts =>
                   toClient[i].call = None /\ toClient[i].type = "failed"
          BY <1>i, <1>n, <4>2 DEF Answers, RunStep
        <5>6. toClient'[i] = toClient[i] /\ toClient[i].type # "disposed"
          BY <1>i, <2>p, <4>2 DEF Answers
        <5> QED
          BY <5>3, <5>4, <5>5, <5>6
      <4> QED
        BY <2>p, <4>1, <4>2
    <3>2. \A i, j \in Posted' :
            toClient'[i].type = "acknowledged" /\ toClient'[j].type = "acknowledged"
              /\ toClient'[i].id = toClient'[j].id => i = j
      BY <1>i, <2>a, <2>p DEF Answers
    <3> QED
      BY <3>1, <3>2 DEF Answers, Handled, ClientSame
  <2>2. ToldAgrees'
    <3> DEFINE tells(q) == (m.type = "acknowledged" /\ m.call = q) \/ (m.type = "cancelled" /\ m.id = q)
    <3>1. \A q \in Starts, b \in Int : Told(q, b)' => Told(q, b) \/ (tells(q) /\ b = m.boundary)
      BY <2>p DEF Told, AckOf, EndOf, ClientSame
    <3>2. \A q \in Starts : tells(q) => busy = q /\ m.boundary = boundary
      BY <1>t DEF Truthful
    <3>3. ASSUME NEW q \in Starts, NEW b \in Int, Told(q, b)
          PROVE  /\ Handled(q)' /\ verdict'[q] \in {"none", "cancelled"}
                 /\ busy' = q => cancelRequested' /\ b = boundary'
                 /\ busy = q => b = boundary
                 /\ \A e \in Int : Told(q, e) => b = e
      <4>1. /\ Handled(q) /\ verdict[q] \in {"none", "cancelled"}
            /\ busy = q => cancelRequested /\ b = boundary
            /\ \A e \in Int : Told(q, e) => b = e
        BY <1>i, <3>3 DEF ToldAgrees
      <4> QED
        BY <1>t, <4>1, RuntimeAssumption DEF RunStep, Handled
    <3>4. ASSUME NEW q \in Starts, tells(q)
          PROVE  /\ Handled(q)' /\ verdict'[q] \in {"none", "cancelled"}
                 /\ busy' = q => cancelRequested' /\ m.boundary = boundary'
      <4>1. busy = q /\ q # None /\ Handled(q)'
        BY <3>2, <3>4, RuntimeAssumption DEF Handled, RunStep
      <4>2. CASE m.type = "acknowledged" /\ m.call = q
        <5>1. busy' = q /\ cancelRequested' /\ verdict'[q] = "none" /\ m.boundary = boundary'
          BY <4>1, <4>2 DEF Truthful, RunStep
        <5> QED
          BY <4>1, <5>1 DEF RunStep
      <4>3. CASE m.type = "cancelled" /\ m.id = q
        <5>1. busy' = None /\ verdict'[q] = "cancelled"
          BY <4>3 DEF Truthful, Terminals
        <5> QED
          BY <4>1, <5>1
      <4> QED
        BY <3>4, <4>2, <4>3
    <3> HIDE DEF tells
    <3>5. \A c \in Cancels : cancels'[c] = "acked" => ackOf'[c] \in Starts
      BY <1>i DEF ToldAgrees, ClientSame
    <3>6. ASSUME NEW q \in Starts, NEW b \in Int, Told(q, b)'
          PROVE  /\ \A e \in Int : Told(q, e)' => b = e
                 /\ Handled(q)' /\ verdict'[q] \in {"none", "cancelled"}
                 /\ busy' = q => cancelRequested' /\ b = boundary'
      BY <3>1, <3>2, <3>3, <3>4, <3>6
    <3> QED
      BY <3>5, <3>6 DEF ToldAgrees
  <2>3. CancelsPending'
    <3>1. ASSUME active # None, NEW j \in Sent', toCore'[j].type = "CANCEL",
                 \A k \in Sent' : j < k => toCore'[k].type # "START" \/ toCore'[k].id # active
          PROVE  cancels[toCore'[j].id] = "pending"
      <4>1. j + d \in Sent /\ toCore[j + d] = toCore'[j]
        BY <2>d
      <4>2. ASSUME NEW k \in Sent, j + d < k
            PROVE  ~StartOf(active, k)
        <5>1. k - d \in Sent' /\ toCore'[k - d] = toCore[k] /\ j < k - d
          <6>1. j \in Int /\ k \in Int /\ j >= 1
            BY DEF Sent
          <6>2. k > d /\ j < k - d /\ (k - d) + d = k
            BY <4>2, <6>1
          <6> QED
            BY <2>d, <6>2 DEF Drops
        <5> QED
          BY <3>1, <5>1 DEF StartOf
      <4> QED
        BY <1>i, <3>1, <4>1, <4>2 DEF CancelsPending
    <3>2. \A i \in Posted' : active # None /\ AckOf(active, i)' => cancels[toClient'[i].id] = "pending"
      BY <1>i, <2>a, <2>p DEF CancelsPending, AckOf, ClientSame
    <3> QED
      BY <3>1, <3>2 DEF CancelsPending, StartOf, AckOf, ClientSame
  <2>4. CancelAnnounced'
    <3>1. \A q \in Starts : Acked(q)' <=> Acked(q)
      BY DEF Acked, ClientSame
    <3>2. \A i \in Posted : AckOf(active, i) => i \in Posted' /\ AckOf(active, i)'
      BY <2>p DEF AckOf, ClientSame
    <3>3. m.type = "acknowledged" /\ m.call = active => \A i \in Posted' : i = new => AckOf(active, i)'
      BY <2>p DEF AckOf, ClientSame
    <3>4. active # None /\ busy' = active /\ cancelRequested' =>
            Acked(active) \/ \E i \in Posted' : AckOf(active, i)'
      BY <1>i, <2>p, <3>2, <3>3 DEF CancelAnnounced, Truthful
    <3>5. ASSUME active # None, NEW j \in Posted', EndOf(active, j)'
          PROVE  Acked(active) \/ \E i \in Posted' : i < j /\ AckOf(active, i)'
      <4>1. CASE j \in Posted
        BY <1>i, <2>p, <3>2, <3>5, <4>1 DEF CancelAnnounced, EndOf, ClientSame
      <4>2. CASE j = new
        <5>1. busy = active /\ cancelRequested
          BY <1>t, <2>p, <3>5, <4>2 DEF EndOf, ClientSame, Truthful
        <5> QED
          BY <1>i, <2>p, <3>2, <3>5, <4>2, <5>1 DEF CancelAnnounced
      <4> QED
        BY <2>p, <4>1, <4>2
    <3> QED
      BY <1>t, <3>1, <3>4, <3>5 DEF CancelAnnounced, ClientSame, Acked, AckOf, EndOf
  <2>5. OutcomeIsVerdict'
    BY <1>i, <1>n DEF OutcomeIsVerdict, ClientSame, RunStep
  <2> QED
    BY <1>1, <1>2, <1>3, <2>1, <2>2, <2>3, <2>4, <2>5
<1> QED
  BY <1>4, <1>5

\* The number of m is the next one, for the client as for the worker.
LEMMA InOrderOK ==
  ASSUME IInv, ClientSame, NEW d \in {0, 1}, Drops(d), NEW m \in Events, Posts(m),
         failures = 0 /\ ~disposed =>
           /\ busy' # None => /\ busy' = active
                              /\ lastSequence <= sequence' /\ progressSeen <= progressSequence'
           /\ m.call # None =>
                /\ m.call = active
                /\ \/ m.sequence > lastSequence
                   \/ m.type = "failed" /\ m.sequence = NoSequence
                /\ busy' # None => m.sequence <= sequence'
                /\ m.type = "progress" =>
                     /\ m.progress > progressSeen
                     /\ busy' # None => m.progress <= progressSequence'
           /\ \A i \in Posted : toClient[i].call # None =>
                /\ busy' # None =>
                     /\ toClient[i].sequence <= sequence'
                     /\ toClient[i].type = "progress" => toClient[i].progress <= progressSequence'
                /\ m.call # None =>
                     /\ toClient[i].type \notin Terminals
                     /\ toClient[i].sequence < m.sequence
                     /\ toClient[i].type = "progress" /\ m.type = "progress" =>
                          toClient[i].progress < m.progress
  PROVE  InOrder'
<1> SUFFICES ASSUME failures = 0, ~disposed
             PROVE  InOrder'
  BY DEF InOrder, ClientSame
<1> DEFINE new == Len(toClient) + 1
<1>i. InOrder
  BY DEF IInv
<1>1. /\ \A i \in Posted : i \in Posted' /\ toClient'[i] = toClient[i] /\ i < new
      /\ new \in Posted' /\ toClient'[new] = m
      /\ \A i \in Posted' : i \in Posted \/ i = new
  BY DEF Posts
<1>2. \A i \in Sent' : toCore'[i].type = "START" =>
        toCore'[i].id = active /\ lastSequence = -1 /\ progressSeen = 0
  BY <1>i DEF InOrder, Drops
<1> HIDE DEF new
<1>3. ASSUME NEW i \in Posted', toClient'[i].call # None
      PROVE  /\ toClient'[i].call = active
             /\ \/ toClient'[i].sequence > lastSequence
                \/ toClient'[i].type = "failed" /\ toClient'[i].sequence = NoSequence
             /\ busy' # None => toClient'[i].sequence <= sequence'
             /\ toClient'[i].type = "progress" =>
                  /\ toClient'[i].progress > progressSeen
                  /\ busy' # None => toClient'[i].progress <= progressSequence'
  <2>1. CASE i \in Posted
    BY <1>1, <1>3, <1>i, <2>1 DEF InOrder
  <2>2. CASE i = new
    BY <1>1, <1>3, <2>2
  <2> QED
    BY <1>1, <2>1, <2>2
<1>4. ASSUME NEW i \in Posted', NEW j \in Posted', i < j,
             toClient'[i].call # None, toClient'[j].call # None
      PROVE  /\ toClient'[i].type \notin Terminals
             /\ toClient'[i].sequence < toClient'[j].sequence
             /\ toClient'[i].type = "progress" /\ toClient'[j].type = "progress" =>
                  toClient'[i].progress < toClient'[j].progress
  <2>0. i \in Int /\ j \in Int /\ new \in Int
    BY <1>1 DEF Posted
  <2>1. CASE j \in Posted
    <3>1. i \in Posted
      BY <1>1, <1>4, <2>0, <2>1
    <3> QED
      BY <1>1, <1>4, <1>i, <2>1, <3>1 DEF InOrder
  <2>2. CASE j = new
    <3>1. i \in Posted
      BY <1>1, <1>4, <2>0, <2>2
    <3> QED
      BY <1>1, <1>4, <2>2, <3>1
  <2> QED
    BY <1>1, <2>1, <2>2
<1> QED
  BY <1>2, <1>3, <1>4 DEF InOrder, ClientSame

\* While the worker raises no error, a run is that of the active call.
LEMMA RunIsActive ==
  ASSUME IInv, failures = 0, ~disposed, busy # None
  PROVE  /\ busy = active /\ lastSequence <= sequence /\ progressSeen <= progressSequence
         /\ \A i \in Posted : toClient[i].call # None =>
              /\ toClient[i].type \notin Terminals /\ toClient[i].sequence <= sequence
              /\ toClient[i].sequence \in Int
              /\ toClient[i].type = "progress" => toClient[i].progress <= progressSequence
<1>i. TypeOK /\ InOrder /\ Answers /\ Requested
  BY DEF IInv
<1>1. "acknowledged" \notin Terminals /\ "none" \notin Terminals
  BY DEF Terminals
<1>2. busy = active /\ verdict[busy] = "none" /\ busy \in Starts
  BY <1>i DEF InOrder, Requested, TypeOK
<1>3. ASSUME NEW i \in Posted, toClient[i].call # None
      PROVE  toClient[i].type \notin Terminals /\ toClient[i].sequence \in Int
  <2>1. toClient[i] \in Events
    BY <1>i, QueueTypes DEF Posted
  <2>2. toClient[i].sequence \in Int
    BY <2>1 DEF Events
  <2>3. toClient[i].call = busy
    BY <1>2, <1>3, <1>i DEF InOrder
  <2>4. toClient[i].type \notin Terminals
    BY <1>1, <1>2, <1>3, <1>i, <2>3 DEF Answers
  <2> QED
    BY <2>2, <2>4
<1> QED
  BY <1>3, <1>i DEF InOrder

\* ... and what is posted before a START is handled is not about a call.
LEMMA StartComesFirst ==
  ASSUME IInv, failures = 0, ~disposed, 1 \in Sent, toCore[1].type = "START"
  PROVE  /\ toCore[1].id = active /\ active # None /\ lastSequence = -1 /\ progressSeen = 0
         /\ busy = None
         /\ \A i \in Posted : toClient[i].call = None
<1>i. TypeOK /\ InOrder /\ Answers /\ Requested
  BY DEF IInv
<1>1. /\ toCore[1].id = active /\ active \in Starts /\ active # None /\ ~Handled(active)
      /\ lastSequence = -1 /\ progressSeen = 0
  BY <1>i, RuntimeAssumption DEF InOrder, Requested
<1>2. busy = None
  BY <1>1, <1>i DEF InOrder, Handled
<1>3. \A i \in Posted : toClient[i].call = None
  BY <1>1, <1>i DEF InOrder, Answers
<1> QED
  BY <1>1, <1>2, <1>3

LEMMA HandleStartOK ==
  ASSUME IInv, HandleStart
  PROVE  IInv'
<1> DEFINE q == toCore[1].id
           r == toCore[1].run
<1>i. TypeOK /\ Promises /\ Requested /\ ToldAgrees
  BY DEF IInv
<1>1. /\ Drops(1) /\ 1 \in Sent /\ Head(toCore) = toCore[1]
      /\ toCore[1] \in Requests /\ toCore[1].type = "START"
  BY TakeDrops DEF HandleStart
<1>2. ClientSame /\ coreDisposed' = coreDisposed /\ alive' = alive
  BY DEF HandleStart, ClientSame, clientVars
<1>3. q \in Starts /\ r \in Runs /\ ~Handled(q) /\ q # None /\ q \in Ids /\ r \in RunIds
  BY <1>1, <1>i, RuntimeAssumption DEF Requested, Ids, RunIds
<1>4. failures = 0 /\ ~disposed =>
        /\ q = active /\ lastSequence = -1 /\ progressSeen = 0 /\ busy = None
        /\ \A i \in Posted : toClient[i].call = None
  BY <1>1, StartComesFirst
<1>5. /\ busy \in Starts \cup {None} /\ cancelRequested \in BOOLEAN /\ sequence \in Nat
      /\ progressSequence \in 0..MaxProgress /\ boundary \in 0..MaxBoundary
      /\ seenRunIds \in SUBSET Runs /\ coreDisposed \in BOOLEAN /\ alive \in BOOLEAN
      /\ verdict \in [Starts -> Terminals \cup {"none", "unsent"}]
  BY <1>i DEF TypeOK
<1> HIDE DEF q, r
<1>6. ASSUME busy = None, busy' = q, cancelRequested' = FALSE, sequence' = 0, progressSequence' = 0,
             boundary' = 0, seenRunIds' = seenRunIds \cup {r},
             Post(Answer("accepted", q, q, r, 0)), verdict' = verdict
      PROVE  IInv'
  <2>0. "accepted" \in EventTypes /\ q \in Starts \cup {None} /\ 0 \in Int
    BY <1>3 DEF EventTypes
  <2>1. PICK m \in Events : /\ m = Answer("accepted", q, q, r, 0)
                            /\ m.type = "accepted" /\ m.id = q /\ m.call = q /\ m.sequence = 0
    BY <1>3, <2>0, AnswerFields
  <2>2. Posts(m)
    BY <1>6, <2>1, PostPosts
  <2>3. CoreTypeOK'
    <3>1. 0 \in 0..MaxProgress /\ 0 \in 0..MaxBoundary /\ 0 \in Nat /\ seenRunIds \cup {r} \in SUBSET Runs
      BY <1>3, <1>5, RuntimeAssumption
    <3> QED
      BY <1>2, <1>3, <1>5, <1>6, <3>1 DEF CoreTypeOK
  <2>4. Truthful(m)
    BY <1>3, <1>6, <2>1 DEF Truthful, Handled, Terminals
  <2>5. RunStep(1)
    BY <1>1, <1>3, <1>6, RuntimeAssumption DEF RunStep, Handled, q
  <2>6. InOrder'
    BY <1>1, <1>2, <1>4, <1>6, <2>1, <2>2, InOrderOK
  <2>7. /\ TypeOK' /\ Promises' /\ Requested' /\ Answers' /\ ToldAgrees'
        /\ CancelsPending' /\ CancelAnnounced' /\ OutcomeIsVerdict'
    BY <1>1, <1>2, <1>6, <2>1, <2>2, <2>3, <2>4, <2>5, CoreStepOK
  <2> QED
    BY <2>6, <2>7 DEF IInv
<1>7. ASSUME verdict' = [verdict EXCEPT ![q] = "failed"], Post(Answer("failed", q, q, r, NoSequence)),
             UNCHANGED <<busy, cancelRequested, sequence, progressSequence, boundary, seenRunIds>>
      PROVE  IInv'
  <2>0. "failed" \in EventTypes /\ q \in Starts \cup {None} /\ NoSequence \in Int
    BY <1>3 DEF EventTypes, Terminals, NoSequence
  <2>1. PICK m \in Events : /\ m = Answer("failed", q, q, r, NoSequence)
                            /\ m.type = "failed" /\ m.id = q /\ m.call = q /\ m.sequence = NoSequence
    BY <1>3, <2>0, AnswerFields
  <2>2. Posts(m)
    BY <1>7, <2>1, PostPosts
  <2>3. /\ busy' = busy /\ cancelRequested' = cancelRequested /\ sequence' = sequence
        /\ progressSequence' = progressSequence /\ boundary' = boundary /\ seenRunIds' = seenRunIds
        /\ verdict' \in [Starts -> Terminals \cup {"none", "unsent"}] /\ verdict'[q] = "failed"
        /\ \A p \in Starts \ {q} : verdict'[p] = verdict[p]
    BY <1>3, <1>5, <1>7 DEF Terminals
  <2>4. CoreTypeOK'
    BY <1>2, <1>5, <2>3 DEF CoreTypeOK
  <2>5. busy # q /\ verdict[q] = "none"
    BY <1>3 DEF Handled
  <2>6. Truthful(m)
    BY <1>3, <2>1, <2>3 DEF Truthful, Handled, Terminals
  <2>7. RunStep(1)
    BY <1>1, <1>3, <1>5, <1>i, <2>3, <2>5 DEF RunStep, Handled, Requested, q
  <2>8. InOrder'
    BY <1>1, <1>2, <1>4, <2>1, <2>2, <2>3, InOrderOK
  <2>9. /\ TypeOK' /\ Promises' /\ Requested' /\ Answers' /\ ToldAgrees'
        /\ CancelsPending' /\ CancelAnnounced' /\ OutcomeIsVerdict'
    BY <1>1, <1>2, <2>1, <2>2, <2>3, <2>4, <2>6, <2>7, CoreStepOK
  <2> QED
    BY <2>8, <2>9 DEF IInv
<1> QED
  <2>1. PICK validPlan \in BOOLEAN :
          IF validPlan /\ MayRun(toCore[1])
          THEN /\ busy' = q
               /\ cancelRequested' = FALSE
               /\ sequence' = 0 /\ progressSequence' = 0 /\ boundary' = 0
               /\ seenRunIds' = seenRunIds \cup {r}
               /\ Post(Answer("accepted", q, q, r, 0))
               /\ UNCHANGED verdict
          ELSE /\ verdict' = [verdict EXCEPT ![q] = "failed"]
               /\ Post(Answer("failed", q, q, r, NoSequence))
               /\ UNCHANGED <<busy, cancelRequested, sequence, progressSequence, boundary, seenRunIds>>
    BY <1>1 DEF HandleStart, q, r
  <2>2. CASE validPlan /\ MayRun(toCore[1])
    BY <1>6, <2>1, <2>2 DEF MayRun
  <2>3. CASE ~(validPlan /\ MayRun(toCore[1]))
    BY <1>7, <2>1, <2>3
  <2> QED
    BY <2>2, <2>3

\* The run is neither begun nor ended, nothing is committed.
LEMMA RunGoesOn ==
  ASSUME verdict' = verdict, busy' = busy, boundary' = boundary,
         busy # None => verdict[busy] = "none", cancelRequested => cancelRequested', NEW d
  PROVE  RunStep(d)
<1>1. \A q \in Starts : Handled(q)' <=> Handled(q)
  BY DEF Handled
<1> QED
  BY <1>1 DEF RunStep

LEMMA HandleCancelOK ==
  ASSUME IInv, HandleCancel
  PROVE  IInv'
<1> DEFINE c == toCore[1].id
           r == toCore[1].run
<1>i. TypeOK /\ Promises /\ Requested /\ ToldAgrees
  BY DEF IInv
<1>1. /\ Drops(1) /\ 1 \in Sent /\ Head(toCore) = toCore[1]
      /\ toCore[1] \in Requests /\ toCore[1].type = "CANCEL"
  BY TakeDrops DEF HandleCancel
<1>2. /\ ClientSame /\ coreDisposed' = coreDisposed /\ alive' = alive /\ busy' = busy
      /\ progressSequence' = progressSequence /\ boundary' = boundary /\ seenRunIds' = seenRunIds
      /\ verdict' = verdict
  BY DEF HandleCancel, ClientSame, clientVars
<1>3. c \in Cancels /\ c \notin Starts /\ c \in Ids /\ r \in RunIds /\ "acknowledged" \notin Terminals
  BY <1>1, <1>i, RuntimeAssumption DEF Requested, Requests, Ids, Terminals
<1>4. /\ busy \in Starts \cup {None} /\ cancelRequested \in BOOLEAN /\ sequence \in Nat
      /\ progressSequence \in 0..MaxProgress /\ boundary \in 0..MaxBoundary
      /\ seenRunIds \in SUBSET Runs /\ coreDisposed \in BOOLEAN /\ alive \in BOOLEAN
      /\ verdict \in [Starts -> Terminals \cup {"none", "unsent"}]
      /\ lastSequence \in Int
      /\ busy # None => verdict[busy] = "none"
  BY <1>i DEF TypeOK, Requested
<1> HIDE DEF c, r
<1>5. ASSUME busy # None, cancelRequested' = TRUE, sequence' = sequence + 1,
             Post(Event("acknowledged", c))
      PROVE  IInv'
  <2>0. "acknowledged" \in EventTypes
    BY DEF EventTypes
  <2>1. PICK m \in Events : /\ m = Event("acknowledged", c)
                            /\ m.type = "acknowledged" /\ m.id = c /\ m.call = busy
                            /\ m.sequence = sequence + 1 /\ m.boundary = boundary
    BY <1>3, <1>5, <1>i, <2>0, EventFields
  <2>2. Posts(m)
    BY <1>5, <2>1, PostPosts
  <2>3. CoreTypeOK'
    BY <1>2, <1>4, <1>5 DEF CoreTypeOK
  <2>4. Truthful(m)
    BY <1>1, <1>2, <1>3, <1>4, <1>5, <2>1 DEF Truthful, Handled, c
  <2>5. RunStep(1)
    <3>1. cancelRequested => cancelRequested'
      BY <1>5
    <3>2. verdict' = verdict /\ busy' = busy /\ boundary' = boundary /\ (busy # None => verdict[busy] = "none")
      BY <1>2, <1>4
    <3> QED
      BY <3>1, <3>2, RunGoesOn
  <2>6. InOrder'
    <3>1. failures = 0 /\ ~disposed =>
            /\ busy = active /\ lastSequence <= sequence + 1 /\ sequence + 1 > lastSequence
            /\ progressSeen <= progressSequence
            /\ \A i \in Posted : toClient[i].call # None =>
                 /\ toClient[i].type \notin Terminals /\ toClient[i].sequence < sequence + 1
                 /\ toClient[i].sequence <= sequence + 1
                 /\ toClient[i].type = "progress" => toClient[i].progress <= progressSequence
      <4>1. ASSUME failures = 0, ~disposed
            PROVE  /\ busy = active /\ lastSequence <= sequence /\ progressSeen <= progressSequence
                   /\ \A i \in Posted : toClient[i].call # None =>
                        /\ toClient[i].type \notin Terminals /\ toClient[i].sequence <= sequence
                        /\ toClient[i].sequence \in Int
                        /\ toClient[i].type = "progress" => toClient[i].progress <= progressSequence
        BY <1>5, <4>1, RunIsActive
      <4> QED
        BY <1>4, <4>1
    <3>2. sequence + 1 <= sequence + 1
      BY <1>4
    <3> QED
      BY <1>1, <1>2, <1>5, <2>1, <2>2, <3>1, <3>2, InOrderOK
  <2>7. /\ TypeOK' /\ Promises' /\ Requested' /\ Answers' /\ ToldAgrees'
        /\ CancelsPending' /\ CancelAnnounced' /\ OutcomeIsVerdict'
    BY <1>1, <1>2, <2>1, <2>2, <2>3, <2>4, <2>5, CoreStepOK
  <2> QED
    BY <2>6, <2>7 DEF IInv
<1>6. ASSUME Post(Answer("failed", c, None, r, NoSequence)), UNCHANGED <<cancelRequested, sequence>>
      PROVE  IInv'
  <2>0. "failed" \in EventTypes /\ None \in Starts \cup {None} /\ NoSequence \in Int
    BY DEF EventTypes, Terminals, NoSequence
  <2>1. PICK m \in Events : /\ m = Answer("failed", c, None, r, NoSequence)
                            /\ m.type = "failed" /\ m.id = c /\ m.call = None
    BY <1>3, <2>0, AnswerFields
  <2>2. Posts(m)
    BY <1>6, <2>1, PostPosts
  <2>3. CoreTypeOK' /\ cancelRequested' = cancelRequested /\ sequence' = sequence
    BY <1>2, <1>4, <1>6 DEF CoreTypeOK
  <2>4. Truthful(m)
    BY <1>3, <2>1 DEF Truthful
  <2>5. RunStep(1)
    <3>1. cancelRequested => cancelRequested'
      BY <2>3
    <3>2. verdict' = verdict /\ busy' = busy /\ boundary' = boundary /\ (busy # None => verdict[busy] = "none")
      BY <1>2, <1>4
    <3> QED
      BY <3>1, <3>2, RunGoesOn
  <2>6. InOrder'
    BY <1>1, <1>2, <2>1, <2>2, <2>3, RunIsActive, InOrderOK
  <2>7. /\ TypeOK' /\ Promises' /\ Requested' /\ Answers' /\ ToldAgrees'
        /\ CancelsPending' /\ CancelAnnounced' /\ OutcomeIsVerdict'
    BY <1>1, <1>2, <2>1, <2>2, <2>3, <2>4, <2>5, CoreStepOK
  <2> QED
    BY <2>6, <2>7 DEF IInv
<1> QED
  BY <1>1, <1>5, <1>6 DEF HandleCancel, c, r

\* The client is disposed, it hears no answer.
LEMMA HandleDisposeOK ==
  ASSUME IInv, HandleDispose
  PROVE  IInv'
<1>i. TypeOK /\ Promises /\ Requested /\ ToldAgrees
  BY DEF IInv
<1>1. /\ Drops(1) /\ 1 \in Sent /\ Head(toCore) = toCore[1]
      /\ toCore[1] \in Requests /\ toCore[1].type = "DISPOSE"
  BY TakeDrops DEF HandleDispose
<1>2. /\ ClientSame /\ coreDisposed' = TRUE /\ alive' = alive /\ busy' = busy
      /\ progressSequence' = progressSequence /\ boundary' = boundary /\ seenRunIds' = seenRunIds
      /\ verdict' = verdict
  BY DEF HandleDispose, ClientSame, clientVars
<1>3. disposed /\ active = None
  BY <1>1, <1>i DEF Requested, Promises
<1>4. toClient' = <<>>
  BY <1>3 DEF HandleDispose, Post
<1>5. /\ busy \in Starts \cup {None} /\ cancelRequested \in BOOLEAN /\ sequence \in Nat
      /\ progressSequence \in 0..MaxProgress /\ boundary \in 0..MaxBoundary
      /\ seenRunIds \in SUBSET Runs /\ coreDisposed \in BOOLEAN /\ alive \in BOOLEAN
      /\ verdict \in [Starts -> Terminals \cup {"none", "unsent"}]
      /\ busy # None => verdict[busy] = "none"
  BY <1>i DEF TypeOK, Requested
<1>6. \/ busy = None /\ cancelRequested' = cancelRequested /\ sequence' = sequence
      \/ busy # None /\ cancelRequested' = TRUE /\ sequence' = sequence + 1
  BY DEF HandleDispose
<1>7. "failed" \in EventTypes /\ None \in Ids /\ None \in Starts \cup {None} /\ None \in RunIds
      /\ NoSequence \in Int /\ None \notin Starts
  BY RuntimeAssumption DEF EventTypes, Terminals, NoSequence, Ids, RunIds
<1>8. PICK m \in Events : m.type = "failed" /\ m.id = None /\ m.call = None
  BY <1>7, AnswerFields
<1>9. Posts(m)
  BY <1>3, <1>4, EmptyQueue DEF Posts
<1>10. CoreTypeOK'
  <2>1. cancelRequested' \in BOOLEAN
    BY <1>5, <1>6
  <2>2. sequence' \in Nat
    BY <1>5, <1>6
  <2> QED
    BY <1>2, <1>5, <2>1, <2>2 DEF CoreTypeOK
<1>11. Truthful(m)
  BY <1>7, <1>8 DEF Truthful
<1>12. RunStep(1)
  BY <1>2, <1>5, <1>6, RunGoesOn
<1>13. InOrder'
  BY <1>2, <1>3 DEF InOrder, ClientSame
<1>14. /\ TypeOK' /\ Promises' /\ Requested' /\ Answers' /\ ToldAgrees'
       /\ CancelsPending' /\ CancelAnnounced' /\ OutcomeIsVerdict'
  BY <1>1, <1>2, <1>3, <1>8, <1>9, <1>10, <1>11, <1>12, CoreStepOK
<1> QED
  BY <1>13, <1>14 DEF IInv

\* A step whose post throws: the numbers move on, and the run goes on or has ended
\* without a terminal event.
LEMMA NothingPostedOK ==
  ASSUME IInv, ClientSame, toCore' = toCore, toClient' = toClient, busy # None, ~cancelRequested,
         sequence' = sequence + 1, progressSequence' \in 0..MaxProgress,
         progressSequence <= progressSequence',
         cancelRequested' = cancelRequested, boundary' = boundary, seenRunIds' = seenRunIds,
         coreDisposed' = coreDisposed, alive' = alive,
         \/ busy' = busy /\ verdict' = verdict
         \/ busy' = None /\ verdict' = [verdict EXCEPT ![busy] = "unsent"]
  PROVE  IInv'
<1>i. /\ TypeOK /\ Promises /\ Requested /\ Answers /\ ToldAgrees
      /\ CancelsPending /\ CancelAnnounced /\ InOrder /\ OutcomeIsVerdict
  BY DEF IInv
<1>1. /\ busy \in Starts /\ verdict[busy] = "none" /\ sequence \in Nat /\ sequence' \in Nat
      /\ verdict \in [Starts -> Terminals \cup {"none", "unsent"}]
  BY <1>i DEF TypeOK, Requested
<1>2. /\ verdict' \in [Starts -> Terminals \cup {"none", "unsent"}]
      /\ \A p \in Starts \ {busy} : verdict'[p] = verdict[p]
      /\ busy' \in {busy, None} /\ (busy' = busy => verdict'[busy] = "none")
      /\ verdict'[busy] \in {"none", "unsent"} /\ (busy' = None => verdict'[busy] = "unsent")
  BY <1>1, RuntimeAssumption
<1>3. /\ \A q \in Starts : Handled(q)' <=> Handled(q)
      /\ \A q \in Starts : verdict[q] # "none" => verdict'[q] = verdict[q]
  BY <1>1, <1>2, RuntimeAssumption DEF Handled
<1>4. TypeOK'
  BY <1>1, <1>2, <1>i, RuntimeAssumption, TypeParts DEF ClientTypeOK, CoreTypeOK, ClientSame
<1>5. Promises' /\ Requested'
  <2>1. busy' # None => verdict'[busy'] = "none"
    BY <1>2
  <2> QED
    BY <1>2, <1>3, <1>i, <2>1 DEF Promises, Requested, ClientSame, Sent
<1>6. Answers'
  <2>1. ASSUME NEW i \in Posted, toClient[i].type \in Terminals, verdict[toClient[i].id] = toClient[i].type,
               toClient[i].id \in Starts
        PROVE  verdict'[toClient[i].id] = toClient[i].type
    BY <1>3, <2>1 DEF Terminals
  <2> QED
    BY <1>3, <1>i, <2>1 DEF Answers, ClientSame, Sent, Posted
<1>7. ToldAgrees'
  <2>1. \A q \in Starts, b \in Int : Told(q, b)' <=> Told(q, b)
    BY DEF Told, AckOf, EndOf, Posted, ClientSame
  <2>2. \A q \in Starts, b \in Int : Told(q, b) => busy # q
    BY <1>i DEF ToldAgrees
  <2>3. ASSUME NEW q \in Starts, NEW b \in Int, Told(q, b)'
        PROVE  /\ \A d \in Int : Told(q, d)' => b = d
               /\ Handled(q)' /\ verdict'[q] \in {"none", "cancelled"}
               /\ busy' # q
    <3>1. Told(q, b) /\ busy # q /\ busy' # q
      BY <1>2, <2>1, <2>2, <2>3, RuntimeAssumption
    <3>2. /\ \A d \in Int : Told(q, d) => b = d
          /\ Handled(q) /\ verdict[q] \in {"none", "cancelled"}
      BY <1>i, <3>1 DEF ToldAgrees
    <3>3. verdict'[q] = verdict[q]
      BY <1>2, <3>1
    <3> QED
      BY <1>3, <2>1, <3>1, <3>2, <3>3
  <2>4. \A c \in Cancels : cancels'[c] = "acked" => ackOf'[c] \in Starts
    BY <1>i DEF ToldAgrees, ClientSame
  <2> QED
    BY <2>3, <2>4 DEF ToldAgrees
<1>8. CancelsPending' /\ CancelAnnounced'
  BY <1>i DEF CancelsPending, CancelAnnounced, StartOf, AckOf, EndOf, Acked, ClientSame, Sent, Posted
<1>9. InOrder'
  <2>1. ASSUME failures = 0, ~disposed
        PROVE  /\ lastSequence <= sequence + 1 /\ progressSeen <= progressSequence'
               /\ \A i \in Posted : toClient[i].call # None =>
                    /\ toClient[i].sequence <= sequence + 1
                    /\ toClient[i].type = "progress" => toClient[i].progress <= progressSequence'
    <3>1. ASSUME NEW i \in Posted
          PROVE  toClient[i].progress \in Int
      <4>1. toClient[i] \in Events
        BY <1>i, QueueTypes DEF Posted
      <4> QED
        BY <4>1 DEF Events
    <3>2. lastSequence \in Int /\ progressSeen \in Int /\ progressSequence \in Int
      BY <1>i DEF TypeOK
    <3> QED
      BY <1>1, <2>1, <3>1, <3>2, RunIsActive
  <2> QED
    BY <1>2, <1>i, <2>1 DEF InOrder, ClientSame, Sent, Posted
<1>10. OutcomeIsVerdict'
  <2>1. \A q \in Starts : outcome[q] \in Terminals /\ verdict[q] = outcome[q] => verdict'[q] = outcome[q]
    BY <1>3 DEF Terminals
  <2> QED
    BY <1>i, <2>1 DEF OutcomeIsVerdict, ClientSame
<1> QED
  BY <1>4, <1>5, <1>6, <1>7, <1>8, <1>9, <1>10 DEF IInv

LEMMA ProgressPostedOK ==
  ASSUME IInv, ReportProgress,
         Post([Event("progress", busy) EXCEPT !.progress = progressSequence + 1])
  PROVE  IInv'
<1>i. TypeOK /\ Promises /\ Requested /\ ToldAgrees
  BY DEF IInv
<1>1. /\ busy # None /\ ~cancelRequested /\ progressSequence < MaxProgress
      /\ progressSequence' = progressSequence + 1 /\ sequence' = sequence + 1
      /\ busy' = busy /\ cancelRequested' = cancelRequested /\ boundary' = boundary
      /\ seenRunIds' = seenRunIds /\ coreDisposed' = coreDisposed /\ alive' = alive
      /\ verdict' = verdict /\ toCore' = toCore
  BY DEF ReportProgress, Executing
<1>2. ClientSame
  BY DEF ReportProgress, ClientSame, clientVars
<1>3. Drops(0)
  BY <1>1, NothingDrops
<1>4. /\ busy \in Starts /\ cancelRequested \in BOOLEAN /\ sequence \in Nat
      /\ progressSequence \in 0..MaxProgress /\ boundary \in 0..MaxBoundary
      /\ seenRunIds \in SUBSET Runs /\ coreDisposed \in BOOLEAN /\ alive \in BOOLEAN
      /\ verdict \in [Starts -> Terminals \cup {"none", "unsent"}] /\ verdict[busy] = "none"
      /\ lastSequence \in Int /\ progressSeen \in Int /\ MaxProgress \in Nat
  BY <1>1, <1>i, RuntimeAssumption DEF TypeOK, Requested
<1>5. PICK m \in Events : /\ m = [Event("progress", busy) EXCEPT !.progress = progressSequence + 1]
                          /\ m.type = "progress" /\ m.id = busy /\ m.call = busy
                          /\ m.sequence = sequence + 1 /\ m.progress = progressSequence + 1
  BY <1>1, <1>i, ProgressFields
<1>6. Posts(m)
  BY <1>5, PostPosts
<1>7. CoreTypeOK'
  BY <1>1, <1>4 DEF CoreTypeOK
<1>8. Truthful(m)
  BY <1>1, <1>4, <1>5 DEF Truthful, Handled, Terminals
<1>9. RunStep(0)
  BY <1>1, <1>4, RunGoesOn
<1>10. InOrder'
  <2>1. failures = 0 /\ ~disposed =>
          /\ busy = active /\ lastSequence <= sequence /\ progressSeen <= progressSequence
          /\ \A i \in Posted : toClient[i].call # None =>
               /\ toClient[i].type \notin Terminals /\ toClient[i].sequence < sequence + 1
               /\ toClient[i].sequence <= sequence + 1
               /\ toClient[i].type = "progress" =>
                    toClient[i].progress < progressSequence + 1 /\ toClient[i].progress <= progressSequence + 1
    <3>1. ASSUME NEW i \in Posted
          PROVE  toClient[i].progress \in Int
      <4>1. toClient[i] \in Events
        BY <1>i, QueueTypes DEF Posted
      <4> QED
        BY <4>1 DEF Events
    <3> QED
      BY <1>1, <1>4, <3>1, RunIsActive
  <2>2. /\ lastSequence <= sequence => lastSequence <= sequence + 1 /\ sequence + 1 > lastSequence
        /\ progressSeen <= progressSequence =>
             progressSeen <= progressSequence + 1 /\ progressSequence + 1 > progressSeen
        /\ sequence + 1 <= sequence + 1 /\ progressSequence + 1 <= progressSequence + 1
    BY <1>4
  <2> QED
    BY <1>1, <1>2, <1>3, <1>5, <1>6, <2>1, <2>2, InOrderOK
<1>n. ~cancelRequested' /\ m.type # "acknowledged"
  BY <1>1, <1>5
<1>11. /\ TypeOK' /\ Promises' /\ Requested' /\ Answers' /\ ToldAgrees'
       /\ CancelsPending' /\ CancelAnnounced' /\ OutcomeIsVerdict'
  <2>1. 0 \in {0, 1} /\ 0 # 1
    OBVIOUS
  <2> QED
    BY <2>1, <1>n, <1>2, <1>3, <1>5, <1>6, <1>7, <1>8, <1>9, CoreStepOK
<1> QED
  BY <1>10, <1>11 DEF IInv

LEMMA ReportProgressOK ==
  ASSUME IInv, ReportProgress
  PROVE  IInv'
<1>1. CASE Post([Event("progress", busy) EXCEPT !.progress = progressSequence + 1])
  BY <1>1, ProgressPostedOK
<1>2. CASE UNCHANGED toClient
  <2>1. /\ busy # None /\ ~cancelRequested /\ sequence' = sequence + 1
        /\ progressSequence' \in 0..MaxProgress /\ progressSequence <= progressSequence'
    BY RuntimeAssumption DEF ReportProgress, Executing, IInv, TypeOK
  <2>2. ClientSame
    BY DEF ReportProgress, ClientSame, clientVars
  <2> QED
    BY <1>2, <2>1, <2>2, NothingPostedOK DEF ReportProgress
<1> QED
  BY <1>1, <1>2 DEF ReportProgress

LEMMA TerminalPostedOK ==
  ASSUME IInv, NEW v \in {"result", "failed"}, Finish(v),
         verdict' = [verdict EXCEPT ![busy] = IF cancelRequested THEN "cancelled" ELSE v],
         Post(Event(IF cancelRequested THEN "cancelled" ELSE v, busy))
  PROVE  IInv'
<1> DEFINE type == IF cancelRequested THEN "cancelled" ELSE v
<1>i. TypeOK /\ Promises /\ Requested /\ ToldAgrees
  BY DEF IInv
<1>1. /\ busy # None /\ busy' = None /\ sequence' = sequence + 1
      /\ cancelRequested' = cancelRequested /\ boundary' = boundary
      /\ progressSequence' = progressSequence
      /\ seenRunIds' = seenRunIds /\ coreDisposed' = coreDisposed /\ alive' = alive
      /\ toCore' = toCore /\ verdict' = [verdict EXCEPT ![busy] = type]
      /\ Post(Event(type, busy))
  BY DEF Finish, Executing
<1>2. ClientSame
  BY DEF Finish, ClientSame, clientVars
<1>3. Drops(0)
  BY <1>1, NothingDrops
<1>4. /\ busy \in Starts /\ busy \in Ids /\ cancelRequested \in BOOLEAN /\ sequence \in Nat
      /\ progressSequence \in 0..MaxProgress /\ boundary \in 0..MaxBoundary
      /\ seenRunIds \in SUBSET Runs /\ coreDisposed \in BOOLEAN /\ alive \in BOOLEAN
      /\ verdict \in [Starts -> Terminals \cup {"none", "unsent"}] /\ verdict[busy] = "none"
      /\ lastSequence \in Int
  BY <1>1, <1>i DEF TypeOK, Requested, Ids
<1>5. /\ type \in Terminals /\ type \in EventTypes /\ type # "acknowledged" /\ type # "progress"
      /\ type # "disposed" /\ type # "none"
      /\ cancelRequested => type = "cancelled"
      /\ type = "cancelled" => cancelRequested
  BY DEF Terminals, EventTypes
<1> HIDE DEF type
<1>6. PICK m \in Events : /\ m = Event(type, busy)
                          /\ m.type = type /\ m.id = busy /\ m.call = busy
                          /\ m.sequence = sequence + 1 /\ m.boundary = boundary
  BY <1>1, <1>4, <1>5, <1>i, EventFields
<1>7. Posts(m)
  BY <1>1, <1>6, PostPosts
<1>8. /\ verdict' \in [Starts -> Terminals \cup {"none", "unsent"}] /\ verdict'[busy] = type
      /\ \A p \in Starts \ {busy} : verdict'[p] = verdict[p]
  BY <1>1, <1>4, <1>5
<1>9. CoreTypeOK'
  BY <1>1, <1>4, <1>8 DEF CoreTypeOK
<1>10. Truthful(m)
  BY <1>1, <1>4, <1>5, <1>6, <1>8 DEF Truthful, Handled
<1>11. RunStep(0)
  BY <1>1, <1>4, <1>5, <1>8, RuntimeAssumption DEF RunStep, Handled
<1>12. InOrder'
  <2>1. failures = 0 /\ ~disposed =>
          /\ busy = active /\ sequence + 1 > lastSequence
          /\ \A i \in Posted : toClient[i].call # None =>
               toClient[i].type \notin Terminals /\ toClient[i].sequence < sequence + 1
    BY <1>1, <1>4, RunIsActive
  <2> QED
    BY <1>1, <1>2, <1>3, <1>5, <1>6, <1>7, <2>1, InOrderOK
<1>13. active # None => busy' # active
  BY <1>1
<1>14. /\ TypeOK' /\ Promises' /\ Requested' /\ Answers' /\ ToldAgrees'
       /\ CancelsPending' /\ CancelAnnounced' /\ OutcomeIsVerdict'
  BY <1>2, <1>3, <1>5, <1>6, <1>7, <1>9, <1>10, <1>11, <1>13, CoreStepOK
<1> QED
  BY <1>12, <1>14 DEF IInv

LEMMA FinishOK ==
  ASSUME IInv, NEW v \in {"result", "failed"}, Finish(v)
  PROVE  IInv'
<1> DEFINE type == IF cancelRequested THEN "cancelled" ELSE v
<1>1. CASE verdict' = [verdict EXCEPT ![busy] = type] /\ Post(Event(type, busy))
  BY <1>1, TerminalPostedOK
<1>2. CASE /\ type # "cancelled" /\ UNCHANGED toClient
           /\ verdict' = [verdict EXCEPT ![busy] = "unsent"]
  <2>1. /\ busy # None /\ busy' = None /\ ~cancelRequested /\ sequence' = sequence + 1
        /\ progressSequence' \in 0..MaxProgress /\ progressSequence <= progressSequence'
    BY <1>2 DEF Finish, Executing, IInv, TypeOK
  <2>2. ClientSame
    BY DEF Finish, ClientSame, clientVars
  <2> QED
    BY <1>2, <2>1, <2>2, NothingPostedOK DEF Finish
<1> QED
  BY <1>1, <1>2 DEF Finish

LEMMA CommitBoundaryOK ==
  ASSUME IInv, CommitBoundary
  PROVE  IInv'
<1>i. /\ TypeOK /\ Promises /\ Requested /\ Answers /\ ToldAgrees
      /\ CancelsPending /\ CancelAnnounced /\ InOrder /\ OutcomeIsVerdict
  BY DEF IInv
<1>1. /\ busy # None /\ ~cancelRequested /\ boundary < MaxBoundary /\ boundary' = boundary + 1
      /\ sequence' = sequence /\ progressSequence' = progressSequence
      /\ busy' = busy /\ cancelRequested' = cancelRequested
      /\ seenRunIds' = seenRunIds /\ coreDisposed' = coreDisposed /\ alive' = alive
      /\ verdict' = verdict /\ toCore' = toCore /\ toClient' = toClient
  BY DEF CommitBoundary, Executing
<1>2. ClientSame
  BY DEF CommitBoundary, ClientSame, clientVars
<1>3. TypeOK'
  BY <1>1, <1>2, <1>i, RuntimeAssumption, TypeParts DEF ClientTypeOK, CoreTypeOK, ClientSame
<1>4. Promises' /\ Requested'
  BY <1>1, <1>2, <1>i DEF Promises, Requested, Handled, ClientSame, Sent
<1>5. Answers'
  BY <1>1, <1>2, <1>i DEF Answers, Handled, ClientSame, Sent, Posted
<1>6. ToldAgrees'
  <2>1. \A q \in Starts, b \in Int : Told(q, b)' <=> Told(q, b)
    BY <1>1, <1>2 DEF Told, AckOf, EndOf, Posted, ClientSame
  <2>2. \A q \in Starts, b \in Int : Told(q, b) => busy # q
    BY <1>1, <1>i DEF ToldAgrees
  <2> QED
    BY <1>1, <1>2, <1>i, <2>1, <2>2 DEF ToldAgrees, Handled, ClientSame
<1>7. CancelsPending' /\ CancelAnnounced'
  BY <1>1, <1>2, <1>i DEF CancelsPending, CancelAnnounced, StartOf, AckOf, EndOf, Acked, ClientSame, Sent, Posted
<1>8. InOrder' /\ OutcomeIsVerdict'
  BY <1>1, <1>2, <1>i DEF InOrder, OutcomeIsVerdict, ClientSame, Sent, Posted
<1> QED
  BY <1>3, <1>4, <1>5, <1>6, <1>7, <1>8 DEF IInv

LEMMA TerminateOK ==
  ASSUME IInv, Terminate
  PROVE  IInv'
<1>i. /\ TypeOK /\ Promises /\ Requested /\ Answers /\ ToldAgrees
      /\ CancelsPending /\ CancelAnnounced /\ InOrder /\ OutcomeIsVerdict
  BY DEF IInv
<1>1. /\ boundary' = boundary /\ sequence' = sequence /\ progressSequence' = progressSequence
      /\ busy' = busy /\ cancelRequested' = cancelRequested
      /\ seenRunIds' = seenRunIds /\ coreDisposed' = coreDisposed /\ alive' = FALSE
      /\ verdict' = verdict /\ toCore' = toCore /\ toClient' = toClient
  BY DEF Terminate
<1>2. ClientSame
  BY DEF Terminate, ClientSame, clientVars
<1>3. TypeOK'
  BY <1>1, <1>2, <1>i, TypeParts DEF ClientTypeOK, CoreTypeOK, ClientSame
<1>4. Promises' /\ Requested'
  BY <1>1, <1>2, <1>i DEF Promises, Requested, Handled, ClientSame, Sent
<1>5. Answers'
  BY <1>1, <1>2, <1>i DEF Answers, Handled, ClientSame, Sent, Posted
<1>6. ToldAgrees'
  BY <1>1, <1>2, <1>i DEF ToldAgrees, Told, AckOf, EndOf, Handled, Posted, ClientSame
<1>7. CancelsPending' /\ CancelAnnounced'
  BY <1>1, <1>2, <1>i DEF CancelsPending, CancelAnnounced, StartOf, AckOf, EndOf, Acked, ClientSame, Sent, Posted
<1>8. InOrder' /\ OutcomeIsVerdict'
  BY <1>1, <1>2, <1>i DEF InOrder, OutcomeIsVerdict, ClientSame, Sent, Posted
<1> QED
  BY <1>3, <1>4, <1>5, <1>6, <1>7, <1>8 DEF IInv
-----------------------------------------------------------------------------
(* The invariant, and what follows from it. *)

LEMMA InitOK == Init => IInv
<1> SUFFICES ASSUME Init
             PROVE  IInv
  OBVIOUS
<1>1. /\ active = None /\ lastSequence = -1 /\ busy = None /\ toCore = <<>> /\ toClient = <<>>
      /\ Sent = {} /\ Posted = {}
      /\ \A q \in Starts : outcome[q] = "unused" /\ verdict[q] = "none"
      /\ \A c \in Cancels : cancels[c] = "unused"
      /\ ~disposed /\ None \notin Starts
  BY RuntimeAssumption, EmptySeq DEF Init, Sent, Posted
<1>2. TypeOK
  <2>0. /\ 0 \in 0..MaxProgress /\ 0 \in 0..MaxBoundary /\ 0 \in 0..MaxFailures /\ -1 \in -1..MaxBoundary
        /\ -1 \in Int /\ 0 \in Nat
    BY RuntimeAssumption
  <2>1. ClientTypeOK
    <3>1. /\ outcome \in [Starts -> Terminals \cup {"unused", "pending", "unposted", "disposed", "broken"}]
          /\ runOf \in [Starts \cup Cancels -> RunIds]
          /\ cancels \in [Cancels -> {"unused", "pending", "acked", "rejected"}]
          /\ ackOf \in [Cancels -> Starts \cup {None}]
      BY DEF Init, RunIds
    <3>2. ackAt \in [Cancels -> -1..MaxBoundary] /\ endAt \in [Starts -> -1..MaxBoundary]
      BY <2>0 DEF Init
    <3> QED
      BY <2>0, <3>1, <3>2 DEF Init, ClientTypeOK
  <2>2. CoreTypeOK
    <3>1. verdict \in [Starts -> Terminals \cup {"none", "unsent"}]
      BY DEF Init
    <3>2. cancelRequested \in BOOLEAN /\ coreDisposed \in BOOLEAN /\ alive \in BOOLEAN
      BY DEF Init
    <3> QED
      BY <2>0, <3>1, <3>2 DEF Init, CoreTypeOK
  <2>3. toCore \in Seq(Requests) /\ toClient \in Seq(Events)
    BY <1>1, EmptySeq
  <2> QED
    BY <2>1, <2>2, <2>3, TypeParts
<1>3. Promises
  BY <1>1 DEF Promises, Handled
<1>4. Requested /\ Answers
  BY <1>1 DEF Requested, Answers
<1>5. ToldAgrees
  BY <1>1 DEF ToldAgrees, Told
<1>6. CancelsPending /\ CancelAnnounced /\ InOrder /\ OutcomeIsVerdict
  BY <1>1 DEF CancelsPending, CancelAnnounced, InOrder, OutcomeIsVerdict, Terminals
<1> QED
  BY <1>2, <1>3, <1>4, <1>5, <1>6 DEF IInv

LEMMA StutterOK ==
  ASSUME IInv, UNCHANGED vars
  PROVE  IInv'
<1>1. /\ ClientSame /\ CoreSame /\ toCore' = toCore /\ toClient' = toClient
  BY DEF vars, clientVars, coreVars, ClientSame, CoreSame
<1>i. /\ TypeOK /\ Promises /\ Requested /\ Answers /\ ToldAgrees
      /\ CancelsPending /\ CancelAnnounced /\ InOrder /\ OutcomeIsVerdict
  BY DEF IInv
<1>2. TypeOK'
  BY <1>1, <1>i, TypeParts DEF ClientTypeOK, CoreTypeOK, ClientSame, CoreSame
<1>3. Promises' /\ Requested'
  BY <1>1, <1>i DEF Promises, Requested, Handled, ClientSame, CoreSame, Sent
<1>4. Answers'
  BY <1>1, <1>i DEF Answers, Handled, ClientSame, CoreSame, Sent, Posted
<1>5. ToldAgrees'
  BY <1>1, <1>i DEF ToldAgrees, Told, AckOf, EndOf, Handled, Posted, ClientSame, CoreSame
<1>6. CancelsPending' /\ CancelAnnounced'
  BY <1>1, <1>i
     DEF CancelsPending, CancelAnnounced, StartOf, AckOf, EndOf, Acked, ClientSame, CoreSame, Sent, Posted
<1>7. InOrder' /\ OutcomeIsVerdict'
  BY <1>1, <1>i DEF InOrder, OutcomeIsVerdict, ClientSame, CoreSame, Sent, Posted
<1> QED
  BY <1>2, <1>3, <1>4, <1>5, <1>6, <1>7 DEF IInv

LEMMA StepOK ==
  ASSUME IInv, [Next]_vars
  PROVE  IInv'
<1>1. ASSUME NEW q \in Starts, NEW r \in Runs, Start(q, r)
      PROVE  IInv'
  BY <1>1, StartOK
<1>2. ASSUME NEW q \in Starts, NEW r \in Runs, StartFails(q, r)
      PROVE  IInv'
  BY <1>2, StartFailsOK
<1>3. ASSUME NEW c \in Cancels, NEW r \in Runs, Cancel(c, r)
      PROVE  IInv'
  BY <1>3, CancelOK
<1>4. CASE Dispose
  BY <1>4, DisposeOK
<1>5. CASE Failure
  BY <1>5, FailureOK
<1>6. CASE Receive
  BY <1>6, ReceiveOK
<1>7. CASE HandleStart
  BY <1>7, HandleStartOK
<1>8. CASE HandleCancel
  BY <1>8, HandleCancelOK
<1>9. CASE HandleDispose
  BY <1>9, HandleDisposeOK
<1>10. CASE ReportProgress
  BY <1>10, ReportProgressOK
<1>11. CASE CommitBoundary
  BY <1>11, CommitBoundaryOK
<1>12. CASE ExecutorEnds
  BY <1>12, FinishOK DEF ExecutorEnds
<1>13. CASE Terminate
  BY <1>13, TerminateOK
<1>14. CASE UNCHANGED vars
  BY <1>14, StutterOK
<1> QED
  BY <1>1, <1>2, <1>3, <1>4, <1>5, <1>6, <1>7, <1>8, <1>9, <1>10, <1>11, <1>12, <1>13, <1>14
     DEF Next, CoreHandles

LEMMA Inductive == Spec => []IInv
<1>1. IInv /\ [Next]_vars => IInv'
  BY StepOK
<1> QED
  BY <1>1, InitOK, PTL DEF Spec

\* Types, for any number of calls, cancels and reports (ComputeRuntime.TypeOK).
THEOREM TypeCorrect == Spec => []TypeOK
<1>1. IInv => TypeOK
  BY DEF IInv
<1> QED
  BY <1>1, Inductive, PTL

\* An acknowledged cancellation is final (workerCore.js:116,145-165,219-223):
\* whatever crosses on the way, the run named by the acknowledgement delivers
\* no result and ends at the boundary that the acknowledgement told.
THEOREM AcksAreFinal == Spec => []AckIsFinal
<1>1. ASSUME IInv, NEW c \in Cancels, cancels[c] = "acked"
      PROVE  /\ outcome[ackOf[c]] # "result"
             /\ outcome[ackOf[c]] = "cancelled" => endAt[ackOf[c]] = ackAt[c]
  <2>1. ackOf[c] \in Starts /\ ackAt[c] \in Int
    BY <1>1 DEF IInv, ToldAgrees, TypeOK
  <2>2. Told(ackOf[c], ackAt[c])
    BY <1>1 DEF Told
  <2>3. verdict[ackOf[c]] \in {"none", "cancelled"} /\ \A b \in Int : Told(ackOf[c], b) => ackAt[c] = b
    BY <1>1, <2>1, <2>2 DEF IInv, ToldAgrees
  <2>4. endAt[ackOf[c]] \in Int
    BY <1>1, <2>1 DEF IInv, TypeOK
  <2> QED
    BY <1>1, <2>1, <2>3, <2>4 DEF IInv, Promises, Told
<1>2. IInv => AckIsFinal
  BY <1>1 DEF AckIsFinal
<1> QED
  BY <1>2, Inductive, PTL

\* Unless the worker object raised an error event, a call ends as its run ended
\* in the worker: no late or foreign event decides it (workerClient.js:122-170).
THEOREM OutcomesAreVerdicts == Spec => []OutcomeIsVerdict
<1>1. IInv => OutcomeIsVerdict
  BY DEF IInv
<1> QED
  BY <1>1, Inductive, PTL
-----------------------------------------------------------------------------
(* ComputeRuntime implements ComputeJob. *)

Stopped == {ackOf[c] : c \in {d \in Cancels : cancels[d] = "acked"}}

LEMMA StoppedSame ==
  ASSUME ackOf' = ackOf, \A c \in Cancels : cancels'[c] = "acked" <=> cancels[c] = "acked"
  PROVE  Stopped' = Stopped
BY DEF Stopped

\* The end of the active call is one Settle.
LEMMA EndSettles ==
  ASSUME IInv, active # None, NEW v, FinishRun(v), v \in Job!Endings, ackOf' = ackOf,
         v = "result" => active \notin Stopped, v = "cancelled" => active \in Stopped
  PROVE  Job!Next
<1>1. active \in Starts /\ outcome[active] = "pending"
  BY DEF IInv, TypeOK, Promises
<1>2. outcome' = [outcome EXCEPT ![active] = v]
  BY DEF FinishRun
<1>3. Stopped' = Stopped
  <2>1. \A c \in Cancels : cancels'[c] = "acked" <=> cancels[c] = "acked"
    BY DEF FinishRun
  <2> QED
    BY <2>1, StoppedSame
<1>4. Job!Settle(active, v)
  BY <1>1, <1>2, <1>3 DEF Job!Settle, Stopped
<1> QED
  BY <1>1, <1>4 DEF Job!Next

LEMMA RejectAllSettles ==
  ASSUME IInv, NEW v \in {"disposed", "broken"}, RejectAll(v), ackOf' = ackOf
  PROVE  Job!Next \/ (outcome' = outcome /\ Stopped' = Stopped)
<1>1. CASE active # None
  BY <1>1, EndSettles DEF RejectAll, Job!Endings
<1>2. CASE active = None
  <2>1. outcome' = outcome /\ \A c \in Cancels : cancels'[c] = "acked" <=> cancels[c] = "acked"
    BY <1>2 DEF RejectAll
  <2> QED
    BY <2>1, StoppedSame
<1> QED
  BY <1>1, <1>2

\* A cancel that is acknowledged stops a call, a cancelled call was stopped before.
LEMMA ReceiveMaps ==
  ASSUME IInv, Receive
  PROVE  Job!Next \/ (outcome' = outcome /\ Stopped' = Stopped)
<1> DEFINE m == toClient[1]
<1>i. TypeOK /\ Promises /\ Answers /\ ToldAgrees /\ CancelsPending /\ CancelAnnounced
  BY DEF IInv
<1>1. Received /\ Head(toClient) = m /\ m \in Events /\ 1 \in Posted
  BY <1>i, ReceiveFacts DEF Received
<1>2. /\ m.id \in Ids /\ m.boundary \in Int /\ active \in Starts \cup {None}
      /\ cancels \in [Cancels -> {"unused", "pending", "acked", "rejected"}]
      /\ ackOf \in [Cancels -> Starts \cup {None}]
  BY <1>1, <1>i DEF Events, TypeOK
<1>3. "failed" \in Job!Endings /\ Terminals \subseteq Job!Endings
  BY DEF Job!Endings, Terminals
<1> HIDE DEF m
<1>4. ASSUME m.type = "acknowledged", OnAcknowledged(m)
      PROVE  Job!Next \/ (outcome' = outcome /\ Stopped' = Stopped)
  <2>1. m.id \in Cancels /\ m.call \in Starts /\ Handled(m.call) /\ Told(m.call, m.boundary)
    BY <1>1, <1>2, <1>4, <1>i, RuntimeAssumption DEF Answers, Told, AckOf, m
  <2>2. CASE active # None /\ ~Fresh(m)
    BY <1>3, <1>4, <2>2, EndSettles DEF OnAcknowledged
  <2>3. CASE ~(active # None /\ ~Fresh(m)) /\ cancels[m.id] = "pending"
    <3>1. /\ outcome' = outcome
          /\ cancels' = [cancels EXCEPT ![m.id] = "acked"] /\ ackOf' = [ackOf EXCEPT ![m.id] = m.call]
      BY <1>4, <2>3 DEF OnAcknowledged
    <3>2. outcome[m.call] \notin {"unused", "result"}
      BY <1>2, <1>i, <2>1 DEF Promises, ToldAgrees
    <3>3. Stopped' = Stopped \cup {m.call}
      <4>1. cancels'[m.id] = "acked" /\ ackOf'[m.id] = m.call
        BY <1>2, <2>1, <3>1
      <4>2. \A d \in Cancels : d # m.id => cancels'[d] = cancels[d] /\ ackOf'[d] = ackOf[d]
        BY <1>2, <3>1
      <4> QED
        BY <2>1, <2>3, <4>1, <4>2 DEF Stopped
    <3>4. PICK q \in Starts : q = m.call
      BY <2>1
    <3>5. Job!AcknowledgeCancel(q)
      BY <3>1, <3>2, <3>3, <3>4 DEF Job!AcknowledgeCancel, Stopped
    <3> QED
      BY <3>5 DEF Job!Next
  <2>4. CASE ~(active # None /\ ~Fresh(m)) /\ cancels[m.id] # "pending"
    BY <1>4, <2>4 DEF OnAcknowledged, Stopped
  <2> QED
    BY <2>2, <2>3, <2>4
<1>5. ASSUME m.type # "acknowledged", Concerns(m), OnRunEvent(m)
      PROVE  Job!Next \/ (outcome' = outcome /\ Stopped' = Stopped)
  <2>1. /\ active # None /\ active \in Starts /\ m.id = active
        /\ m.type \in Terminals => verdict[active] = m.type
    BY <1>1, <1>2, <1>5, <1>i DEF Answers, Concerns, m
  <2>2. CASE FinishRun("failed") /\ ackOf' = ackOf
    BY <1>3, <2>1, <2>2, EndSettles
  <2>3. CASE outcome' = outcome /\ cancels' = cancels /\ ackOf' = ackOf
    BY <2>3 DEF Stopped
  <2>4. CASE m.type \in Terminals /\ FinishRun(m.type) /\ ackOf' = ackOf
    <3>1. m.type = "result" => active \notin Stopped
      <4>1. ASSUME active \in Stopped, m.type = "result"
            PROVE  FALSE
        <5>1. PICK c \in Cancels : cancels[c] = "acked" /\ ackOf[c] = active
          BY <4>1 DEF Stopped
        <5>2. Told(active, ackAt[c]) /\ ackAt[c] \in Int
          BY <1>i, <5>1 DEF Told, TypeOK
        <5> QED
          BY <1>i, <2>1, <2>4, <4>1, <5>2 DEF ToldAgrees
      <4> QED
        BY <4>1
    <3>2. m.type = "cancelled" => active \in Stopped
      <4>1. \A i \in Posted : ~(i < 1)
        BY DEF Posted
      <4>2. m.type = "cancelled" => Acked(active)
        BY <1>1, <1>i, <2>1, <4>1 DEF CancelAnnounced, EndOf, m
      <4> QED
        BY <4>2 DEF Acked, Stopped
    <3> QED
      BY <1>3, <2>1, <2>4, <3>1, <3>2, EndSettles
  <2> QED
    BY <1>5, <2>2, <2>3, <2>4 DEF OnRunEvent
<1>6. ASSUME UNCHANGED <<active, lastSequence, progressSeen, outcome, cancels, ackOf, ackAt, endAt>>
      PROVE  outcome' = outcome /\ Stopped' = Stopped
  BY <1>6 DEF Stopped
<1> QED
  BY <1>1, <1>4, <1>5, <1>6 DEF Receive

\* Every other step is a submission, a rejection, or nothing to the callers.
LEMMA JobStep ==
  ASSUME IInv, [Next]_vars
  PROVE  [Job!Next]_(Job!jobVars)
<1> SUFFICES Job!Next \/ (outcome' = outcome /\ Stopped' = Stopped)
  BY DEF Job!jobVars, Stopped
<1>1. ASSUME NEW q \in Starts, NEW r \in Runs, Start(q, r)
      PROVE  Job!Next
  <2>1. /\ \A p \in Starts : outcome[p] # "pending"
        /\ outcome[q] = "unused" /\ outcome' = [outcome EXCEPT ![q] = "pending"]
        /\ cancels' = cancels /\ ackOf' = ackOf
    BY <1>1, RuntimeAssumption DEF Start, IInv, Promises
  <2>2. Job!Submit(q)
    BY <2>1 DEF Job!Submit
  <2> QED
    BY <2>2 DEF Job!Next
<1>2. ASSUME NEW q \in Starts, NEW r \in Runs, StartFails(q, r)
      PROVE  Job!Next
  <2>1. /\ outcome[q] = "unused" /\ outcome' = [outcome EXCEPT ![q] = "unposted"]
        /\ cancels' = cancels /\ ackOf' = ackOf
    BY <1>2 DEF StartFails
  <2>2. Job!Reject(q)
    BY <2>1 DEF Job!Reject
  <2> QED
    BY <2>2 DEF Job!Next
<1>3. ASSUME NEW c \in Cancels, NEW r \in Runs, Cancel(c, r)
      PROVE  outcome' = outcome /\ Stopped' = Stopped
  <2>1. /\ outcome' = outcome /\ ackOf' = ackOf /\ cancels[c] = "unused"
        /\ cancels' = [cancels EXCEPT ![c] = "pending"]
    BY <1>3 DEF Cancel
  <2>2. \A d \in Cancels : cancels'[d] = "acked" <=> cancels[d] = "acked"
    BY <2>1 DEF IInv, TypeOK
  <2> QED
    BY <2>1, <2>2, StoppedSame
<1>4. CASE Dispose
  BY <1>4, RejectAllSettles DEF Dispose
<1>5. CASE Failure
  BY <1>5, RejectAllSettles DEF Failure
<1>6. CASE Receive
  BY <1>6, ReceiveMaps
<1>7. ASSUME UNCHANGED clientVars
      PROVE  outcome' = outcome /\ Stopped' = Stopped
  BY <1>7 DEF clientVars, Stopped
<1>8. CASE CoreHandles \/ ReportProgress \/ CommitBoundary \/ ExecutorEnds \/ Terminate
  BY <1>7, <1>8 DEF CoreHandles, HandleStart, HandleCancel, HandleDispose, ReportProgress,
                    CommitBoundary, ExecutorEnds, Finish, Terminate
<1>9. CASE UNCHANGED vars
  BY <1>7, <1>9 DEF vars
<1> QED
  BY <1>1, <1>2, <1>3, <1>4, <1>5, <1>6, <1>8, <1>9 DEF Next

\* The protocol of two queues keeps what the client promises its callers
\* (workerClient.js:59-120,172-189): one call at a time, each promise settles
\* once, a call is cancelled only after its cancellation was acknowledged, and
\* an acknowledged cancellation rules the result out.
THEOREM ImplementsJob == Spec => KeepsJobPromises
<1>1. Init => Job!Init
  BY DEF Init, Job!Init
<1>2. IInv /\ [Next]_vars => [Job!Next]_(Job!jobVars)
  BY JobStep
<1> QED
  BY <1>1, <1>2, Inductive, PTL DEF Spec, Job!Spec, KeepsJobPromises
=============================================================================
