----------------------- MODULE PracticalWorkflowProofs -----------------------
(***************************************************************************)
(* Proofs about PracticalWorkflow and the SharedComputation it asks.       *)
(*                                                                         *)
(* The shared part is an invariant of its own: a pending row is producing  *)
(* under its key and has not been aborted, and whoever waits, waits on a   *)
(* pending row.  The workflow keeps, besides what it promises, that a      *)
(* follow-up that is under way has a running receipt, and that the         *)
(* evaluation it awaits has its sources; and it keeps in the checkpoint    *)
(* whatever it keeps in the session.                                       *)
(***************************************************************************)
EXTENDS PracticalWorkflow, TLAPS

USE SharedAssumption, WorkflowAssumption

Row == [key : Keys \cup {None}, state : {"free", "producing"}, aborted : BOOLEAN]
Call == [row : Rows \cup {None}, answer : {"none", "value", "failure"}]

SharedTypes ==
  /\ pending \in [Keys -> Rows \cup {None}]
  /\ rows \in [Rows -> Row]
  /\ call \in [Callers -> Call]

Producing(k) == [key |-> k, state |-> "producing", aborted |-> FALSE]

PendingProduces == \A k \in Keys : pending[k] # None => rows[pending[k]] = Producing(k)

ProducersKeyed == \A r \in Rows : rows[r].state = "producing" => rows[r].key \in Keys

SharedInv == SharedTypes /\ PendingProduces /\ ProducersKeyed /\ SubscribersServed

-----------------------------------------------------------------------------
(* The shared computation. *)

\* The first caller of a key creates its row, the others join it (run).
LEMMA RunKeeps ==
  ASSUME SharedInv, NEW c \in Callers, NEW k \in Keys, Run(c, k)
  PROVE  SharedInv'
<1> USE DEF SharedInv, NoCall
<1>1. CASE Join(c, k)
  <2>1. SharedTypes'
    BY <1>1 DEF Join, SharedTypes, Call
  <2>2. PendingProduces' /\ ProducersKeyed'
    BY <1>1 DEF Join, PendingProduces, ProducersKeyed
  <2>3. rows[pending[k]] = Producing(k) /\ pending[k] # None
    BY <1>1 DEF Join, PendingProduces
  <2>4. SubscribersServed'
    BY <1>1, <2>3 DEF Join, SubscribersServed, SharedTypes, Producing, Call
  <2> QED BY <2>1, <2>2, <2>4
<1>2. CASE Create(c, k)
  <2>1. PICK r \in Rows :
          /\ rows[r].state = "free"
          /\ pending' = [pending EXCEPT ![k] = r]
          /\ rows' = [rows EXCEPT ![r] = Producing(k)]
          /\ call' = [call EXCEPT ![c] = [NoCall EXCEPT !.row = r]]
    BY <1>2 DEF Create, Producing
  <2>2. pending[k] = None /\ r # None
    BY <1>2 DEF Create
  <2>3. SharedTypes'
    BY <2>1 DEF SharedTypes, Row, Call, Producing
  <2>4. ASSUME NEW i \in Keys
        PROVE  pending[i] # r
    <3>1. Producing(i).state # "free"
      BY DEF Producing
    <3> QED BY <2>1, <2>2, <3>1 DEF PendingProduces
  <2>5. PendingProduces'
    BY <2>1, <2>4 DEF PendingProduces, SharedTypes
  <2>6. ProducersKeyed'
    BY <2>1 DEF ProducersKeyed, SharedTypes, Producing
  <2>7. ASSUME NEW d \in Callers, call'[d].row # None
        PROVE  /\ rows'[call'[d].row].state = "producing"
               /\ pending'[rows'[call'[d].row].key] = call'[d].row
               /\ ~rows'[call'[d].row].aborted
    <3>1. CASE d = c
      BY <2>1, <3>1 DEF SharedTypes, Producing, Call
    <3>2. CASE d # c
      <4>1. call'[d] = call[d] /\ call[d].row \in Rows
        BY <2>1, <2>7, <3>2 DEF SharedTypes, Call
      <4>2. /\ rows[call[d].row].state = "producing"
            /\ pending[rows[call[d].row].key] = call[d].row
            /\ ~rows[call[d].row].aborted
        BY <2>7, <4>1 DEF SubscribersServed
      <4>3. rows[call[d].row].key \in Keys /\ call[d].row # r
        BY <4>1, <4>2, <2>1 DEF ProducersKeyed
      <4>4. rows[call[d].row].key # k
        BY <4>1, <4>2, <2>2
      <4> QED BY <2>1, <4>1, <4>2, <4>3, <4>4 DEF SharedTypes
    <3> QED BY <3>1, <3>2
  <2>8. SubscribersServed'
    BY <2>7 DEF SubscribersServed
  <2> QED BY <2>3, <2>5, <2>6, <2>8
<1> QED BY <1>1, <1>2 DEF Run

\* Callers that are answered wait no longer; the others wait on the same rows.
LEMMA FinishKeeps ==
  ASSUME SharedTypes, NEW group \in SUBSET Callers, NEW answer \in {"none", "value", "failure"}
  PROVE  /\ Finish(group, answer) \in [Callers -> Call]
         /\ \A d \in Callers : Finish(group, answer)[d].row # None =>
              d \notin group /\ Finish(group, answer)[d] = call[d]
  BY DEF SharedTypes, Finish, Call

\* A caller whose signal is aborted leaves; the last one takes the row away (abort).
LEMMA AbortKeeps ==
  ASSUME SharedInv, NEW c \in Callers, Abort(c)
  PROVE  SharedInv'
<1> USE DEF SharedInv
<1> DEFINE r == call[c].row
<1>0. CASE r = None
  BY <1>0 DEF Abort, SharedTypes, PendingProduces, ProducersKeyed, SubscribersServed
<1>1. CASE r # None
  <2>1. call' = Finish({c}, "failure") /\ r \in Rows
    BY <1>1 DEF Abort, SharedTypes, Call
  <2>2. /\ call' \in [Callers -> Call]
        /\ \A d \in Callers : call'[d].row # None => d # c /\ call'[d] = call[d]
    BY <2>1, FinishKeeps
  <2>3. CASE Subscribers(r) = {c}
    <3>1. pending' = Remove(r) /\ rows' = [rows EXCEPT ![r].aborted = TRUE]
      BY <1>1, <2>3 DEF Abort
    <3>2. SharedTypes'
      BY <2>2, <3>1 DEF SharedTypes, Remove, Row
    <3>3. PendingProduces'
      BY <3>1 DEF PendingProduces, SharedTypes, Remove
    <3>4. ProducersKeyed'
      BY <3>1 DEF ProducersKeyed, SharedTypes, Row
    <3>5. ASSUME NEW d \in Callers, call'[d].row # None
          PROVE  /\ rows'[call'[d].row] = rows[call[d].row]
                 /\ call'[d].row = call[d].row /\ call[d].row # r
                 /\ pending'[rows[call[d].row].key] = call[d].row
      <4>1. call'[d] = call[d] /\ call[d].row # None /\ d # c
        BY <2>2, <3>5
      <4>2. call[d].row # r /\ call[d].row \in Rows
        BY <2>3, <4>1 DEF Subscribers, SharedTypes, Call
      <4>3. /\ rows[call[d].row].key \in Keys
            /\ pending[rows[call[d].row].key] = call[d].row
        BY <4>1, <4>2 DEF SubscribersServed, ProducersKeyed
      <4> QED BY <3>1, <4>1, <4>2, <4>3 DEF Remove, SharedTypes
    <3>6. SubscribersServed'
      BY <3>5, <2>2 DEF SubscribersServed
    <3> QED BY <3>2, <3>3, <3>4, <3>6
  <2>4. CASE Subscribers(r) # {c}
    <3>1. UNCHANGED <<pending, rows>>
      BY <1>1, <2>4 DEF Abort
    <3> QED
      BY <2>2, <3>1 DEF SharedTypes, PendingProduces, ProducersKeyed, SubscribersServed
  <2> QED BY <2>3, <2>4
<1> QED BY <1>0, <1>1

\* A producer answers its subscribers and its row is free again (settle).
LEMMA SettleKeeps ==
  ASSUME SharedInv, NEW r \in Rows, Settle(r)
  PROVE  SharedInv'
<1> USE DEF SharedInv
<1>1. PICK answer \in {"value", "failure"} : call' = Finish(Subscribers(r), answer)
  BY DEF Settle
<1>2. /\ call' \in [Callers -> Call]
      /\ \A d \in Callers : call'[d].row # None => call'[d] = call[d] /\ call[d].row # r
  <2>1. Subscribers(r) \in SUBSET Callers
    BY DEF Subscribers
  <2> QED BY <1>1, <2>1, FinishKeeps DEF Subscribers
<1>3. pending' = Remove(r) /\ rows' = [rows EXCEPT ![r] = FreeRow]
  BY DEF Settle
<1>4. SharedTypes'
  BY <1>2, <1>3 DEF SharedTypes, Remove, FreeRow, Row
<1>5. PendingProduces'
  BY <1>3 DEF PendingProduces, SharedTypes, Remove
<1>6. ProducersKeyed'
  BY <1>3 DEF ProducersKeyed, SharedTypes, FreeRow
<1>7. ASSUME NEW d \in Callers, call'[d].row # None
      PROVE  /\ rows'[call'[d].row] = rows[call[d].row]
             /\ call'[d].row = call[d].row
             /\ pending'[rows[call[d].row].key] = call[d].row
  <2>1. call'[d] = call[d] /\ call[d].row # r /\ call[d].row # None /\ call[d].row \in Rows
    BY <1>2, <1>7 DEF SharedTypes, Call
  <2>2. /\ rows[call[d].row].key \in Keys
        /\ pending[rows[call[d].row].key] = call[d].row
    BY <2>1 DEF SubscribersServed, ProducersKeyed
  <2> QED BY <1>3, <2>1, <2>2 DEF Remove, SharedTypes
<1>8. SubscribersServed'
  BY <1>7, <1>2 DEF SubscribersServed
<1> QED BY <1>4, <1>5, <1>6, <1>8

\* Everybody is answered and every producer aborted (clear).
LEMMA ClearKeeps ==
  ASSUME SharedInv, Clear
  PROVE  SharedInv'
<1> USE DEF SharedInv
<1> DEFINE group == UNION {Subscribers(pending[k]) : k \in Active}
<1>1. group \in SUBSET Callers
  BY DEF Subscribers
<1>2. /\ call' \in [Callers -> Call]
      /\ \A d \in Callers : call'[d].row # None => d \notin group /\ call'[d] = call[d]
  BY <1>1, FinishKeeps DEF Clear
<1>3. ASSUME NEW d \in Callers, call[d].row # None
      PROVE  d \in group
  <2>1. call[d].row \in Rows
    BY <1>3 DEF SharedTypes, Call
  <2>2. rows[call[d].row].key \in Keys /\ pending[rows[call[d].row].key] = call[d].row
    BY <1>3, <2>1 DEF SubscribersServed, ProducersKeyed
  <2> QED BY <1>3, <2>2 DEF Active, Subscribers
<1>4. \A d \in Callers : call'[d].row = None
  BY <1>2, <1>3
<1>5. SharedTypes'
  <2>1. pending' \in [Keys -> Rows \cup {None}]
    BY DEF Clear
  <2>2. rows' \in [Rows -> Row]
    BY DEF Clear, SharedTypes, Row
  <2> QED BY <1>2, <2>1, <2>2 DEF SharedTypes
<1>6. PendingProduces' /\ ProducersKeyed'
  BY DEF Clear, PendingProduces, ProducersKeyed, SharedTypes, Row
<1>7. SubscribersServed'
  BY <1>4 DEF SubscribersServed
<1> QED BY <1>5, <1>6, <1>7

\* A caller that has been answered takes its answer.
LEMMA TakenKeeps ==
  ASSUME SharedInv, NEW c \in Callers, call' = [call EXCEPT ![c] = NoCall],
         UNCHANGED <<pending, rows>>
  PROVE  SharedInv'
  BY DEF SharedInv, SharedTypes, PendingProduces, ProducersKeyed, SubscribersServed, NoCall, Call

LEMMA UnchangedKeeps ==
  ASSUME SharedInv, UNCHANGED <<pending, rows, call>>
  PROVE  SharedInv'
  BY DEF SharedInv, SharedTypes, PendingProduces, ProducersKeyed, SubscribersServed
-----------------------------------------------------------------------------
(* What the workflow keeps. *)

Receipt == [stage : {"none", "applied", "running", "failed", "completed"},
            sources : BOOLEAN]
Runs(q) == [stage |-> "running", sources |-> TRUE]

Open(q, rs) == rs[q].stage \notin {"none", "completed"}

Kept(rs, times, j, evals, runs) ==
  /\ rs \in [Requests -> Receipt] /\ times \in [Requests -> Nat]
  /\ j \in Impacts \cup {"none"} /\ evals \subseteq Keys /\ runs \subseteq Keys
  /\ \A q \in Requests : times[q] = IF rs[q].stage # "none" THEN 1 ELSE 0
  /\ \A q \in Requests : Open(q, rs) => j # "none" /\ Base \in evals
  /\ \A q \in Requests : Open(q, rs) /\ rs[q].sources => After \in runs
  /\ \A q \in Requests : rs[q].stage = "none" => ~rs[q].sources

MemoryKept == Kept(receipts, applied, job, evaluations, catalog)

SavedKept ==
  saved # None => /\ saved.input \in Keys
                  /\ Kept(saved.receipts, saved.applied, saved.job,
                          saved.evaluations, saved.catalog)

\* A follow-up under way awaits its analysis or, with its sources, its evaluation.
FollowUps ==
  \A q \in Requests :
    /\ <<q, TRUE>> \in analysing => receipts[q].stage = "running"
    /\ evaluator.by = q /\ evaluator.live =>
         receipts[q] = Runs(q) /\ <<q, TRUE>> \notin analysing

Evaluators == [input : Keys \cup {None}, by : Requests \cup {None},
               live : BOOLEAN, aborted : BOOLEAN]

Tasks ==
  /\ input \in Keys /\ session \in {"open", "hidden", "released"}
  /\ analysing \subseteq Requests \X BOOLEAN
  /\ evaluator \in Evaluators
  /\ review \in [input : Keys \cup {None}, aborted : BOOLEAN]

WorkInv == Tasks /\ MemoryKept /\ SavedKept /\ FollowUps

\* The state a disposal leaves, and the one the page starts in, is kept.
LEMMA NothingKept ==
  Kept([q \in Requests |-> NoReceipt], [q \in Requests |-> 0], "none", {}, {})
  BY DEF Kept, Open, Receipt, NoReceipt

\* Retained results may grow without harm.
LEMMA KeptGrows ==
  ASSUME NEW rs, NEW times, NEW j, NEW evals, NEW runs, NEW more \in SUBSET Keys,
         NEW others \in SUBSET Keys, Kept(rs, times, j, evals, runs)
  PROVE  Kept(rs, times, j, evals \cup more, runs \cup others)
  BY DEF Kept

\* A receipt may be written if its change is counted once, a job and the
\* evaluation of its plan are there, and its sources with it.
LEMMA KeptSaves ==
  ASSUME NEW rs, NEW times, NEW j, NEW evals, NEW runs, Kept(rs, times, j, evals, runs),
         NEW q \in Requests, NEW counted \in [Requests -> Nat], counted[q] = 1,
         \A p \in Requests : p # q => counted[p] = times[p],
         NEW stage \in {"applied", "running", "failed", "completed"}, NEW sources \in BOOLEAN,
         j # "none", Base \in evals, sources => After \in runs
  PROVE  Kept([rs EXCEPT ![q] = [stage |-> stage, sources |-> sources]],
              counted, j, evals, runs)
<1> DEFINE new == [rs EXCEPT ![q] = [stage |-> stage, sources |-> sources]]
<1>1. new \in [Requests -> Receipt]
  BY DEF Kept, Receipt
<1>2. /\ new[q] = [stage |-> stage, sources |-> sources]
      /\ \A p \in Requests : p # q => new[p] = rs[p]
  BY DEF Kept
<1> HIDE DEF new
<1> QED BY <1>1, <1>2 DEF Kept, Open

\* The evaluation that ends a follow-up: its receipt is completed or failed, or
\* runs on with its sources until the evaluation has ended.
LEMMA ConcludesKeeps ==
  ASSUME Tasks, MemoryKept, FollowUps,
         NEW q \in Requests, NEW runs \in SUBSET Keys, catalog \subseteq runs,
         After \in runs, Concludes(q, runs),
         analysing' \subseteq analysing, <<q, TRUE>> \notin analysing',
         ~(evaluator.by = q /\ evaluator.live),
         job # "none", job' = job, Base \in evaluations,
         applied' \in [Requests -> Nat], applied'[q] = 1,
         \A p \in Requests : p # q => applied'[p] = applied[p]
  PROVE  MemoryKept' /\ FollowUps' /\ evaluator' \in Evaluators
<1>1. PICK stage \in {"running", "failed", "completed"} : Saves(q, stage, TRUE)
  BY DEF Concludes
<1>2. /\ receipts' = [receipts EXCEPT ![q] = [stage |-> stage, sources |-> TRUE]]
      /\ catalog' = runs
  BY <1>1 DEF Saves, Concludes
<1>3. PICK more \in SUBSET Keys : evaluations' = evaluations \cup more
  <2>1. evaluations' = evaluations \cup {After} \/ evaluations' = evaluations \cup {}
    BY DEF Concludes, Answered, Waits, Refused
  <2> QED BY <2>1
<1>4. MemoryKept'
  <2>1. Kept(receipts, applied, job, evaluations \cup more, catalog \cup runs)
    BY KeptGrows DEF MemoryKept
  <2>2. catalog \cup runs = runs
    OBVIOUS
  <2>3. Base \in evaluations \cup more
    OBVIOUS
  <2>4. Kept(receipts', applied', job, evaluations \cup more, runs)
    BY <1>2, <2>1, <2>2, <2>3, KeptSaves
  <2> QED BY <1>2, <1>3, <2>4 DEF MemoryKept
<1>5. evaluator' \in Evaluators
  <2>1. \/ evaluator' = evaluator
        \/ evaluator' = [input |-> After, by |-> q, live |-> TRUE, aborted |-> FALSE]
    BY DEF Concludes, Answered, Waits, Refused
  <2>2. evaluator \in Evaluators
    BY DEF Tasks
  <2>3. [input |-> After, by |-> q, live |-> TRUE, aborted |-> FALSE] \in Evaluators
    BY DEF Evaluators
  <2> QED BY <2>1, <2>2, <2>3, Zenon
<1>6. \A p \in Requests : p # q => receipts'[p] = receipts[p]
  BY <1>2 DEF MemoryKept, Kept
<1>7. evaluator' = evaluator \/ (evaluator'.by = q /\ receipts'[q] = Runs(q))
  <2>1. CASE Waits(After, q, runs) /\ Saves(q, "running", TRUE)
    <3>1. evaluator'.by = q
      BY <2>1 DEF Waits
    <3>2. receipts'[q] = Runs(q)
      BY <2>1 DEF Saves, Runs, MemoryKept, Kept
    <3> QED BY <3>1, <3>2
  <2> QED BY <2>1 DEF Concludes, Answered, Refused
<1> QED BY <1>4, <1>5, <1>6, <1>7 DEF FollowUps
-----------------------------------------------------------------------------
(* The steps of the workflow. *)

\* An application is made once for its request, where its plan still holds.
LEMMA ApplyCounts ==
  ASSUME WorkInv, NEW q \in Requests, Apply(q)
  PROVE  /\ applied' \in [Requests -> Nat] /\ applied'[q] = 1
         /\ \A p \in Requests : p # q => applied'[p] = applied[p]
         /\ input' = After /\ job # "none" /\ Base \in evaluations
         /\ receipts[q] = NoReceipt
<1>1. applied \in [Requests -> Nat] /\ applied[q] = 0 /\ receipts[q].stage = "none"
  BY DEF WorkInv, MemoryKept, Kept, Apply, Recorded
<1>2. receipts[q] \in Receipt /\ ~receipts[q].sources
  BY <1>1 DEF WorkInv, MemoryKept, Kept
<1>3. receipts[q] = NoReceipt
  BY <1>1, <1>2 DEF Receipt, NoReceipt
<1> QED BY <1>1, <1>3 DEF Apply

LEMMA ApplyCandidateKeeps ==
  ASSUME WorkInv, NEW q \in Requests, ApplyCandidate(q)
  PROVE  WorkInv'
<1>1. Apply(q)
  BY DEF ApplyCandidate
<1>2. /\ applied' \in [Requests -> Nat] /\ applied'[q] = 1
      /\ \A p \in Requests : p # q => applied'[p] = applied[p]
      /\ input' = After /\ job # "none" /\ Base \in evaluations
      /\ receipts[q] = NoReceipt
  BY <1>1, ApplyCounts
<1>3. receipts \in [Requests -> Receipt]
  BY DEF WorkInv, MemoryKept, Kept
<1>4. receipts' = [receipts EXCEPT ![q] = [stage |-> "applied", sources |-> FALSE]]
  <2>1. [NoReceipt EXCEPT !.stage = "applied"] = [stage |-> "applied", sources |-> FALSE]
    <3>1. ASSUME NEW b
          PROVE  [[stage |-> "none", sources |-> b] EXCEPT !.stage = "applied"]
                   = [stage |-> "applied", sources |-> b]
      OBVIOUS
    <3> QED BY <3>1, Zenon DEF NoReceipt
  <2>2. receipts' = [receipts EXCEPT ![q] = [receipts[q] EXCEPT !.stage = "applied"]]
    BY DEF ApplyCandidate
  <2> QED BY <1>2, <2>1, <2>2
<1>5. UNCHANGED <<session, catalog, evaluations, job, evaluator, analysing, review, saved>>
  BY DEF ApplyCandidate
<1>6. MemoryKept'
  <2>1. Kept(receipts', applied', job, evaluations, catalog)
    BY <1>2, <1>4, KeptSaves DEF WorkInv, MemoryKept
  <2> QED BY <1>5, <2>1 DEF MemoryKept
<1>7. Tasks' /\ SavedKept'
  BY <1>2, <1>5 DEF WorkInv, Tasks, SavedKept
<1>8. FollowUps'
  <2>1. \A p \in Requests : p # q => receipts'[p] = receipts[p]
    BY <1>3, <1>4
  <2>2. <<q, TRUE>> \notin analysing /\ ~(evaluator.by = q /\ evaluator.live)
    <3>1. receipts[q].stage # "running" /\ receipts[q] # Runs(q)
      BY <1>2 DEF NoReceipt, Runs
    <3> QED BY <3>1 DEF WorkInv, FollowUps
  <2> QED BY <1>5, <2>1, <2>2 DEF WorkInv, FollowUps
<1> QED BY <1>6, <1>7, <1>8 DEF WorkInv

\* The first call of a request, or a retry: it awaits an analysis or concludes.
LEMMA ApplyAndReviewKeeps ==
  ASSUME WorkInv, NEW q \in Requests, ApplyAndReview(q)
  PROVE  WorkInv'
<1>1. /\ job # "none" /\ Base \in evaluations
      /\ <<q, TRUE>> \notin analysing /\ ~(evaluator.by = q /\ evaluator.live)
      /\ UNCHANGED <<session, job, review, saved>>
  BY DEF ApplyAndReview, InFlight
<1>2. /\ applied' \in [Requests -> Nat] /\ applied'[q] = 1
      /\ \A p \in Requests : p # q => applied'[p] = applied[p]
      /\ input' \in Keys
      /\ receipts[q].sources => After \in catalog
  <2>1. CASE Apply(q)
    BY <2>1, ApplyCounts DEF NoReceipt
  <2>2. CASE Recorded(q) /\ UNCHANGED <<input, applied>>
    BY <2>2 DEF ApplyAndReview, WorkInv, MemoryKept, Kept, Open, Recorded, Tasks
  <2> QED BY <2>1, <2>2 DEF ApplyAndReview
<1>3. /\ catalog \subseteq Keys /\ analysing \subseteq Requests \X BOOLEAN
      /\ receipts \in [Requests -> Receipt]
  BY DEF WorkInv, Tasks, MemoryKept, Kept
<1>4. SavedKept'
  BY <1>1 DEF WorkInv, SavedKept
<1>5. ASSUME NEW runs \in SUBSET Keys, catalog \subseteq runs, After \in runs,
             Concludes(q, runs), UNCHANGED analysing
      PROVE  WorkInv'
  <2>1. MemoryKept' /\ FollowUps' /\ evaluator' \in Evaluators
    BY <1>1, <1>2, <1>5, ConcludesKeeps DEF WorkInv
  <2> QED BY <1>1, <1>2, <1>4, <1>5, <2>1 DEF WorkInv, Tasks
<1>6. ASSUME NEW stage \in {"running", "failed"}, Saves(q, stage, FALSE),
             UNCHANGED <<evaluator, evaluations, catalog>>,
             analysing' = analysing \/ (stage = "running" /\ analysing' = analysing \cup {<<q, TRUE>>})
      PROVE  WorkInv'
  <2>1. receipts' = [receipts EXCEPT ![q] = [stage |-> stage, sources |-> FALSE]]
    BY <1>6 DEF Saves
  <2>2. MemoryKept'
    <3>1. Kept(receipts', applied', job, evaluations, catalog)
      BY <1>1, <1>2, <2>1, KeptSaves DEF WorkInv, MemoryKept
    <3> QED BY <1>1, <1>6, <3>1 DEF MemoryKept
  <2>3. Tasks'
    <3>1. analysing' \subseteq Requests \X BOOLEAN
      <4>1. <<q, TRUE>> \in Requests \X BOOLEAN
        OBVIOUS
      <4> QED BY <1>3, <1>6, <4>1, Zenon
    <3> QED BY <1>1, <1>2, <1>6, <3>1 DEF WorkInv, Tasks
  <2>4. FollowUps'
    <3>1. \A p \in Requests : p # q => receipts'[p] = receipts[p]
      BY <1>3, <2>1
    <3>2. receipts'[q].stage = stage
      BY <1>3, <2>1
    <3>3. ASSUME NEW p \in Requests
          PROVE  /\ <<p, TRUE>> \in analysing' => receipts'[p].stage = "running"
                 /\ evaluator'.by = p /\ evaluator'.live =>
                      receipts'[p] = Runs(p) /\ <<p, TRUE>> \notin analysing'
      <4>1. CASE p = q
        BY <1>1, <1>6, <3>2, <4>1
      <4>2. CASE p # q
        BY <1>6, <3>1, <4>2 DEF WorkInv, FollowUps
      <4> QED BY <4>1, <4>2
    <3> QED BY <3>3 DEF FollowUps
  <2> QED BY <1>4, <2>2, <2>3, <2>4 DEF WorkInv
<1>7. CASE receipts[q].sources /\ Concludes(q, catalog) /\ UNCHANGED analysing
  BY <1>2, <1>3, <1>5, <1>7
<1>8. CASE Concludes(q, catalog \cup {After}) /\ UNCHANGED analysing
  <2>1. catalog \cup {After} \in SUBSET Keys
    BY <1>3
  <2> QED BY <1>5, <1>8, <2>1
<1>9. CASE /\ analysing' = analysing \cup {<<q, TRUE>>} /\ Saves(q, "running", FALSE)
           /\ UNCHANGED <<evaluator, evaluations, catalog>>
  BY <1>6, <1>9
<1>10. CASE /\ Saves(q, "failed", FALSE)
            /\ UNCHANGED <<evaluator, evaluations, catalog, analysing>>
  BY <1>6, <1>10
<1> QED BY <1>7, <1>8, <1>9, <1>10 DEF ApplyAndReview
\* An analysis answers into the session it was started in, or into none.
LEMMA AnalysisAnswersKeeps ==
  ASSUME WorkInv, NEW q \in Requests, NEW live \in BOOLEAN, AnalysisAnswers(q, live)
  PROVE  WorkInv'
<1>1. /\ <<q, live>> \in analysing /\ analysing' = analysing \ {<<q, live>>}
      /\ UNCHANGED <<input, session, job, applied, review, saved>>
  BY DEF AnalysisAnswers
<1>2. SavedKept'
  BY <1>1 DEF WorkInv, SavedKept
<1>3. /\ catalog \subseteq Keys /\ analysing \subseteq Requests \X BOOLEAN
      /\ receipts \in [Requests -> Receipt] /\ analysing' \subseteq Requests \X BOOLEAN
  BY <1>1 DEF WorkInv, Tasks, MemoryKept, Kept
<1>4. CASE Verified(live)
  <2>1. live /\ <<q, TRUE>> \in analysing /\ analysing' = analysing \ {<<q, TRUE>>}
    <3>1. live = TRUE
      BY <1>4 DEF Verified
    <3> QED BY <1>1, <3>1
  <2>2. receipts[q].stage = "running" /\ ~(evaluator.by = q /\ evaluator.live)
    BY <2>1 DEF WorkInv, FollowUps
  <2>3. /\ job # "none" /\ Base \in evaluations
        /\ applied \in [Requests -> Nat] /\ applied[q] = 1
    BY <2>2 DEF WorkInv, MemoryKept, Kept, Open
  <2>4. CASE Concludes(q, IF live THEN catalog \cup {After} ELSE catalog)
    <3>1. catalog \cup {After} \in SUBSET Keys
      BY <1>3
    <3>2. Concludes(q, catalog \cup {After})
      <4>1. (IF live THEN catalog \cup {After} ELSE catalog) = catalog \cup {After}
        BY <2>1
      <4> QED BY <2>4, <4>1
    <3>3. MemoryKept' /\ FollowUps' /\ evaluator' \in Evaluators
      BY <1>1, <2>1, <2>2, <2>3, <3>1, <3>2, ConcludesKeeps DEF WorkInv
    <3> QED BY <1>1, <1>2, <1>3, <3>3 DEF WorkInv, Tasks
  <2>5. CASE Refused /\ Saves(q, "failed", FALSE) /\ UNCHANGED catalog
    <3>1. /\ receipts' = [receipts EXCEPT ![q] = [stage |-> "failed", sources |-> FALSE]]
          /\ UNCHANGED <<evaluator, evaluations, catalog>>
      BY <2>5 DEF Saves, Refused
    <3>2. MemoryKept'
      <4>1. Kept(receipts', applied, job, evaluations, catalog)
        BY <2>3, <3>1, KeptSaves DEF WorkInv, MemoryKept
      <4> QED BY <1>1, <3>1, <4>1 DEF MemoryKept
    <3>3. Tasks'
      BY <1>1, <1>3, <3>1 DEF WorkInv, Tasks
    <3>4. \A p \in Requests : p # q => receipts'[p] = receipts[p]
      BY <1>3, <3>1
    <3>5. FollowUps'
      BY <2>1, <2>2, <3>1, <3>4 DEF WorkInv, FollowUps
    <3> QED BY <1>2, <3>2, <3>3, <3>5 DEF WorkInv
  <2> QED BY <1>4, <2>4, <2>5 DEF AnalysisAnswers
<1>5. CASE ~Verified(live)
  <2>1. UNCHANGED <<evaluator, evaluations, catalog, receipts>>
    BY <1>5 DEF AnalysisAnswers, Refused
  <2>2. MemoryKept'
    BY <1>1, <2>1 DEF WorkInv, MemoryKept
  <2>3. FollowUps'
    BY <1>1, <2>1 DEF WorkInv, FollowUps
  <2> QED BY <1>1, <1>2, <1>3, <2>1, <2>2, <2>3 DEF WorkInv, Tasks
<1> QED BY <1>4, <1>5

\* An evaluation that ends settles the receipt of the follow-up that awaited it.
LEMMA EvaluationEndsKeeps ==
  ASSUME WorkInv, EvaluationEnds
  PROVE  WorkInv'
<1>1. /\ evaluator' = Ready
      /\ UNCHANGED <<input, session, catalog, job, applied, analysing, review, saved>>
  BY DEF EvaluationEnds
<1>2. PICK ok \in BOOLEAN :
        /\ evaluations' = IF ok THEN evaluations \cup {evaluator.input} ELSE evaluations
        /\ FollowUp(evaluator.by, ok)
        /\ ok => Stands
  BY DEF EvaluationEnds
<1>3. PICK more \in SUBSET Keys : evaluations' = evaluations \cup more
  <2>1. ok => evaluator.input \in Keys
    BY <1>2 DEF Stands, Current, WorkInv, Tasks
  <2>2. CASE ok
    BY <1>2, <2>1, <2>2
  <2>3. CASE ~ok
    <3>1. evaluations' = evaluations \cup {}
      BY <1>2, <2>3
    <3> QED BY <3>1
  <2> QED BY <2>2, <2>3
<1>4. Ready \in Evaluators
  BY DEF Ready, Evaluators
<1>5. Tasks' /\ SavedKept'
  BY <1>1, <1>4 DEF WorkInv, Tasks, SavedKept
<1>6. /\ Kept(receipts, applied, job, evaluations', catalog)
      /\ receipts \in [Requests -> Receipt]
  <2>1. Kept(receipts, applied, job, evaluations \cup more, catalog \cup {})
    BY KeptGrows DEF WorkInv, MemoryKept
  <2> QED BY <1>3, <2>1 DEF WorkInv, MemoryKept, Kept
<1>7. CASE receipts' = receipts
  BY <1>1, <1>5, <1>6, <1>7 DEF WorkInv, MemoryKept, FollowUps, Ready
<1>8. CASE receipts' # receipts
  <2>1. PICK q \in Requests : evaluator.by = q /\ evaluator.live
    <3>1. ASSUME \A q \in Requests : evaluator.by # q \/ ~evaluator.live
          PROVE  receipts' = [q \in Requests |-> receipts[q]]
      BY <1>2, <3>1 DEF FollowUp
    <3>2. receipts = [q \in Requests |-> receipts[q]]
      BY <1>6
    <3> QED BY <1>8, <3>1, <3>2
  <2>2. receipts[q] = Runs(q) /\ <<q, TRUE>> \notin analysing
    BY <2>1 DEF WorkInv, FollowUps
  <2>3. PICK stage \in {"completed", "failed"} : receipts'[q] = [receipts[q] EXCEPT !.stage = stage]
    <3>1. receipts'[q] = receipts[q] \/ receipts'[q] = [receipts[q] EXCEPT !.stage = IF ok THEN "completed" ELSE "failed"]
      BY <1>2 DEF FollowUp
    <3>2. \A p \in Requests : p # q => receipts'[p] = receipts[p]
      BY <1>2, <2>1 DEF FollowUp
    <3>3. receipts' = [p \in Requests |-> receipts'[p]] /\ receipts = [p \in Requests |-> receipts[p]]
      BY <1>2, <1>6 DEF FollowUp
    <3>4. receipts'[q] # receipts[q]
      <4>1. ASSUME receipts'[q] = receipts[q]
            PROVE  \A p \in Requests : receipts'[p] = receipts[p]
        BY <3>2, <4>1
      <4> QED BY <1>8, <3>3, <4>1, Zenon
    <3> QED BY <3>1, <3>4
  <2>4. /\ receipts'[q].stage = stage /\ receipts'[q].sources = receipts[q].sources
        /\ receipts[q].sources /\ receipts[q].stage = "running"
    BY <2>2, <2>3, <1>6 DEF Receipt, Runs
  <2>5. /\ \A p \in Requests : p # q => receipts'[p] = receipts[p]
        /\ receipts'[q] \in Receipt
    <3>1. receipts[q] \in Receipt
      BY <1>6
    <3> QED BY <1>2, <2>1, <2>3, <3>1 DEF FollowUp, Receipt
  <2>6. receipts' \in [Requests -> Receipt]
    BY <1>2, <1>6, <2>5 DEF FollowUp
  <2>7. Kept(receipts', applied, job, evaluations', catalog)
    BY <1>6, <2>4, <2>5, <2>6 DEF Kept, Open
  <2>8. MemoryKept'
    BY <1>1, <2>7 DEF MemoryKept
  <2>9. FollowUps'
    BY <1>1, <2>2, <2>5 DEF WorkInv, FollowUps, Ready
  <2> QED BY <1>5, <2>8, <2>9 DEF WorkInv
<1> QED BY <1>7, <1>8
\* The tasks that a disposal or a restoration has overtaken.
LEMMA Overtaken ==
  ASSUME NEW old \in SUBSET (Requests \X BOOLEAN)
  PROVE  /\ {<<t[1], FALSE>> : t \in old} \subseteq Requests \X BOOLEAN
         /\ \A q \in Requests : <<q, TRUE>> \notin {<<t[1], FALSE>> : t \in old}
<1>1. ASSUME NEW t \in old
      PROVE  <<t[1], FALSE>> \in Requests \X BOOLEAN
  <2>1. t[1] \in Requests
    OBVIOUS
  <2> QED BY <2>1
<1>2. ASSUME NEW q, NEW t, <<q, TRUE>> = <<t[1], FALSE>>
      PROVE  FALSE
  BY <1>2
<1> QED BY <1>1, <1>2, Zenon

\* A disposal leaves nothing to keep, and its tasks belong to no session.
LEMMA DisposeKeeps ==
  ASSUME WorkInv, NEW end \in {"hidden", "released"}, Dispose(end)
  PROVE  Tasks' /\ MemoryKept' /\ FollowUps'
<1>1. /\ catalog' = {} /\ evaluations' = {} /\ job' = "none"
      /\ receipts' = [q \in Requests |-> NoReceipt]
      /\ applied' = [q \in Requests |-> 0]
      /\ analysing' = {<<t[1], FALSE>> : t \in analysing}
      /\ input' = input /\ session' = end
  BY DEF Dispose, Empty
<1>2. MemoryKept'
  BY <1>1, NothingKept DEF MemoryKept
<1>3. /\ analysing' \subseteq Requests \X BOOLEAN
      /\ \A q \in Requests : <<q, TRUE>> \notin analysing'
  BY <1>1, Overtaken DEF WorkInv, Tasks
<1>4. evaluator' \in Evaluators /\ (evaluator'.live => evaluator'.by = None)
  <2>1. CASE Evaluating
    BY <2>1 DEF Dispose, WorkInv, Tasks, Evaluators
  <2>2. CASE ~Evaluating
    BY <2>2 DEF Dispose, WorkInv, Tasks, Evaluating, Ready
  <2> QED BY <2>1, <2>2
<1>5. review' \in [input : Keys \cup {None}, aborted : BOOLEAN]
  BY DEF Dispose, WorkInv, Tasks
<1>6. Tasks'
  BY <1>1, <1>3, <1>4, <1>5 DEF WorkInv, Tasks
<1>7. FollowUps'
  BY <1>3, <1>4 DEF FollowUps
<1> QED BY <1>2, <1>6, <1>7

\* A restoration brings back what the checkpoint has kept, into an idle runtime.
LEMMA RestoreKeeps ==
  ASSUME WorkInv, Restore
  PROVE  WorkInv'
<1>1. /\ Kept(saved.receipts, saved.applied, saved.job, saved.evaluations, saved.catalog)
      /\ saved.input \in Keys
  BY DEF Restore, WorkInv, SavedKept
<1>2. /\ input' = saved.input /\ catalog' = saved.catalog
      /\ evaluations' = saved.evaluations /\ job' = saved.job
      /\ receipts' = saved.receipts /\ applied' = saved.applied
      /\ session' = "open" /\ saved' = None
      /\ analysing' = {<<t[1], FALSE>> : t \in analysing}
      /\ UNCHANGED <<evaluator, review>> /\ evaluator = Ready
  BY DEF Restore, Evaluating
<1>3. MemoryKept'
  BY <1>1, <1>2 DEF MemoryKept
<1>4. /\ analysing' \subseteq Requests \X BOOLEAN
      /\ \A q \in Requests : <<q, TRUE>> \notin analysing'
  BY <1>2, Overtaken DEF WorkInv, Tasks
<1>5. Tasks'
  BY <1>1, <1>2, <1>4 DEF WorkInv, Tasks
<1>6. FollowUps' /\ SavedKept'
  BY <1>2, <1>4 DEF FollowUps, SavedKept, Ready
<1> QED BY <1>3, <1>5, <1>6 DEF WorkInv

\* Releases spare what an unfinished application still needs.
LEMMA ReleasesKeep ==
  ASSUME WorkInv, ReleaseCandidates \/ \E i \in Keys : ReleaseEvaluation(i)
  PROVE  WorkInv'
<1>1. CASE ReleaseCandidates
  <2>1. /\ job' = "none" /\ \A q \in Requests : ~Open(q, receipts)
        /\ UNCHANGED <<input, session, catalog, evaluations, receipts, applied,
                       evaluator, analysing, review, saved>>
    BY <1>1 DEF ReleaseCandidates, Recorded, Open
  <2>2. MemoryKept'
    BY <2>1 DEF WorkInv, MemoryKept, Kept
  <2> QED BY <2>1, <2>2 DEF WorkInv, Tasks, SavedKept, FollowUps
<1>2. CASE \E i \in Keys : ReleaseEvaluation(i)
  <2>1. PICK i \in Keys : ReleaseEvaluation(i)
    BY <1>2
  <2>2. /\ evaluations' = evaluations \ {i} /\ ~(job # "none" /\ i = Base)
        /\ UNCHANGED <<input, session, catalog, job, receipts, applied,
                       evaluator, analysing, review, saved>>
    BY <2>1 DEF ReleaseEvaluation
  <2>3. MemoryKept'
    BY <2>2 DEF WorkInv, MemoryKept, Kept
  <2> QED BY <2>2, <2>3 DEF WorkInv, Tasks, SavedKept, FollowUps
<1> QED BY <1>1, <1>2

\* The user's own evaluation belongs to no follow-up.
LEMMA EvaluateKeeps ==
  ASSUME WorkInv, Evaluate
  PROVE  WorkInv'
<1>1. /\ UNCHANGED <<input, session, catalog, job, receipts, applied, analysing,
                     review, saved>>
      /\ input \in Keys
  BY DEF Evaluate, WorkInv, Tasks
<1>2. /\ evaluations' = evaluations \cup {input} \/ evaluations' = evaluations \cup {}
      /\ \/ evaluator' = evaluator
         \/ evaluator' = [input |-> input, by |-> None, live |-> TRUE, aborted |-> FALSE]
  BY DEF Evaluate, Answered, Waits
<1>3. MemoryKept'
  <2>1. PICK more \in SUBSET Keys : evaluations' = evaluations \cup more
    BY <1>1, <1>2
  <2>2. Kept(receipts, applied, job, evaluations', catalog \cup {})
    BY <2>1, KeptGrows DEF WorkInv, MemoryKept
  <2>3. catalog \cup {} = catalog
    OBVIOUS
  <2> QED BY <1>1, <2>2, <2>3 DEF MemoryKept
<1>4. /\ evaluator' \in Evaluators
      /\ evaluator' = evaluator \/ evaluator'.by = None
  <2>1. [input |-> input, by |-> None, live |-> TRUE, aborted |-> FALSE] \in Evaluators
    BY <1>1 DEF Evaluators
  <2>2. evaluator \in Evaluators
    BY DEF WorkInv, Tasks
  <2>3. [input |-> input, by |-> None, live |-> TRUE, aborted |-> FALSE].by = None
    OBVIOUS
  <2> QED BY <1>2, <2>1, <2>2, <2>3, Zenon
<1>5. FollowUps'
  BY <1>1, <1>4 DEF WorkInv, FollowUps
<1> QED BY <1>1, <1>3, <1>4, <1>5 DEF WorkInv, Tasks, SavedKept
-----------------------------------------------------------------------------
(* The theorems. *)

IInv == SharedInv /\ WorkInv

LEMMA InitEstablishes == Init => IInv
<1> SUFFICES ASSUME Init PROVE IInv
  OBVIOUS
<1>1. SharedInv
  BY DEF Init, SharedInit, SharedInv, SharedTypes, PendingProduces, ProducersKeyed,
         SubscribersServed, FreeRow, NoCall, Row, Call
<1>2. MemoryKept
  BY NothingKept DEF Init, MemoryKept
<1>3. Ready \in Evaluators /\ NoReview \in [input : Keys \cup {None}, aborted : BOOLEAN]
  BY DEF Ready, Evaluators, NoReview
<1>4. Tasks /\ SavedKept /\ FollowUps
  BY <1>3 DEF Init, Tasks, SavedKept, FollowUps, Ready
<1> QED BY <1>1, <1>2, <1>4 DEF IInv, WorkInv

\* What an evaluate call comes to leaves the shared computation in order.
LEMMA AsksKeep ==
  ASSUME SharedInv, NEW i \in Keys, NEW by, NEW known, NEW runs,
         Answered(i, known, runs) \/ Waits(i, by, runs) \/ Refused
  PROVE  SharedInv'
<1>1. CASE Answered(i, known, runs) \/ Refused
  BY <1>1, UnchangedKeeps DEF Answered, Refused, sharedVars
<1>2. CASE Waits(i, by, runs)
  BY <1>2, RunKeeps DEF Waits
<1> QED BY <1>1, <1>2

LEMMA ConcludesShared ==
  ASSUME SharedInv, NEW q \in Requests, NEW runs, Concludes(q, runs)
  PROVE  SharedInv'
<1>1. Answered(After, evaluations, runs) \/ Waits(After, q, runs) \/ Refused
  BY DEF Concludes
<1> QED BY <1>1, AsksKeep

\* No step disturbs the shared computation.
LEMMA SharedStep == IInv /\ [Next]_vars => SharedInv'
<1> SUFFICES ASSUME SharedInv, input \in Keys, [Next]_vars PROVE SharedInv'
  BY DEF IInv, WorkInv, Tasks
<1> USE UnchangedKeeps
<1>0. CASE UNCHANGED vars
  BY <1>0 DEF vars, sharedVars
<1>1. CASE Edit \/ Analyse \/ FindCandidates \/ ReleaseCandidates \/ Resume
  BY <1>1 DEF Edit, Analyse, FindCandidates, ReleaseCandidates, Resume, sharedVars
<1>2. CASE \E r \in Rows : Work(r)
  BY <1>2, SettleKeeps DEF Work
<1>3. CASE Evaluate
  BY <1>3, AsksKeep DEF Evaluate
<1>4. CASE CancelEvaluation \/ StopReview
  BY <1>4, AbortKeeps DEF CancelEvaluation, StopReview
<1>5. CASE EvaluationEnds \/ ReviewEnds
  BY <1>5, TakenKeeps DEF EvaluationEnds, ReviewEnds
<1>6. CASE \E i \in Keys : ReleaseEvaluation(i)
  BY <1>6 DEF ReleaseEvaluation
<1>7. CASE \E q \in Requests : ApplyCandidate(q)
  BY <1>7 DEF ApplyCandidate, sharedVars
<1>8. CASE \E q \in Requests : ApplyAndReview(q)
  BY <1>8, ConcludesShared DEF ApplyAndReview, sharedVars
<1>9. CASE \E q \in Requests, live \in BOOLEAN : AnalysisAnswers(q, live)
  <2>1. PICK q \in Requests, live \in BOOLEAN : AnalysisAnswers(q, live)
    BY <1>9
  <2>2. Refused \/ Concludes(q, IF live THEN catalog \cup {After} ELSE catalog)
    BY <2>1 DEF AnalysisAnswers
  <2> QED BY <2>2, ConcludesShared DEF Refused, sharedVars
<1>10. CASE StartReview
  BY <1>10, RunKeeps DEF StartReview
<1>11. CASE Hide \/ Release \/ Restore
  BY <1>11, ClearKeeps DEF Hide, Release, Dispose, Restore
<1> QED
  BY <1>0, <1>1, <1>2, <1>3, <1>4, <1>5, <1>6, <1>7, <1>8, <1>9, <1>10, <1>11 DEF Next

\* No step loses what an application needs.
LEMMA WorkStep == WorkInv /\ [Next]_vars => WorkInv'
<1> SUFFICES ASSUME WorkInv, [Next]_vars PROVE WorkInv'
  OBVIOUS
<1>1. CASE UNCHANGED <<session, memory, evaluator, analysing, review, saved>> /\ input' \in Keys
  BY <1>1 DEF WorkInv, Tasks, MemoryKept, SavedKept, FollowUps, memory
<1>2. CASE UNCHANGED vars \/ Edit \/ \E r \in Rows : Work(r)
  BY <1>1, <1>2 DEF vars, Edit, Work, WorkInv, Tasks
<1>3. CASE Analyse
  <2>1. /\ catalog' = catalog \cup {input} /\ input \in Keys
        /\ UNCHANGED <<input, session, evaluations, job, receipts, applied, evaluator,
                       analysing, review, saved>>
    BY <1>3 DEF Analyse, WorkInv, Tasks
  <2>2. Kept(receipts, applied, job, evaluations \cup {}, catalog \cup {input})
    BY <2>1, KeptGrows DEF WorkInv, MemoryKept
  <2>3. evaluations \cup {} = evaluations
    OBVIOUS
  <2>4. MemoryKept'
    BY <2>1, <2>2, <2>3 DEF MemoryKept
  <2> QED BY <2>1, <2>4 DEF WorkInv, Tasks, SavedKept, FollowUps
<1>4. CASE Evaluate
  BY <1>4, EvaluateKeeps
<1>5. CASE CancelEvaluation
  <2>1. /\ evaluator' = [evaluator EXCEPT !.aborted = TRUE]
        /\ UNCHANGED <<input, session, memory, analysing, review, saved>>
    BY <1>5 DEF CancelEvaluation
  <2>2. /\ evaluator' \in Evaluators
        /\ evaluator'.by = evaluator.by /\ evaluator'.live = evaluator.live
    BY <2>1 DEF WorkInv, Tasks, Evaluators
  <2> QED BY <2>1, <2>2 DEF WorkInv, Tasks, MemoryKept, SavedKept, FollowUps, memory
<1>6. CASE EvaluationEnds
  BY <1>6, EvaluationEndsKeeps
<1>7. CASE ReleaseCandidates \/ \E i \in Keys : ReleaseEvaluation(i)
  BY <1>7, ReleasesKeep
<1>8. CASE FindCandidates
  <2>1. /\ job' \in Impacts /\ Base \in evaluations
        /\ UNCHANGED <<input, session, catalog, evaluations, receipts, applied,
                       evaluator, analysing, review, saved>>
    BY <1>8 DEF FindCandidates
  <2>2. MemoryKept'
    BY <2>1 DEF WorkInv, MemoryKept, Kept, Impacts
  <2> QED BY <2>1, <2>2 DEF WorkInv, Tasks, SavedKept, FollowUps
<1>9. CASE \E q \in Requests : ApplyCandidate(q) \/ ApplyAndReview(q)
  BY <1>9, ApplyCandidateKeeps, ApplyAndReviewKeeps
<1>10. CASE \E q \in Requests, live \in BOOLEAN : AnalysisAnswers(q, live)
  BY <1>10, AnalysisAnswersKeeps
<1>11. CASE StartReview \/ StopReview \/ ReviewEnds
  <2>1. review' \in [input : Keys \cup {None}, aborted : BOOLEAN]
    <3>1. /\ review \in [input : Keys \cup {None}, aborted : BOOLEAN]
          /\ input \in Keys
      BY DEF WorkInv, Tasks
    <3>2. CASE StartReview
      BY <3>1, <3>2 DEF StartReview
    <3>3. CASE StopReview
      BY <3>1, <3>3 DEF StopReview
    <3>4. CASE ReviewEnds
      BY <3>4 DEF ReviewEnds, NoReview
    <3> QED BY <1>11, <3>2, <3>3, <3>4
  <2>2. UNCHANGED <<input, session, memory, evaluator, analysing, saved>>
    BY <1>11 DEF StartReview, StopReview, ReviewEnds
  <2> QED BY <2>1, <2>2 DEF WorkInv, Tasks, MemoryKept, SavedKept, FollowUps, memory
<1>12. CASE Hide
  BY <1>12, DisposeKeeps DEF Hide, WorkInv, SavedKept
<1>13. CASE Release
  <2>1. SavedKept'
    BY <1>13 DEF Release, Checkpoint, WorkInv, Tasks, MemoryKept, SavedKept
  <2> QED BY <1>13, <2>1, DisposeKeeps DEF Release, WorkInv
<1>14. CASE Resume
  BY <1>14 DEF Resume, WorkInv, Tasks, MemoryKept, SavedKept, FollowUps, memory
<1>15. CASE Restore
  BY <1>15, RestoreKeeps
<1> QED
  BY <1>2, <1>3, <1>4, <1>5, <1>6, <1>7, <1>8, <1>9, <1>10, <1>11, <1>12, <1>13, <1>14, <1>15
     DEF Next

LEMMA Invariance == Spec => []IInv
<1>1. IInv /\ [Next]_vars => IInv'
  BY SharedStep, WorkStep DEF IInv
<1> QED BY InitEstablishes, <1>1, PTL DEF Spec

\* Type correctness of the rows, the calls, the receipts and the tasks.
THEOREM TypeCorrect == Spec => []TypeOK
<1>1. IInv => TypeOK
  BY DEF IInv, SharedInv, SharedTypes, Row, Call, WorkInv, Tasks, Evaluators, MemoryKept,
         Kept, Receipt, TypeOK
<1> QED BY Invariance, <1>1, PTL

\* Whoever waits for a shared computation waits on the row that is pending under
\* its key and that nobody has aborted (sharedComputation.js:5-23).
THEOREM WaitersServed == Spec => []SubscribersServed
<1>1. IInv => SubscribersServed
  BY DEF IInv, SharedInv
<1> QED BY Invariance, <1>1, PTL

\* However often it is retried, undone, released and restored, a request has
\* changed the model once if it has a receipt and never if it has none.
THEOREM AppliedOnce == Spec => []EveryChangeReceipted
<1>1. IInv => EveryChangeReceipted
  BY DEF IInv, WorkInv, MemoryKept, Kept, EveryChangeReceipted, Recorded
<1> QED BY Invariance, <1>1, PTL

\* What an unfinished application needs for its retry is never lost.
THEOREM RetryKept == Spec => []RetryPossible
<1>1. IInv => RetryPossible
  BY DEF IInv, WorkInv, MemoryKept, Kept, Open, RetryPossible, Recorded
<1> QED BY Invariance, <1>1, PTL
=============================================================================
