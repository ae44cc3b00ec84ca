-------------------------- MODULE PracticalWorkflow --------------------------
(***************************************************************************)
(* The practical design workflow of the page                               *)
(* (compute/product/practicalWorkflowService.js): evaluations of the       *)
(* current model, the candidates found for one of them, the application of *)
(* a candidate and the follow-up that analyses and evaluates the changed   *)
(* model; with the review of elasticReviewService.js, which asks the same  *)
(* SharedComputation, and the disposal, checkpoint and restoration of all  *)
(* of it (indexBridge.js).                                                 *)
(*                                                                         *)
(* A model is its input identity.  A plan is made from the evaluation of   *)
(* Base and its candidate turns Base into After; a job is what a search    *)
(* has found, the search itself is left out.  The sources of an evaluation *)
(* are analysis runs, kept as the identities they were made for.           *)
(*                                                                         *)
(* Bound: MaxApplications stands for the 64 receipts.                      *)
(***************************************************************************)
EXTENDS SharedComputation

CONSTANTS Base, After, Requests, MaxApplications

ASSUME WorkflowAssumption ==
  /\ {Base, After} \subseteq Keys /\ Base # After
  /\ Callers = {"evaluate", "review"}
  /\ None \notin Requests

VARIABLES
  input,        \* identity of the model the user is editing
  session,      \* open, or disposed of by a release or with its page
  catalog,      \* identities with a retained analysis run
  evaluations,  \* evaluations, by the identity of their model
  job,          \* a job with a candidate, by what the candidate requires next
  receipts,     \* applications
  evaluator,    \* evaluationController and the evaluate call that owns it
  analysing,    \* follow-ups that await the analysis of the changed model
  review,       \* reviewController and the startReviewAsync call that owns it
  saved,        \* the checkpoint
  applied       \* how often a request has changed the model of this session

memory == <<catalog, evaluations, job, receipts, applied>>
vars == <<sharedVars, input, session, memory, evaluator, analysing,
          review, saved>>

Impacts == {"reuse", "reanalysis"}
NoReceipt == [stage |-> "none", sources |-> FALSE]
Ready == [input |-> None, by |-> None, live |-> TRUE, aborted |-> FALSE]
NoReview == [input |-> None, aborted |-> FALSE]

Empty == \* what dispose leaves
  /\ catalog' = {}
  /\ evaluations' = {}
  /\ job' = "none"
  /\ receipts' = [q \in Requests |-> NoReceipt]
  /\ applied' = [q \in Requests |-> 0]

Init ==
  /\ SharedInit
  /\ input = Base
  /\ session = "open"
  /\ catalog = {} /\ evaluations = {} /\ job = "none"
  /\ receipts = [q \in Requests |-> NoReceipt]
  /\ applied = [q \in Requests |-> 0]
  /\ evaluator = Ready /\ analysing = {} /\ review = NoReview
  /\ saved = None

Disposed == session # "open"
Current(i) == ~Disposed /\ input = i
Evaluating == evaluator # Ready
Recorded(q) == receipts[q].stage # "none"
InFlight(q) == <<q, TRUE>> \in analysing \/ (evaluator.by = q /\ evaluator.live)
Reviewed == {q \in Requests : InFlight(q)} \* applicationReviews
-----------------------------------------------------------------------------
(* The model and its analyses. *)

Edit ==
  /\ \E i \in Keys \ {input} : input' = i
  /\ UNCHANGED <<sharedVars, session, memory, evaluator, analysing,
                 review, saved>>

Analyse ==
  /\ catalog' = catalog \cup {input}
  /\ UNCHANGED <<sharedVars, input, session, evaluations, job, receipts,
                 applied, evaluator, analysing, review, saved>>
-----------------------------------------------------------------------------
(* evaluate. *)

\* What a call comes to before its first await: an evaluation or a cached result
\* is there, a computation is joined or created, or the call is refused (another
\* one runs, a source or the memory is missing, too many computations).
Answered(i, known, runs) ==
  /\ ~Evaluating /\ i \in runs
  /\ i \in known \/ IsCached(i)
  /\ evaluations' = known \cup {i}
  /\ UNCHANGED <<sharedVars, evaluator>>

Waits(i, by, runs) ==
  /\ ~Evaluating /\ i \in runs
  /\ i \notin evaluations /\ ~IsCached(i)
  /\ Run("evaluate", i)
  /\ evaluator' = [input |-> i, by |-> by, live |-> TRUE, aborted |-> FALSE]
  /\ UNCHANGED <<cached, evaluations>>

Refused == UNCHANGED <<sharedVars, evaluator, evaluations>>

Evaluate ==
  /\ ~Disposed
  /\ Answered(input, evaluations, catalog) \/ Waits(input, None, catalog)
  /\ UNCHANGED <<input, session, catalog, job, receipts, applied, analysing,
                 review, saved>>

CancelEvaluation ==
  /\ Evaluating /\ ~evaluator.aborted
  /\ evaluator' = [evaluator EXCEPT !.aborted = TRUE]
  /\ Abort("evaluate")
  /\ UNCHANGED <<cached, input, session, memory, analysing, review, saved>>

Stands == \* the checks of an evaluation after its await
  /\ Current(evaluator.input)
  /\ evaluator.live /\ ~evaluator.aborted
  /\ evaluator.input \in catalog

\* What the end of an evaluation makes of the follow-up that asked for it.
FollowUp(by, ok) ==
  receipts' = [q \in Requests |->
    IF by # q \/ ~evaluator.live \/ ~Current(After) THEN receipts[q]
    ELSE [receipts[q] EXCEPT !.stage = IF ok THEN "completed" ELSE "failed"]]

EvaluationEnds ==
  /\ Evaluating /\ call["evaluate"].row = None
  /\ \E ok \in {FALSE, call["evaluate"].answer = "value" /\ Stands} :
       /\ evaluations' = IF ok THEN evaluations \cup {evaluator.input} ELSE evaluations
       /\ cached' \in IF ok THEN {cached, Put(evaluator.input)} ELSE {cached}
       /\ FollowUp(evaluator.by, ok)
  /\ evaluator' = Ready
  /\ call' = [call EXCEPT !["evaluate"] = NoCall]
  /\ UNCHANGED <<pending, rows, input, session, catalog, job, applied, analysing,
                 review, saved>>

ReleaseEvaluation(i) ==
  /\ i \in evaluations
  /\ ~Evaluating /\ Reviewed = {}
  /\ ~(job # "none" /\ i = Base)
  /\ evaluations' = evaluations \ {i}
  /\ cached' = Evict(i)
  /\ UNCHANGED <<pending, rows, call, input, session, catalog, job, receipts,
                 applied, evaluator, analysing, review, saved>>
-----------------------------------------------------------------------------
(* Candidates. *)

FindCandidates ==
  /\ job = "none"
  /\ Current(Base) /\ Base \in evaluations
  /\ \E impact \in Impacts : job' = impact
  /\ UNCHANGED <<sharedVars, input, session, catalog, evaluations, receipts,
                 applied, evaluator, analysing, review, saved>>

ReleaseCandidates ==
  /\ job # "none"
  /\ Reviewed = {}
  /\ \A q \in Requests : Recorded(q) => receipts[q].stage = "completed"
  /\ job' = "none"
  /\ UNCHANGED <<sharedVars, input, session, catalog, evaluations, receipts,
                 applied, evaluator, analysing, review, saved>>
-----------------------------------------------------------------------------
(* The application of a candidate and its follow-up. *)

\* The receipt has its place before the model is touched.
Slots == Cardinality({q \in Requests : Recorded(q)}) < MaxApplications

Apply_Again(q) == \* mutant: an earlier receipt of the request is not looked up
  /\ job # "none" /\ Current(Base) /\ Base \in evaluations \cap catalog
  /\ Slots
  /\ input' = After
  /\ applied' = [applied EXCEPT ![q] = @ + 1]

Apply(q) ==
  /\ ~Recorded(q)
  /\ job # "none" /\ Current(Base) /\ Base \in evaluations \cap catalog
  /\ Slots
  /\ input' = After
  /\ applied' = [applied EXCEPT ![q] = @ + 1]

ApplyCandidate(q) ==
  /\ Apply(q)
  /\ receipts' = [receipts EXCEPT ![q].stage = "applied"]
  /\ UNCHANGED <<sharedVars, session, catalog, evaluations, job, evaluator,
                 analysing, review, saved>>

Saves(q, stage, sources) ==
  receipts' = [receipts EXCEPT ![q] = [stage |-> stage, sources |-> sources]]

\* The evaluation that ends a follow-up, from the analysis runs it has found.
Concludes(q, runs) ==
  /\ catalog' = runs
  /\ \/ Answered(After, evaluations, runs) /\ Saves(q, "completed", TRUE)
     \/ Waits(After, q, runs) /\ Saves(q, "running", TRUE)
     \/ Refused /\ Saves(q, "failed", TRUE)

\* A request whose follow-up is running joins it, one that is completed is
\* answered from its receipt, and any other continues from its receipt.
ApplyAndReview(q) ==
  /\ ~InFlight(q) /\ receipts[q].stage # "completed"
  /\ job # "none" /\ Base \in evaluations
  /\ \/ Apply(q)
     \/ Recorded(q) /\ Current(After) /\ UNCHANGED <<input, applied>>
  /\ \/ /\ receipts[q].sources
        /\ Concludes(q, catalog)
        /\ UNCHANGED analysing
     \/ /\ ~receipts[q].sources /\ job = "reuse" /\ Base \in catalog
        /\ Concludes(q, catalog \cup {After})
        /\ UNCHANGED analysing
     \/ /\ ~receipts[q].sources /\ job = "reanalysis"
        /\ analysing' = analysing \cup {<<q, TRUE>>}
        /\ Saves(q, "running", FALSE)
        /\ UNCHANGED <<sharedVars, evaluator, evaluations, catalog>>
     \/ /\ ~receipts[q].sources
        /\ Saves(q, "failed", FALSE)
        /\ UNCHANGED <<sharedVars, evaluator, evaluations, catalog, analysing>>
  /\ UNCHANGED <<session, job, review, saved>>

Verified_AnySession(live) == Current(After) \* mutant: the session is not compared

Verified(live) == live /\ Current(After)

\* The run belongs to the session that started it.
AnalysisAnswers(q, live) ==
  /\ <<q, live>> \in analysing
  /\ analysing' = analysing \ {<<q, live>>}
  /\ IF Verified(live)
     THEN \/ Concludes(q, IF live THEN catalog \cup {After} ELSE catalog)
          \/ Refused /\ Saves(q, "failed", FALSE) /\ UNCHANGED catalog
     ELSE Refused /\ UNCHANGED <<catalog, receipts>>
  /\ UNCHANGED <<input, session, job, applied, review, saved>>
-----------------------------------------------------------------------------
(* startReviewAsync. *)

\* The first part of a review; its own worker shares nothing.
StartReview ==
  /\ review = NoReview /\ input \in catalog
  /\ ~IsCached(input) /\ Run("review", input)
  /\ review' = [input |-> input, aborted |-> FALSE]
  /\ UNCHANGED <<cached, input, session, memory, evaluator, analysing, saved>>

\* cancelReview, or the timer.
StopReview ==
  /\ review # NoReview /\ ~review.aborted
  /\ review' = [review EXCEPT !.aborted = TRUE]
  /\ Abort("review")
  /\ UNCHANGED <<cached, input, session, memory, evaluator, analysing, saved>>

\* The result is cached when the review has been recorded.
ReviewEnds ==
  /\ review # NoReview /\ call["review"].row = None
  /\ \/ UNCHANGED cached
     \/ /\ call["review"].answer = "value" /\ ~review.aborted
        /\ input = review.input /\ input \in catalog
        /\ cached' = Put(input)
  /\ review' = NoReview
  /\ call' = [call EXCEPT !["review"] = NoCall]
  /\ UNCHANGED <<pending, rows, input, session, memory, evaluator, analysing, saved>>
-----------------------------------------------------------------------------
(* Disposal, checkpoint and restoration. *)

Checkpoint == \* exportState, with the model and the catalog
  [input |-> input, catalog |-> catalog, evaluations |-> evaluations,
   job |-> job, receipts |-> receipts, applied |-> applied]

\* disposeRuntime.  A follow-up that awaits an analysis goes on.
Dispose(end) ==
  /\ Clear /\ cached' = <<>>
  /\ Empty
  /\ session' = end
  /\ evaluator' = IF Evaluating THEN [evaluator EXCEPT !.aborted = TRUE, !.live = FALSE] ELSE evaluator
  /\ review' = IF review # NoReview THEN [review EXCEPT !.aborted = TRUE] ELSE review
  /\ analysing' = {<<t[1], FALSE>> : t \in analysing}
  /\ UNCHANGED input

Hide == saved = None /\ Dispose("hidden") /\ UNCHANGED saved

\* pageshow
Resume ==
  /\ session = "hidden"
  /\ session' = "open"
  /\ UNCHANGED <<sharedVars, input, memory, evaluator, analysing, review, saved>>

\* The checkpoint that is compared with the session before it is released.
Release ==
  /\ saved = None
  /\ saved' = Checkpoint
  /\ Dispose("released")

\* restoreState asks for an empty runtime and the bridge for an empty catalog.
Restore ==
  /\ saved # None
  /\ evaluations = {} /\ job = "none" /\ (\A q \in Requests : ~Recorded(q)) /\ catalog = {}
  /\ ~Evaluating /\ Reviewed = {}
  /\ Clear /\ cached' = <<>>
  /\ input' = saved.input
  /\ catalog' = saved.catalog /\ evaluations' = saved.evaluations
  /\ job' = saved.job /\ receipts' = saved.receipts /\ applied' = saved.applied
  /\ session' = "open"
  /\ saved' = None
  /\ analysing' = {<<t[1], FALSE>> : t \in analysing}
  /\ UNCHANGED <<evaluator, review>>
-----------------------------------------------------------------------------
Work(r) ==
  /\ Settle(r)
  /\ UNCHANGED <<input, session, memory, evaluator, analysing, review, saved>>

Next ==
  \/ Edit \/ Analyse
  \/ \E r \in Rows : Work(r)
  \/ Evaluate \/ CancelEvaluation \/ EvaluationEnds
  \/ \E i \in Keys : ReleaseEvaluation(i)
  \/ FindCandidates \/ ReleaseCandidates
  \/ \E q \in Requests : ApplyCandidate(q) \/ ApplyAndReview(q)
  \/ \E q \in Requests, live \in BOOLEAN : AnalysisAnswers(q, live)
  \/ StartReview \/ StopReview \/ ReviewEnds
  \/ Hide \/ Resume \/ Release \/ Restore

Spec == Init /\ [][Next]_vars
-----------------------------------------------------------------------------
\* The types; a checkpoint has those of what it was taken from.
TypeOK ==
  /\ pending \in [Keys -> Rows \cup {None}]
  /\ rows \in [Rows -> [key : Keys \cup {None}, state : {"free", "producing"},
                       aborted : BOOLEAN]]
  /\ call \in [Callers -> [row : Rows \cup {None},
                           answer : {"none", "value", "failure"}]]
  /\ input \in Keys /\ session \in {"open", "hidden", "released"}
  /\ catalog \subseteq Keys /\ evaluations \subseteq Keys
  /\ job \in Impacts \cup {"none"}
  /\ receipts \in [Requests -> [stage : {"none", "applied", "running", "failed", "completed"},
                                sources : BOOLEAN]]
  /\ applied \in [Requests -> Nat]
  /\ analysing \subseteq Requests \X BOOLEAN
  /\ evaluator \in [input : Keys \cup {None}, by : Requests \cup {None},
                    live : BOOLEAN, aborted : BOOLEAN]
  /\ review \in [input : Keys \cup {None}, aborted : BOOLEAN]

\* A request changes the model at most once, over retries, undone changes, failures
\* and restorations, and every change it made has its receipt (applyCandidate).
EveryChangeReceipted ==
  \A q \in Requests : applied[q] = IF Recorded(q) THEN 1 ELSE 0

\* An application whose follow-up is not completed can be taken up again: its job,
\* the evaluation of its plan and the analysis runs it has recorded are retained,
\* whatever is released, disposed of, restored or answered late.
RetryPossible ==
  \A q \in Requests :
    Recorded(q) /\ receipts[q].stage # "completed" =>
      /\ job # "none" /\ Base \in evaluations
      /\ receipts[q].sources => After \in catalog
=============================================================================
