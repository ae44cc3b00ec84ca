------------------------------ MODULE DesignInput ------------------------------
(***************************************************************************)
(* Design input transactions of a page (modeling/designInputService.js)    *)
(* and the checkpoint that saves and restores them (ui/indexBridge.js).    *)
(*                                                                         *)
(* A request is previewed against the model, applied if the model is still *)
(* the one it was previewed against, undone and redone.  A row of the      *)
(* history keeps the model before the request and, as its mark, the        *)
(* identity the model must have for the row to be undone; a row of the     *)
(* future the model after the request and the identity needed to redo it.  *)
(* Every commit raises the input revision of the model.  All of it is      *)
(* synchronous but the restore, which awaits the read of the checkpoint.   *)
(* The other editors of the page write the same model without the service, *)
(* and one service serves all model pages.                                 *)
(*                                                                         *)
(* The identity of a model is a hash of all its input and stands for it.   *)
(* Bounds: Pages; MaxCommits on revisions and commits, MaxForeign on edits *)
(* by others and page changes.  MaxPlans, MaxRequests and MaxUndo are the  *)
(* limits 64, 256 and 20 of the code.                                      *)
(***************************************************************************)
EXTENDS Integers, FiniteSets, SequencesExt

CONSTANTS Pages,      \* models of the page, each an object that persists
          Ids,        \* request ids
          Inputs,     \* what design input requests write
          Others,     \* the rest of a model
          Initial,    \* contents the pages open with
          Invalid,    \* contents that fail validateModel
          Locked,     \* values of the rest that forbid editing
          None,
          MaxPlans, MaxRequests, MaxUndo, MaxCommits, MaxForeign

Contents == [inputs : Inputs, other : Others]
Model == [content : Contents, rev : 0..MaxCommits]
Receipt == [inputs : Inputs, undone : BOOLEAN]

ASSUME DesignAssumption ==
  /\ Pages # {} /\ Inputs # {} /\ Others # {}
  /\ Initial \subseteq Contents /\ Invalid \subseteq Contents /\ Locked \subseteq Others
  /\ None \notin Pages \cup Ids \cup Inputs \cup Others \cup Model \cup Receipt
  /\ {MaxPlans, MaxRequests, MaxUndo} \subseteq Nat \ {0}
  /\ {MaxCommits, MaxForeign} \subseteq Nat

VARIABLES
  models,     \* the model of a page
  page,       \* the page that is shown
  plans,      \* previews that may still be applied, oldest first
  requests,   \* what was asked under an id, and whether it stands undone
  history, future,
  epoch,      \* commits of the service
  saved,      \* the checkpoint
  reading,    \* the restore that awaits the checkpoint: its page and model
  foreign,    \* edits by others and page changes
  turns       \* others edit, and pages change, only between histories

service == <<plans, requests, history, future, epoch>>
vars == <<models, page, service, saved, reading, foreign, turns>>

current == models[page]

KnownIn(receipts) == {i \in Ids : receipts[i] # None}
Known == KnownIn(requests)
Editable(m) == m.content.other \notin Locked
Valid(m) == m.content \notin Invalid

\* The model after the commands of a request.
Stage(m, inputs) == [m EXCEPT !.content.inputs = inputs]

\* next as a commit leaves it: one input revision after the model it replaces.
prepareCommit(m, next) == [next EXCEPT !.rev = m.rev + 1]

Empty == requests = [i \in Ids |-> None] /\ plans = <<>> /\ history = <<>> /\ future = <<>>

Init ==
  /\ \E c \in Initial : models = [p \in Pages |-> [content |-> c, rev |-> 0]]
  /\ page \in Pages
  /\ Empty
  /\ epoch = 0
  /\ saved = None /\ reading = None
  /\ foreign = 0
  /\ turns \in BOOLEAN

\* With turns, nobody works while a restore reads.
MayWork == turns => reading = None

Bounded == current.rev < MaxCommits /\ epoch < MaxCommits
-----------------------------------------------------------------------------
preview_NeverEvicts(id, inputs) == \* mutant: old previews stay
  /\ MayWork /\ Editable(current) /\ Valid(Stage(current, inputs))
  /\ id \in Known => requests[id].inputs = inputs
  /\ plans' = Append(plans, [page |-> page, id |-> id, inputs |-> inputs,
                             source |-> current, epoch |-> epoch])
  /\ UNCHANGED <<models, page, requests, history, future, epoch, saved, reading, foreign, turns>>

preview(id, inputs) ==
  LET next == Stage(current, inputs)
      kept == IF Len(plans) >= MaxPlans THEN Tail(plans) ELSE plans
  IN /\ MayWork
     /\ Editable(current) /\ Valid(next)
     /\ id \in Known => requests[id].inputs = inputs          \* REQUEST_ID_CONFLICT
     /\ \/ plans' = kept                                      \* the memory budget refuses
        \/ plans' = Append(kept, [page |-> page, id |-> id, inputs |-> inputs,
                                  source |-> current, epoch |-> epoch])
     /\ UNCHANGED <<models, page, requests, history, future, epoch, saved, reading, foreign, turns>>

Fresh_Repeated(plan) == \* mutant: the receipt is not looked up
  /\ plan.page = page /\ Editable(current)
  /\ plan.epoch = epoch /\ plan.source = current

\* A plan may be applied while it is kept, and only to what it was made for.
Fresh(plan) ==
  /\ plan.page = page                                         \* PROJECT_CHANGED
  /\ Editable(current)
  /\ plan.id \notin Known                                     \* answered from its receipt
  /\ plan.epoch = epoch /\ plan.source = current              \* STALE_INPUT
  /\ Valid(Stage(current, plan.inputs))

Push(rows, row) ==
  IF Len(rows) < MaxUndo THEN Append(rows, row) ELSE Append(Tail(rows), row)

apply_KeepsFuture(plan) == \* mutant: what was undone stays to be redone
  LET next == prepareCommit(current, Stage(current, plan.inputs))
  IN /\ MayWork /\ plan \in ToSet(plans) /\ Fresh(plan) /\ Bounded
     /\ Cardinality(Known) < MaxRequests
     /\ requests' = [requests EXCEPT ![plan.id] = [inputs |-> plan.inputs, undone |-> FALSE]]
     /\ models' = [models EXCEPT ![page] = next]
     /\ epoch' = epoch + 1
     /\ history' = Push(history, [page |-> page, id |-> plan.id, before |-> current,
                                  after |-> None, mark |-> next])
     /\ UNCHANGED <<future, page, plans, saved, reading, foreign, turns>>

apply(plan) ==
  LET next == prepareCommit(current, Stage(current, plan.inputs))
  IN /\ MayWork
     /\ plan \in ToSet(plans) /\ Fresh(plan)
     /\ Cardinality(Known) < MaxRequests                      \* REQUEST_HISTORY_LIMIT
     /\ requests' = [requests EXCEPT ![plan.id] = [inputs |-> plan.inputs, undone |-> FALSE]]
     /\ IF plan.inputs = current.content.inputs               \* nothing to change
        THEN UNCHANGED <<models, history, future, epoch>>
        ELSE /\ Bounded
             /\ models' = [models EXCEPT ![page] = next]
             /\ epoch' = epoch + 1
             /\ future' = <<>>
             /\ history' = Push(history, [page |-> page, id |-> plan.id, before |-> current,
                                          after |-> None, mark |-> next])
     /\ UNCHANGED <<page, plans, saved, reading, foreign, turns>>

Rebind_Never(rows, m) == rows \* mutant: the neighbour keeps its mark

\* The neighbour of the row that moved is bound to the new identity.
Rebind(rows, m) == IF rows = <<>> THEN rows ELSE [rows EXCEPT ![Len(rows)].mark = m]

undo ==
  LET row == Last(history)
      next == prepareCommit(current, row.before)
  IN /\ MayWork
     /\ Editable(current)
     /\ history # <<>>                                        \* UNDO_EMPTY
     /\ row.page = page /\ row.mark = current                 \* UNDO_STALE
     /\ Bounded
     /\ models' = [models EXCEPT ![page] = next]
     /\ history' = Rebind(Front(history), next)
     /\ epoch' = epoch + 1
     /\ future' = Append(future, [row EXCEPT !.after = current, !.mark = next])
     /\ requests' = [requests EXCEPT ![row.id].undone = TRUE]
     /\ UNCHANGED <<page, plans, saved, reading, foreign, turns>>

redo_OldReceipt == \* mutant: the receipt stays undone
  LET row == Last(future)
      next == prepareCommit(current, row.after)
  IN /\ MayWork /\ Editable(current) /\ future # <<>>
     /\ row.page = page /\ row.mark = current
     /\ Bounded /\ Valid(next)
     /\ models' = [models EXCEPT ![page] = next]
     /\ future' = Rebind(Front(future), next)
     /\ epoch' = epoch + 1
     /\ history' = Append(history, [row EXCEPT !.before = current, !.after = None, !.mark = next])
     /\ UNCHANGED <<page, plans, requests, saved, reading, foreign, turns>>

redo ==
  LET row == Last(future)
      next == prepareCommit(current, row.after)
  IN /\ MayWork
     /\ Editable(current)
     /\ future # <<>>                                         \* REDO_EMPTY
     /\ row.page = page /\ row.mark = current                 \* REDO_STALE
     /\ Bounded
     /\ Valid(next)
     /\ models' = [models EXCEPT ![page] = next]
     /\ future' = Rebind(Front(future), next)
     /\ epoch' = epoch + 1
     /\ history' = Append(history, [row EXCEPT !.before = current, !.after = None, !.mark = next])
     /\ requests' = [requests EXCEPT ![row.id].undone = FALSE]
     /\ UNCHANGED <<page, plans, saved, reading, foreign, turns>>
-----------------------------------------------------------------------------
\* The rows leave their page behind; a restore gives them the page it finds.
strip(rows) == [i \in 1..Len(rows) |-> [rows[i] EXCEPT !.page = None]]
bind(rows) == [i \in 1..Len(rows) |-> [rows[i] EXCEPT !.page = page]]

\* What exportState saves is what restoreState accepts.
Accepted(s) ==
  LET rows == s.history \o s.future
  IN /\ Cardinality(KnownIn(s.requests)) <= MaxRequests
     /\ Len(rows) <= MaxUndo
     /\ \A i, j \in 1..Len(rows) : rows[i].id = rows[j].id => i = j
     /\ \A i \in 1..Len(rows) : s.requests[rows[i].id] # None

RowsValid(s) ==
  \A row \in ToSet(s.history \o s.future) : Valid(row.before) /\ (row.after # None => Valid(row.after))

saveWorkflowCheckpoint ==
  /\ reading = None                                           \* CHECKPOINT_BUSY
  /\ saved' = [model |-> current, requests |-> requests, epoch |-> epoch,
               history |-> strip(history), future |-> strip(future)]
  /\ UNCHANGED <<models, page, service, reading, foreign, turns>>

restoreWorkflowCheckpoint ==
  /\ reading = None
  /\ Empty                                                    \* hasRetainedState
  /\ reading' = [page |-> page, previous |-> current]
  /\ UNCHANGED <<models, page, service, saved, foreign, turns>>

\* The model of the page where the restore began is replaced, the history is
\* bound to the page that is shown now.
RestoreDone ==
  /\ reading # None /\ saved # None
  /\ Empty                                                    \* INPUT_RESTORE_REQUIRES_EMPTY_RUNTIME
  /\ models' = [models EXCEPT ![reading.page] = saved.model]
  /\ models'[page] = saved.model                              \* INPUT_HISTORY_INVALID
  /\ Accepted(saved) /\ RowsValid(saved)
  /\ requests' = saved.requests /\ epoch' = saved.epoch
  /\ history' = bind(saved.history) /\ future' = bind(saved.future)
  /\ reading' = None
  /\ UNCHANGED <<page, plans, saved, foreign, turns>>

Clear ==
  /\ plans' = <<>> /\ history' = <<>> /\ future' = <<>>
  /\ requests' = [i \in Ids |-> None]
  /\ UNCHANGED epoch

\* A read that fails, or a state that is refused, rolls the model back.
RestoreFailed ==
  /\ reading # None
  /\ models' = [models EXCEPT ![reading.page] = reading.previous]
  /\ Clear
  /\ reading' = None
  /\ UNCHANGED <<page, saved, foreign, turns>>

disposeRuntime ==
  /\ Clear
  /\ UNCHANGED <<models, page, saved, reading, foreign, turns>>
-----------------------------------------------------------------------------
\* Another editor of the page changes the model.
EditByOthers(c) ==
  /\ foreign < MaxForeign
  /\ turns => history = <<>> /\ future = <<>> /\ reading = None
  /\ c # current.content
  /\ models' = [models EXCEPT ![page].content = c]
  /\ foreign' = foreign + 1
  /\ UNCHANGED <<page, service, saved, reading, turns>>

ShowPage(p) ==
  /\ foreign < MaxForeign
  /\ turns => history = <<>> /\ future = <<>> /\ reading = None
  /\ p # page
  /\ page' = p
  /\ foreign' = foreign + 1
  /\ UNCHANGED <<models, service, saved, reading, turns>>

Next ==
  \/ \E id \in Ids, inputs \in Inputs : preview(id, inputs)
  \/ \E plan \in ToSet(plans) : apply(plan)
  \/ undo
  \/ redo
  \/ saveWorkflowCheckpoint
  \/ restoreWorkflowCheckpoint
  \/ RestoreDone
  \/ RestoreFailed
  \/ disposeRuntime
  \/ \E c \in Contents : EditByOthers(c)
  \/ \E p \in Pages : ShowPage(p)

Spec == Init /\ [][Next]_vars
-----------------------------------------------------------------------------
Plan == [page : Pages, id : Ids, inputs : Inputs, source : Model, epoch : 0..MaxCommits]
Row == [page : Pages \cup {None}, id : Ids, before : Model, after : Model \cup {None}, mark : Model]
Receipts == [Ids -> {None} \cup Receipt]
Checkpoints == [model : Model, requests : Receipts, epoch : 0..MaxCommits,
                history : Seq(Row), future : Seq(Row)]

\* Every variable holds what its part of the program may hold; neither the
\* previews nor the receipts grow past their limits (lines 49 and 97).
TypeOK ==
  /\ models \in [Pages -> Model] /\ page \in Pages
  /\ plans \in Seq(Plan) /\ Len(plans) <= MaxPlans
  /\ requests \in Receipts /\ Cardinality(Known) <= MaxRequests
  /\ history \in Seq(Row) /\ future \in Seq(Row)
  /\ epoch \in 0..MaxCommits /\ foreign \in 0..MaxForeign
  /\ saved \in Checkpoints \cup {None}
  /\ reading \in [page : Pages, previous : Model] \cup {None}
  /\ turns \in BOOLEAN

\* What a request made of the model of its row.
Result(row) == Stage(row.before, requests[row.id].inputs).content

\* While nobody else edits, done and undone requests form one line of models,
\* each the result of the request before it, and the model stands between
\* the two: whatever was undone, redone, saved and restored, undo and redo
\* lead along the states the user has seen (lines 110, 122 and 142).
StacksAgree ==
  LET line == history \o Reverse(future)
  IN turns =>
       /\ \A i \in 1..(Len(line) - 1) : line[i + 1].before.content = Result(line[i])
       /\ history # <<>> => current.content = Result(Last(history))
       /\ future # <<>> => current.content = Last(future).before.content
       /\ \A i \in 1..Len(future) : future[i].after.content = Result(future[i])

\* While nobody else edits, neither undo nor redo is refused as stale: the top
\* rows always expect the model as it is (lines 121, 130, 141 and 147).
NeverStale ==
  turns => \A rows \in {history, future} :
             rows # <<>> => Last(rows).page = page /\ Last(rows).mark = current

\* Whoever edits in between, a checkpoint holds no more rows than are taken
\* back, no request twice, and each with its receipt (lines 161-170).
Restorable == saved # None => Accepted(saved)

\* The receipt that answers a repeated request tells whether the request
\* stands undone (lines 91, 131 and 148).
ReceiptsTrue ==
  /\ \A i \in 1..Len(history) : ~requests[history[i].id].undone
  /\ \A i \in 1..Len(future) : requests[future[i].id].undone

\* What docs/archive/phase19/M2_CONTRACT.md:7 says of undo: once another edit
\* has come in between, it is refused and overwrites nothing.  Violated: an
\* undo binds the row below to the model it restores, foreign edits included.
UndoKeepsOtherEdits ==
  [][undo => models'[page].content.other = current.content.other]_vars
=============================================================================
