----------------------------- MODULE ProjectStore -----------------------------
(***************************************************************************)
(* One project of the file-backed server store                             *)
(* (server/store/projectStore.mjs): its meta file with the approval, the   *)
(* index of revisions and one file per revision, and the requests of one   *)
(* server process that read and rewrite them.                              *)
(*                                                                         *)
(* Every await is a point where other requests run, so a request is a      *)
(* sequence of steps.  A file is replaced by rename and is never seen half *)
(* written.  saveRevision and the edits rewrite the meta they read when    *)
(* the request began (the request cache keeps the copy requireProjectRole  *)
(* read); transitionApproval reads it again and holds the lock of the meta *)
(* file, which the others take for their write alone.                      *)
(*                                                                         *)
(* The SHA-256 hash of a model stands for the model.  Bounds: Handlers,    *)
(* one request each; MaxRev; MaxFaults.                                    *)
(***************************************************************************)
EXTENDS Integers, Sequences, FiniteSets

CONSTANTS Handlers,    \* requests
          Contents,    \* models that may be saved
          None,
          MaxRev,
          Expected,    \* versions a transition may expect
          MaxFaults    \* writes that fail, or requests cut off by a crash

ASSUME StoreAssumption ==
  /\ None \notin Contents \cup Handlers \cup {"ok", "refused", "failed"} /\ Contents # {}
  /\ MaxRev \in Nat \ {0} /\ MaxFaults \in Nat /\ Expected \subseteq Nat

VARIABLES
  meta,      \* project.json
  index,     \* revisions/index.json
  models,    \* revisions/<rev>.json
  lock,      \* who holds the lock of project.json
  call,      \* the request of a handler
  at,        \* the step it has reached
  seenMeta,  \* the copy of meta it works on
  seenIndex, \* the copy of the index it works on
  result,    \* how it answered
  faults,
  turns      \* the clients take turns: who saves or edits is alone

diskVars == <<meta, index, models>>
vars == <<diskVars, lock, call, at, seenMeta, seenIndex, result, faults, turns>>

NoApproval == [state |-> "none", rev |-> 0, hash |-> None, current |-> FALSE,
               version |-> 0, history |-> {}]

NewMeta == [approval |-> NoApproval, edits |-> {}, deleted |-> FALSE, revisionCount |-> 0]

NoCall == [kind |-> "none", content |-> None, rev |-> 0, expected |-> None, state |-> "none"]

SomeContent == CHOOSE c \in Contents : TRUE

\* A project without revisions, or one whose first revision dates from before
\* the index recorded hashes.
Init ==
  /\ \/ meta = NewMeta /\ index = <<>> /\ models = [r \in 1..MaxRev |-> None]
     \/ /\ meta = [NewMeta EXCEPT !.revisionCount = 1]
        /\ index = <<[rev |-> 1, hash |-> None, by |-> None]>>
        /\ models = [r \in 1..MaxRev |-> IF r = 1 THEN SomeContent ELSE None]
  /\ lock = None
  /\ call = [h \in Handlers |-> NoCall]
  /\ at = [h \in Handlers |-> "idle"]
  /\ seenMeta = [h \in Handlers |-> NewMeta]
  /\ seenIndex = [h \in Handlers |-> <<>>]
  /\ result = [h \in Handlers |-> None]
  /\ faults = 0
  /\ turns \in BOOLEAN

Latest(ix) == IF ix = <<>> THEN 0 ELSE ix[Len(ix)].rev
Open(h) == at[h] \notin {"idle", "done"}
Writes(kind) == kind # "approve"

Saves == {[NoCall EXCEPT !.kind = "save", !.content = c] : c \in Contents}
Edits == {[NoCall EXCEPT !.kind = k] : k \in {"edit", "delete"}}
Transitions == [kind : {"approve"}, content : {None}, rev : 1..MaxRev,
                expected : {None} \cup Expected, state : {"approved", "released"}]

\* The answer ends the request and drops its copies.
Answer(h, r) ==
  /\ at' = [at EXCEPT ![h] = "done"]
  /\ result' = [result EXCEPT ![h] = r]
  /\ UNCHANGED turns
  /\ seenMeta' = [seenMeta EXCEPT ![h] = NewMeta]
  /\ seenIndex' = [seenIndex EXCEPT ![h] = <<>>]

Step(h, s) == at' = [at EXCEPT ![h] = s] /\ UNCHANGED <<result, turns>>
-----------------------------------------------------------------------------
\* A request arrives; the role check reads the meta into the request cache.
Receive(h, c) ==
  /\ at[h] = "idle" /\ h = CHOOSE g \in Handlers : at[g] = "idle"   \* numbered as they arrive
  /\ turns => \A g \in Handlers : Open(g) => ~Writes(c.kind) /\ ~Writes(call[g].kind)
  /\ c.kind = "save" => Latest(index) + Cardinality({g \in Handlers : Open(g) /\ call[g].kind = "save"}) < MaxRev
  /\ IF meta.deleted
     THEN Answer(h, "refused") /\ UNCHANGED call
     ELSE /\ Step(h, "opened")
          /\ call' = [call EXCEPT ![h] = c]
          /\ seenMeta' = [seenMeta EXCEPT ![h] = meta]
          /\ UNCHANGED seenIndex
  /\ UNCHANGED <<diskVars, lock, faults>>

ReadIndex(h) ==
  /\ at[h] = "opened" /\ call[h].kind = "save"
  /\ seenIndex' = [seenIndex EXCEPT ![h] = index]
  /\ call' = [call EXCEPT ![h].rev = Latest(index) + 1]
  /\ Step(h, "listed")
  /\ UNCHANGED <<diskVars, lock, seenMeta, faults>>

WriteIndex(h) ==
  /\ at[h] = "listed"
  /\ index' = Append(seenIndex[h], [rev |-> call[h].rev, hash |-> call[h].content, by |-> h])
  /\ Step(h, "indexed")
  /\ UNCHANGED <<meta, models, lock, call, seenMeta, seenIndex, faults>>

WriteModel(h) ==
  /\ at[h] = "indexed"
  /\ models' = [models EXCEPT ![call[h].rev] = call[h].content]
  /\ Step(h, "stored")
  /\ UNCHANGED <<meta, index, lock, call, seenMeta, seenIndex, faults>>

\* The next state of the approval, entered in its history.
Advance(a, state, rev, hash, current) ==
  [state |-> state, rev |-> rev, hash |-> hash, current |-> current, version |-> a.version + 1,
   history |-> a.history \cup {[state |-> state, rev |-> rev, hash |-> hash, version |-> a.version + 1]}]

\* A new revision ends the approval of an earlier one.
Superseded(a) ==
  IF a.state \in {"approved", "released"}
  THEN Advance(a, IF a.state = "released" THEN "stale" ELSE "revoked", a.rev, a.hash, FALSE)
  ELSE a

\* saveRevision's last write: the meta as the request knows it.
WriteSavedMeta(h) ==
  /\ at[h] = "stored" /\ lock = None
  /\ meta' = [seenMeta[h] EXCEPT !.revisionCount = Len(seenIndex[h]) + 1,
                                 !.approval = IF @.rev # call[h].rev THEN Superseded(@) ELSE @]
  /\ Answer(h, "ok")
  /\ UNCHANGED <<index, models, lock, call, faults>>

WriteEditedMeta_PatchOnly(h) == \* mutant: the patch replaces what the project had
  /\ at[h] = "opened" /\ call[h].kind \in {"edit", "delete"} /\ lock = None
  /\ meta' = IF call[h].kind = "edit"
             THEN [seenMeta[h] EXCEPT !.edits = {h}]
             ELSE [seenMeta[h] EXCEPT !.deleted = TRUE]
  /\ Answer(h, "ok")
  /\ UNCHANGED <<index, models, lock, call, faults>>

\* update, setMemberRole, removeMember and addEvidence, or softDelete.
WriteEditedMeta(h) ==
  /\ at[h] = "opened" /\ call[h].kind \in {"edit", "delete"} /\ lock = None
  /\ meta' = IF call[h].kind = "edit"
             THEN [seenMeta[h] EXCEPT !.edits = @ \cup {h}]
             ELSE [seenMeta[h] EXCEPT !.deleted = TRUE]
  /\ Answer(h, "ok")
  /\ UNCHANGED <<index, models, lock, call, faults>>
-----------------------------------------------------------------------------
(* transitionApproval, under the lock of the meta file. *)

Lock(h) ==
  /\ at[h] = "opened" /\ call[h].kind = "approve" /\ lock = None
  /\ IF meta.deleted
     THEN Answer(h, "refused") /\ UNCHANGED lock
     ELSE /\ Step(h, "locked") /\ lock' = h
          /\ seenMeta' = [seenMeta EXCEPT ![h] = meta]
          /\ UNCHANGED seenIndex
  /\ UNCHANGED <<diskVars, call, faults>>

Refuse(h) == Answer(h, "refused") /\ lock' = None

\* An unknown or an overtaken revision is refused.
CheckLatest(h) ==
  /\ at[h] = "locked"
  /\ IF Latest(index) = call[h].rev
     THEN /\ Step(h, "checked")
          /\ seenIndex' = [seenIndex EXCEPT ![h] = index]
          /\ UNCHANGED <<lock, seenMeta>>
     ELSE Refuse(h)
  /\ UNCHANGED <<diskVars, call, faults>>

Recorded(h) == seenIndex[h][Len(seenIndex[h])].hash

Releasable_AnyApproved(a, rev, hash) == a.state = "approved" \* mutant: of any revision

\* A release needs the current approval of this very revision and content.
Releasable(a, rev, hash) == a.state = "approved" /\ a.current /\ a.rev = rev /\ a.hash = hash

VersionMatches(h) == call[h].expected \in {None, seenMeta[h].approval.version}

CheckModel_Unread(h) == \* mutant: the hash in the index is believed
  /\ at[h] = "checked"
  /\ IF Recorded(h) = None THEN Refuse(h)
     ELSE Step(h, "verified") /\ UNCHANGED <<lock, seenMeta, seenIndex>>
  /\ UNCHANGED <<diskVars, call, faults>>

CheckModel(h) ==
  /\ at[h] = "checked"
  /\ LET m == models[call[h].rev] IN
       \/ /\ m = None \/ Recorded(h) \notin {None, m}
          /\ Refuse(h)
       \/ /\ m # None /\ Recorded(h) = None   \* hash missing: record it first
          /\ seenIndex' = [seenIndex EXCEPT ![h] = [@ EXCEPT ![Len(@)].hash = m]]
          /\ Step(h, "backfill") /\ UNCHANGED <<lock, seenMeta>>
       \/ /\ m # None /\ Recorded(h) = m
          /\ Step(h, "verified") /\ UNCHANGED <<lock, seenMeta, seenIndex>>
  /\ UNCHANGED <<diskVars, call, faults>>

Backfill(h) ==
  /\ at[h] = "backfill"
  /\ index' = seenIndex[h]
  /\ Step(h, "verified")
  /\ UNCHANGED <<meta, models, lock, call, seenMeta, seenIndex, faults>>

\* A release keeps revision and hash of the approval: they are those decided on.
Decide(h) ==
  /\ at[h] = "verified"
  /\ lock' = None
  /\ LET a == seenMeta[h].approval
         c == call[h] IN
       IF VersionMatches(h) /\ (c.state = "released" => Releasable(a, c.rev, Recorded(h)))
       THEN /\ meta' = [seenMeta[h] EXCEPT !.approval = Advance(a, c.state, c.rev, Recorded(h), TRUE)]
            /\ Answer(h, "ok")
       ELSE Answer(h, "refused") /\ UNCHANGED meta
  /\ UNCHANGED <<index, models, call, faults>>

Fault_KeepsLock(h) == \* mutant: the next holder waits for the success of the last
  /\ Open(h) /\ faults < MaxFaults
  /\ faults' = faults + 1
  /\ Answer(h, "failed")
  /\ UNCHANGED <<diskVars, lock, call>>

\* A read or write of the request fails, or the server dies (then for every
\* open request); what is on disk stays.
Fault(h) ==
  /\ Open(h) /\ faults < MaxFaults
  /\ faults' = faults + 1
  /\ Answer(h, "failed")
  /\ lock' = IF lock = h THEN None ELSE lock
  /\ UNCHANGED <<diskVars, call>>
-----------------------------------------------------------------------------
Proceed(h) ==
  \/ ReadIndex(h) \/ WriteIndex(h) \/ WriteModel(h) \/ WriteSavedMeta(h)
  \/ WriteEditedMeta(h)
  \/ Lock(h) \/ CheckLatest(h) \/ CheckModel(h) \/ Backfill(h) \/ Decide(h)

Next ==
  \E h \in Handlers :
    \/ \E c \in Saves \cup Edits \cup Transitions : Receive(h, c)
    \/ Proceed(h)
    \/ Fault(h)

Spec == Init /\ [][Next]_vars

\* Pending I/O completes and the lock's promise chain advances.
FairSpec == Spec /\ \A h \in Handlers : WF_vars(Proceed(h))
-----------------------------------------------------------------------------
Hashes == Contents \cup {None}
Events == [state : {"approved", "released", "revoked", "stale"}, rev : Nat, hash : Hashes, version : Nat]
Approvals == [state : {"none", "approved", "released", "revoked", "stale"}, rev : Nat, hash : Hashes,
              current : BOOLEAN, version : Nat, history : SUBSET Events]
Metas == [approval : Approvals, edits : SUBSET Handlers, deleted : BOOLEAN, revisionCount : Nat]
Entries == [rev : Nat, hash : Hashes, by : Handlers \cup {None}]
Indexes == Seq(Entries)
Calls == [kind : {"none", "save", "edit", "delete", "approve"}, content : Hashes, rev : Nat,
          expected : {None} \cup Nat, state : {"none", "approved", "released"}]
Stages == {"idle", "opened", "listed", "indexed", "stored", "locked", "checked", "backfill", "verified", "done"}

TypeOK ==
  /\ meta \in Metas
  /\ index \in Indexes
  /\ models \in [1..MaxRev -> Hashes]
  /\ lock \in Handlers \cup {None}
  /\ call \in [Handlers -> Calls]
  /\ at \in [Handlers -> Stages]
  /\ seenMeta \in [Handlers -> Metas]
  /\ seenIndex \in [Handlers -> Indexes]
  /\ result \in [Handlers -> {None, "ok", "refused", "failed"}]
  /\ faults \in 0..MaxFaults
  /\ turns \in BOOLEAN

Saved(h) == call[h].kind = "save" /\ result[h] = "ok"
SavedRev(h) == call[h].rev

\* Whatever overlaps, each release in the history directly follows the
\* approval of the same revision and content, and the approval shown is the
\* last entry of its own history (projectStore.mjs:325-345).
ReleasesFollowApprovals ==
  LET a == meta.approval IN
    /\ a.state \in {"approved", "released"} =>
         [state |-> a.state, rev |-> a.rev, hash |-> a.hash, version |-> a.version] \in a.history
    /\ \A e \in a.history : e.state = "released" =>
         [state |-> "approved", rev |-> e.rev, hash |-> e.hash, version |-> e.version - 1] \in a.history

(* What holds if the clients take turns. *)

\* A save that was answered stays: its entry is in the index and its model in
\* its file (projectStore.mjs:152-163; PERSISTENCE_PLAN.md:50-64).
SavedStays ==
  \A h \in Handlers : Saved(h) =>
    /\ \E i \in DOMAIN index : index[i].rev = SavedRev(h) /\ index[i].by = h
    /\ models[SavedRev(h)] = call[h].content

\* An approval that has been overtaken by a saved revision is no longer
\* current (projectStore.mjs:167-182).
OvertakenNotCurrent ==
  \A h \in Handlers : Saved(h) /\ SavedRev(h) > meta.approval.rev => ~meta.approval.current

\* The approval names content that is still stored (projectStore.mjs:312-315).
ApprovalCoversContent ==
  meta.approval.state # "none" => models[meta.approval.rev] = meta.approval.hash

\* Two transitions that expected the same version are not both granted, and
\* an edit that was answered survives later writes of the meta file
\* (projectStore.mjs:45-48,110-142,322,344).
NothingUndone ==
  /\ \A h \in Handlers : call[h].kind = "edit" /\ result[h] = "ok" => h \in meta.edits
  /\ \A g, h \in Handlers :
       /\ g # h /\ call[g].kind = "approve" /\ call[h].kind = "approve"
       /\ call[g].expected = call[h].expected /\ call[g].expected # None
       => ~(result[g] = "ok" /\ result[h] = "ok")

\* If whoever saves or edits is alone, no answered save or edit is lost and no two
\* decisions share a version (projectStore.mjs:110-186,300-345).
TurnsKeepRevisions == turns => SavedStays /\ NothingUndone

\* If whoever saves or edits is alone, the approval that counts is of the latest
\* saved revision and of content that is still stored (projectStore.mjs:164-186,306-319).
TurnsKeepApproval == turns => OvertakenNotCurrent /\ ApprovalCoversContent

\* Every request is answered, whoever failed holding the lock
\* (fileStore.mjs:74-81).
RequestsEnd == \A h \in Handlers : Open(h) ~> ~Open(h)
=============================================================================
