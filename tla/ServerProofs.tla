----------------------------- MODULE ServerProofs -----------------------------
(***************************************************************************)
(* Proofs about the server: the store of a project (ProjectStore) and the  *)
(* lock that keeps a second server away from it (DataDirLock).             *)
(*                                                                         *)
(* The lock comes first.  While servers touch it in turns at most one is   *)
(* busy with it.  A holder that has not opened the file for a heartbeat is *)
(* named by it, as long as no heartbeat was cut off there; so a server     *)
(* that starts meets its file, reads a live owner if the read does not     *)
(* fail, and neither creates nor removes a file.  Nobody else removes the  *)
(* file that a server is writing, so that what it writes is what the path  *)
(* shows.                                                                  *)
(*                                                                         *)
(* The store needs two invariants.  However requests overlap, every        *)
(* approval on the disk and in a copy is Good.  While whoever saves or     *)
(* edits is alone, its copies agree with what is stored, the index is      *)
(* numbered without gaps, and what was answered is stored (InTurn).        *)
(***************************************************************************)
EXTENDS ProjectStore, DataDirLock, FiniteSetTheorems, TLAPS
-----------------------------------------------------------------------------
(* The lock on the data directory. *)

\* At most one server is busy, and a heartbeat belongs to a lease.
OneBusy ==
  /\ lockTurns => \A s, t \in Servers : Busy(s) /\ Busy(t) => s = t
  /\ \A s \in Servers : beat[s] # "idle" => At(s, {"held", "releasing", "unlinking", "released"})

\* acquireDataDirLock has an attempt left until it ends.
AttemptLeft == \A s \in Servers : At(s, {"off"}) \/ Acquiring(s) => attempt[s] < 2

\* What a server writes reaches the path.
WritesReach ==
  lockTurns => \A s \in Servers :
    At(s, {"writing"}) \/ (Holds(s) /\ beat[s] = "open") => linked[s]

\* The file names a holder that is not writing it, and beside a holder no other server
\* holds, changes or is about to remove anything.
HolderNamed ==
  lockTurns /\ legible => \A s \in Servers : Holds(s) =>
    /\ beat[s] # "open" => file = s
    /\ \A t \in Servers \ {s} :
         /\ ~At(t, {"held", "writing", "removing", "releasing", "unlinking"})
         /\ beat[t] = "idle"

LockInv == LockTypeOK /\ AttemptLeft /\ OneBusy /\ WritesReach /\ HolderNamed

\* The initial states satisfy the invariant.
LEMMA LockInitInv == LockInit => LockInv
  BY LockAssumption DEF LockInit, LockInv, LockTypeOK, Places, AttemptLeft, OneBusy, WritesReach, HolderNamed, Busy, Acquiring, At, Holds

\* Every step preserves it.
LEMMA LockStepInv == LockInv /\ [LockNext]_lockVars => LockInv'
<1> SUFFICES ASSUME LockInv, [LockNext]_lockVars PROVE LockInv'
  OBVIOUS
<1> USE LockAssumption DEF LockInv, At, Holds, Acquiring, Busy
<1>1. CASE UNCHANGED lockVars
  BY <1>1 DEF lockVars, LockTypeOK, AttemptLeft, OneBusy, WritesReach, HolderNamed
<1>2. ASSUME NEW s \in Servers, Start(s) PROVE LockInv'
  <2> USE <1>2 DEF LockTypeOK, Places, Start, Goto, LockInTurn
  <2>1. LockTypeOK'
    BY DEF AttemptLeft
  <2>2. AttemptLeft'
    BY DEF AttemptLeft
  <2>3. OneBusy'
    <3>1. lockTurns' => \A t \in Servers \ {s} : ~Busy(t)'
      BY Zenon
    <3>2. lockTurns' => \A t, u \in Servers : Busy(t)' /\ Busy(u)' => t = u
      BY <3>1
    <3>3. QED
      BY <3>2 DEF OneBusy
  <2>4. WritesReach'
    BY DEF WritesReach, OneBusy
  <2>5. HolderNamed'
    BY DEF HolderNamed, OneBusy, WritesReach
  <2>6. QED
    BY <2>1, <2>2, <2>3, <2>4, <2>5
<1>3. ASSUME NEW s \in Servers, Create(s) PROVE LockInv'
  <2> USE <1>3 DEF LockTypeOK, Places, Create, Goto, Fail
  <2>1. LockTypeOK'
    BY DEF AttemptLeft
  <2>2. AttemptLeft'
    BY DEF AttemptLeft
  <2>3. OneBusy'
    BY DEF OneBusy
  <2>4. WritesReach'
    BY DEF WritesReach, OneBusy
  <2>5. HolderNamed'
    BY DEF HolderNamed, OneBusy, WritesReach
  <2>6. QED
    BY <2>1, <2>2, <2>3, <2>4, <2>5
<1>4. ASSUME NEW s \in Servers, WriteOwner(s) PROVE LockInv'
  <2> USE <1>4 DEF LockTypeOK, Places, WriteOwner, Goto, Fail
  <2>1. LockTypeOK'
    BY DEF AttemptLeft
  <2>2. AttemptLeft'
    BY DEF AttemptLeft
  <2>3. OneBusy'
    BY DEF OneBusy
  <2>4. WritesReach'
    BY DEF WritesReach, OneBusy
  <2>5. HolderNamed'
    BY DEF HolderNamed, OneBusy, WritesReach
  <2>6. QED
    BY <2>1, <2>2, <2>3, <2>4, <2>5
<1>5. ASSUME NEW s \in Servers, ReadOwner(s) PROVE LockInv'
  <2> USE <1>5 DEF LockTypeOK, Places, ReadOwner, Goto, readLockOwner, LiveOwner, isProcessAlive
  <2>1. LockTypeOK'
    BY DEF AttemptLeft
  <2>2. AttemptLeft'
    BY DEF AttemptLeft
  <2>3. OneBusy'
    BY DEF OneBusy
  <2>4. WritesReach'
    BY DEF WritesReach, OneBusy
  <2>5. HolderNamed'
    <3> SUFFICES ASSUME lockTurns, legible', NEW h \in Servers, At(h, {"held"})'
                 PROVE  /\ beat[h] # "open" => file = h
                        /\ \A t \in Servers \ {h} :
                             /\ ~At(t, {"held", "writing", "removing", "releasing", "unlinking"})'
                             /\ beat[t] = "idle"
      BY DEF HolderNamed
    <3>1. h # s /\ At(h, {"held"}) /\ legible
      OBVIOUS
    <3>2. /\ beat[h] # "open" => file = h
          /\ \A t \in Servers \ {h} :
               /\ ~At(t, {"held", "writing", "removing", "releasing", "unlinking"})
               /\ beat[t] = "idle"
      BY <3>1 DEF HolderNamed
    <3>3. LiveOwner(file)
      BY <3>1, <3>2 DEF OneBusy
    <3>4. At(s, {"refused"})'
      BY <3>3
    <3>5. \A t \in Servers \ {s} : At(t, {"held", "writing", "removing", "releasing", "unlinking"})'
            => At(t, {"held", "writing", "removing", "releasing", "unlinking"})
      OBVIOUS
    <3>6. QED
      BY <3>2, <3>4, <3>5
  <2>6. QED
    BY <2>1, <2>2, <2>3, <2>4, <2>5
<1>6. ASSUME NEW s \in Servers, RemoveStale(s) PROVE LockInv'
  <2> USE <1>6 DEF LockTypeOK, Places, RemoveStale, Goto, Remove, Fail
  <2>1. LockTypeOK'
    <3>1. attempt[s] \in 0..2 /\ attempt[s] < 2
      BY DEF AttemptLeft
    <3>2. attempt' \in [Servers -> 0..2]
      BY <3>1
    <3>3. pc' \in [Servers -> Places] /\ linked' \in [Servers -> BOOLEAN]
      OBVIOUS
    <3>4. QED
      BY <3>2, <3>3
  <2>2. AttemptLeft'
    BY DEF AttemptLeft
  <2>3. OneBusy'
    BY DEF OneBusy
  <2>4. WritesReach'
    <3>1. CASE Fail(s) /\ UNCHANGED <<file, linked, attempt>>
      BY <3>1 DEF WritesReach, OneBusy
    <3>2. CASE Remove
      BY <3>2 DEF WritesReach, OneBusy
    <3>3. QED
      BY <3>1, <3>2
  <2>5. HolderNamed'
    BY DEF HolderNamed, OneBusy, WritesReach
  <2>6. QED
    BY <2>1, <2>2, <2>3, <2>4, <2>5
<1>7. ASSUME NEW s \in Servers, Heartbeat(s) PROVE LockInv'
  <2> USE <1>7 DEF LockTypeOK, Places, Heartbeat, LockInTurn
  <2>1. LockTypeOK'
    BY DEF AttemptLeft
  <2>2. AttemptLeft'
    BY DEF AttemptLeft
  <2>3. OneBusy'
    BY DEF OneBusy
  <2>4. WritesReach'
    BY DEF WritesReach, OneBusy
  <2>5. HolderNamed'
    BY DEF HolderNamed, OneBusy, WritesReach
  <2>6. QED
    BY <2>1, <2>2, <2>3, <2>4, <2>5
<1>8. ASSUME NEW s \in Servers, OpenBeat(s) PROVE LockInv'
  <2> USE <1>8 DEF LockTypeOK, Places, OpenBeat
  <2>1. LockTypeOK'
    BY DEF AttemptLeft
  <2>2. AttemptLeft'
    BY DEF AttemptLeft
  <2>3. OneBusy'
    BY DEF OneBusy
  <2>4. WritesReach'
    BY DEF WritesReach, OneBusy
  <2>5. HolderNamed'
    BY DEF HolderNamed, OneBusy, WritesReach
  <2>6. QED
    BY <2>1, <2>2, <2>3, <2>4, <2>5
<1>9. ASSUME NEW s \in Servers, WriteBeat(s) PROVE LockInv'
  <2> USE <1>9 DEF LockTypeOK, Places, WriteBeat
  <2>1. LockTypeOK'
    BY DEF AttemptLeft
  <2>2. AttemptLeft'
    BY DEF AttemptLeft
  <2>3. OneBusy'
    BY DEF OneBusy
  <2>4. WritesReach'
    BY DEF WritesReach, OneBusy
  <2>5. HolderNamed'
    BY DEF HolderNamed, OneBusy, WritesReach
  <2>6. QED
    BY <2>1, <2>2, <2>3, <2>4, <2>5
<1>10. ASSUME NEW s \in Servers, Release(s) PROVE LockInv'
  <2> USE <1>10 DEF LockTypeOK, Places, Release, Goto, LockInTurn
  <2>1. LockTypeOK'
    BY DEF AttemptLeft
  <2>2. AttemptLeft'
    BY DEF AttemptLeft
  <2>3. OneBusy'
    BY DEF OneBusy
  <2>4. WritesReach'
    BY DEF WritesReach, OneBusy
  <2>5. HolderNamed'
    BY DEF HolderNamed, OneBusy, WritesReach
  <2>6. QED
    BY <2>1, <2>2, <2>3, <2>4, <2>5
<1>11. ASSUME NEW s \in Servers, CheckOwn(s) PROVE LockInv'
  <2> USE <1>11 DEF LockTypeOK, Places, CheckOwn, Goto, readLockOwner
  <2>1. LockTypeOK'
    BY DEF AttemptLeft
  <2>2. AttemptLeft'
    BY DEF AttemptLeft
  <2>3. OneBusy'
    BY DEF OneBusy
  <2>4. WritesReach'
    BY DEF WritesReach, OneBusy
  <2>5. HolderNamed'
    BY DEF HolderNamed, OneBusy, WritesReach
  <2>6. QED
    BY <2>1, <2>2, <2>3, <2>4, <2>5
<1>12. ASSUME NEW s \in Servers, Unlink(s) PROVE LockInv'
  <2> USE <1>12 DEF LockTypeOK, Places, Unlink, Goto, Remove
  <2>1. LockTypeOK'
    BY DEF AttemptLeft
  <2>2. AttemptLeft'
    BY DEF AttemptLeft
  <2>3. OneBusy'
    BY DEF OneBusy
  <2>4. WritesReach'
    BY DEF WritesReach, OneBusy
  <2>5. HolderNamed'
    BY DEF HolderNamed, OneBusy, WritesReach
  <2>6. QED
    BY <2>1, <2>2, <2>3, <2>4, <2>5
<1>13. ASSUME NEW s \in Servers, Die(s) PROVE LockInv'
  <2> USE <1>13 DEF LockTypeOK, Places, Die, Goto, isProcessAlive
  <2>1. LockTypeOK'
    BY DEF AttemptLeft
  <2>2. AttemptLeft'
    BY DEF AttemptLeft
  <2>3. OneBusy'
    BY DEF OneBusy
  <2>4. WritesReach'
    BY DEF WritesReach, OneBusy
  <2>5. HolderNamed'
    BY DEF HolderNamed, OneBusy, WritesReach
  <2>6. QED
    BY <2>1, <2>2, <2>3, <2>4, <2>5
<1>14. QED
  BY <1>1, <1>2, <1>3, <1>4, <1>5, <1>6, <1>7, <1>8, <1>9, <1>10, <1>11, <1>12, <1>13 DEF LockNext, FileStep

\* Type correctness of the lock, for any number of servers and heartbeats.
THEOREM LockTypeCorrect == LockSpec => []LockTypeOK
<1>1. LockInv => LockTypeOK
  BY DEF LockInv
<1>2. QED
  BY LockInitInv, LockStepInv, <1>1, PTL DEF LockSpec

\* For any number of servers, started, beating, released and killed in turns, and whichever
\* file operations fail but the write of a heartbeat and the read of a live owner at a
\* start: a holder holds the directory alone, and between its heartbeats the lock
\* names it (lockfile.mjs:28-46,58-75,81-87).
THEOREM HolderAlone == LockSpec => []TurnsKeepLock
<1>1. LockInv => TurnsKeepLock
  BY DEF LockInv, HolderNamed, TurnsKeepLock, At, Holds
<1>2. QED
  BY LockInitInv, LockStepInv, <1>1, PTL DEF LockSpec
-----------------------------------------------------------------------------
(* The store of a project. *)

\* Approval a is the last entry of its history, and every release in the
\* history directly follows the approval of the same revision and content.
Event(s, a) == [state |-> s, rev |-> a.rev, hash |-> a.hash, version |-> a.version]

ApprovalOf(e) == [state |-> "approved", rev |-> e.rev, hash |-> e.hash, version |-> e.version - 1]

Good(a) ==
  /\ a.state \in {"approved", "released"} => Event(a.state, a) \in a.history
  /\ \A e \in a.history : e.state = "released" => ApprovalOf(e) \in a.history

InLock == {"locked", "checked", "backfill", "verified"}

\* What a request has established when it reaches a step of transitionApproval.
Reached(h) ==
  /\ call[h].kind = "approve" => call[h] \in Transitions
  /\ at[h] \in InLock => call[h].kind = "approve"
  /\ at[h] \in InLock \ {"locked"} => seenIndex[h] # <<>>

StepsReached == \A h \in Handlers : Reached(h)

\* Not only the stored meta but every copy a request may write back is good.
CopiesGood == Good(meta.approval) /\ \A h \in Handlers : Good(seenMeta[h].approval)

IInv == TypeOK /\ StepsReached /\ CopiesGood
-----------------------------------------------------------------------------
(* The approval record. *)

LEMMA NoApprovalGood == NoApproval \in Approvals /\ Good(NoApproval)
BY SMT DEF NoApproval, Approvals, Good, Events, Hashes, Event

LEMMA FieldTypes ==
  ASSUME NEW a \in Approvals
  PROVE  /\ a.state \in {"none", "approved", "released", "revoked", "stale"}
         /\ a.rev \in Nat /\ a.hash \in Hashes /\ a.version \in Nat
         /\ a.history \in SUBSET Events
BY DEF Approvals

LEMMA AdvanceOK ==
  ASSUME NEW a \in Approvals, Good(a), NEW rev \in Nat, NEW hash \in Hashes, NEW current \in BOOLEAN,
         NEW state \in {"approved", "released", "revoked", "stale"},
         state = "released" => a.state = "approved" /\ a.rev = rev /\ a.hash = hash
  PROVE  Advance(a, state, rev, hash, current) \in Approvals /\ Good(Advance(a, state, rev, hash, current))
<1> DEFINE e == [state |-> state, rev |-> rev, hash |-> hash, version |-> a.version + 1]
           b == Advance(a, state, rev, hash, current)
<1>1. e \in Events /\ a.history \cup {e} \in SUBSET Events
  BY FieldTypes DEF Events
<1>2. b \in Approvals
  BY <1>1, FieldTypes DEF Advance, Approvals
<1>3. /\ b.state = state /\ b.rev = rev /\ b.hash = hash
      /\ b.version = a.version + 1 /\ b.history = a.history \cup {e}
  BY DEF Advance
<1>4. Event(b.state, b) = e
  BY <1>3 DEF Event
<1>5. ASSUME state = "released"
      PROVE  ApprovalOf(e) \in a.history
  <2>1. Event("approved", a) \in a.history
    BY <1>5 DEF Good
  <2>2. ApprovalOf(e) = Event("approved", a)
    BY <1>5, FieldTypes DEF Event, ApprovalOf
  <2> QED
    BY <2>1, <2>2
<1>6. e.state = state
  OBVIOUS
<1> HIDE DEF b, e
<1>7. \A d \in b.history : d.state = "released" => ApprovalOf(d) \in b.history
  BY <1>3, <1>5, <1>6 DEF Good
<1>8. Good(b)
  BY <1>3, <1>4, <1>7 DEF Good
<1> QED
  BY <1>2, <1>8 DEF b

LEMMA SupersededOK ==
  ASSUME NEW a \in Approvals, Good(a)
  PROVE  Superseded(a) \in Approvals /\ Good(Superseded(a))
<1>1. CASE a.state \in {"approved", "released"}
  <2> DEFINE s == IF a.state = "released" THEN "stale" ELSE "revoked"
  <2>1. s \in {"approved", "released", "revoked", "stale"} /\ s # "released"
    OBVIOUS
  <2>2. Superseded(a) = Advance(a, s, a.rev, a.hash, FALSE)
    BY <1>1 DEF Superseded
  <2> HIDE DEF s
  <2> QED
    BY <2>1, <2>2, AdvanceOK, FieldTypes
<1>2. CASE a.state \notin {"approved", "released"}
  BY <1>2 DEF Superseded
<1> QED
  BY <1>1, <1>2
-----------------------------------------------------------------------------
(* The metas that requests write. *)

LEMMA NewMetaOK == NewMeta \in Metas /\ Good(NewMeta.approval)
<1>1. NoApproval \in Approvals /\ Good(NoApproval)
  BY NoApprovalGood
<1> QED
  BY <1>1 DEF NewMeta, Metas

LEMMA MetaFields ==
  ASSUME NEW m \in Metas
  PROVE  /\ m.approval \in Approvals /\ m.edits \in SUBSET Handlers
         /\ m.deleted \in BOOLEAN /\ m.revisionCount \in Nat
BY DEF Metas

LEMMA WithApproval ==
  ASSUME NEW m \in Metas, NEW a \in Approvals
  PROVE  [m EXCEPT !.approval = a] \in Metas /\ [m EXCEPT !.approval = a].approval = a
BY DEF Metas

LEMMA WithCount ==
  ASSUME NEW m \in Metas, NEW n \in Nat
  PROVE  [m EXCEPT !.revisionCount = n] \in Metas /\ [m EXCEPT !.revisionCount = n].approval = m.approval
BY DEF Metas

LEMMA WithEdit ==
  ASSUME NEW m \in Metas, NEW h \in Handlers
  PROVE  /\ [m EXCEPT !.edits = @ \cup {h}] \in Metas
         /\ [m EXCEPT !.edits = @ \cup {h}].approval = m.approval
         /\ [m EXCEPT !.deleted = TRUE] \in Metas
         /\ [m EXCEPT !.deleted = TRUE].approval = m.approval
BY DEF Metas
-----------------------------------------------------------------------------
(* The end of a request, and a step within it. *)

Results == {None, "ok", "refused", "failed"}

\* Only request h moved.
Alone(h) ==
  \A g \in Handlers \ {h} : /\ at'[g] = at[g] /\ call'[g] = call[g]
                            /\ seenIndex'[g] = seenIndex[g] /\ seenMeta'[g] = seenMeta[g]

LEMMA AnswerOK ==
  ASSUME TypeOK, NEW h \in Handlers, NEW r \in Results, Answer(h, r), call' = call
  PROVE  /\ at' \in [Handlers -> Stages] /\ result' \in [Handlers -> Results] /\ turns' \in BOOLEAN
         /\ seenMeta' \in [Handlers -> Metas] /\ seenIndex' \in [Handlers -> Indexes]
         /\ Alone(h) /\ at'[h] \notin InLock /\ Good(seenMeta'[h].approval)
<1>1. NewMeta \in Metas /\ Good(NewMeta.approval)
  BY NewMetaOK
<1>2. <<>> \in Indexes
  BY DEF Indexes
<1>3. seenMeta' \in [Handlers -> Metas] /\ seenMeta'[h] = NewMeta
  BY <1>1 DEF TypeOK, Answer
<1>4. seenIndex' \in [Handlers -> Indexes]
  BY <1>2 DEF TypeOK, Answer
<1>5. at' \in [Handlers -> Stages] /\ at'[h] = "done" /\ result' \in [Handlers -> Results]
  BY DEF TypeOK, Answer, Stages, Results
<1>6. turns' \in BOOLEAN
  BY DEF TypeOK, Answer
<1>7. Alone(h)
  BY DEF TypeOK, Answer, Alone
<1> QED
  BY <1>1, <1>3, <1>4, <1>5, <1>6, <1>7 DEF InLock

LEMMA StepOK ==
  ASSUME TypeOK, NEW h \in Handlers, NEW s \in Stages, Step(h, s)
  PROVE  /\ at' \in [Handlers -> Stages] /\ result' \in [Handlers -> Results] /\ turns' \in BOOLEAN
         /\ at'[h] = s /\ \A g \in Handlers \ {h} : at'[g] = at[g]
<1>1. at' \in [Handlers -> Stages] /\ at'[h] = s /\ \A g \in Handlers \ {h} : at'[g] = at[g]
  BY DEF TypeOK, Step
<1>2. result' \in [Handlers -> Results]
  BY DEF TypeOK, Step, Results
<1>3. turns' \in BOOLEAN
  BY DEF TypeOK, Step
<1> QED
  BY <1>1, <1>2, <1>3

\* The facts about the other requests carry over.
LEMMA Frame ==
  ASSUME StepsReached, CopiesGood, NEW h \in Handlers, Alone(h),
         Reached(h)',
         Good(seenMeta'[h].approval), Good(meta'.approval)
  PROVE  StepsReached' /\ CopiesGood'
<1>1. \A g \in Handlers : Reached(g)'
  <2> TAKE g \in Handlers
  <2>1. CASE g = h
    BY <2>1
  <2>2. CASE g # h
    BY <2>2 DEF StepsReached, Reached, Alone, InLock
  <2> QED
    BY <2>1, <2>2
<1>2. \A g \in Handlers : Good(seenMeta'[g].approval)
  <2> TAKE g \in Handlers
  <2>1. CASE g = h
    BY <2>1
  <2>2. CASE g # h
    BY <2>2 DEF CopiesGood, Alone
  <2> QED
    BY <2>1, <2>2
<1> QED
  BY <1>1, <1>2 DEF StepsReached, CopiesGood
-----------------------------------------------------------------------------
(* Every action preserves the invariant. *)

LEMMA CallTypes == Saves \cup Edits \cup Transitions \subseteq Calls /\ NoCall \in Calls
<1>1. NoCall \in Calls
  BY DEF NoCall, Calls, Hashes
<1>2. Edits \subseteq Calls
  BY DEF Edits, NoCall, Calls, Hashes
<1>3. ASSUME NEW c \in Saves PROVE c \in Calls
  <2>1. PICK k \in Contents : c = [NoCall EXCEPT !.kind = "save", !.content = k]
    BY DEF Saves
  <2>2. c = [kind |-> "save", content |-> k, rev |-> 0, expected |-> None, state |-> "none"]
    BY <2>1 DEF NoCall
  <2> QED
    BY <2>2 DEF Calls, Hashes
<1>4. ASSUME NEW c \in Transitions PROVE c \in Calls
  <2>1. 1..MaxRev \subseteq Nat /\ Expected \subseteq Nat
    BY StoreAssumption
  <2>2. /\ c = [kind |-> c.kind, content |-> c.content, rev |-> c.rev, expected |-> c.expected, state |-> c.state]
        /\ c.kind = "approve" /\ c.content = None /\ c.rev \in 1..MaxRev
        /\ c.expected \in {None} \cup Expected /\ c.state \in {"approved", "released"}
    BY DEF Transitions
  <2> QED
    BY <2>1, <2>2 DEF Calls, Hashes
<1> QED
  BY <1>1, <1>2, <1>3, <1>4

LEMMA LatestType ==
  ASSUME NEW ix \in Indexes
  PROVE  Latest(ix) \in Nat /\ (Latest(ix) # 0 => ix # <<>>)
<1>1. CASE ix = <<>>
  BY <1>1 DEF Latest
<1>2. CASE ix # <<>>
  <2>1. Len(ix) \in 1..Len(ix)
    BY <1>2 DEF Indexes
  <2>2. ix[Len(ix)] \in Entries
    BY <2>1 DEF Indexes
  <2>3. ix[Len(ix)].rev \in Nat
    BY <2>2 DEF Entries
  <2> QED
    BY <1>2, <2>3 DEF Latest
<1> QED
  BY <1>1, <1>2

LEMMA InitOK == Init => IInv
<1> SUFFICES ASSUME Init PROVE IInv
  OBVIOUS
<1>1. NewMeta \in Metas /\ Good(NewMeta.approval)
  BY NewMetaOK
<1>2. SomeContent \in Contents
  BY StoreAssumption DEF SomeContent
<1>3. meta \in Metas /\ Good(meta.approval)
  <2>1. CASE meta = NewMeta
    BY <1>1, <2>1
  <2>2. CASE meta = [NewMeta EXCEPT !.revisionCount = 1]
    BY <1>1, <2>2, WithCount
  <2> QED
    BY <2>1, <2>2 DEF Init
<1>4. index \in Indexes
  <2> DEFINE first == [rev |-> 1, hash |-> None, by |-> None]
  <2>1. first \in Entries
    BY DEF Entries, Hashes
  <2>2. index \in {<<>>, <<first>>}
    BY DEF Init
  <2> HIDE DEF first
  <2>3. <<>> \in Seq(Entries) /\ <<first>> \in Seq(Entries)
    BY <2>1
  <2> QED
    BY <2>2, <2>3, Zenon DEF Indexes
<1>5. models \in [1..MaxRev -> Hashes]
  BY <1>2 DEF Init, Hashes
<1>6. call \in [Handlers -> Calls] /\ at \in [Handlers -> Stages]
  BY CallTypes DEF Init, Stages
<1>7. seenMeta \in [Handlers -> Metas] /\ seenIndex \in [Handlers -> Indexes]
  BY <1>1 DEF Init, Indexes
<1>8. lock \in Handlers \cup {None} /\ result \in [Handlers -> {None, "ok", "refused", "failed"}]
  BY DEF Init
<1>9. faults \in 0..MaxFaults
  BY StoreAssumption DEF Init
<1>10. turns \in BOOLEAN
  BY DEF Init
<1>11. StepsReached
  BY DEF Init, StepsReached, Reached, NoCall, InLock
<1>12. CopiesGood
  BY <1>1, <1>3 DEF Init, CopiesGood
<1> QED
  BY <1>3, <1>4, <1>5, <1>6, <1>7, <1>8, <1>9, <1>10, <1>11, <1>12 DEF IInv, TypeOK

LEMMA ReceiveOK ==
  ASSUME IInv, NEW h \in Handlers, NEW c \in Saves \cup Edits \cup Transitions, Receive(h, c)
  PROVE  IInv'
<1> USE DEF IInv
<1>1. meta \in Metas /\ Good(meta.approval)
  BY DEF TypeOK, CopiesGood
<1>2. CASE Answer(h, "refused") /\ call' = call
  <2>1. /\ at' \in [Handlers -> Stages] /\ result' \in [Handlers -> Results] /\ turns' \in BOOLEAN
        /\ seenMeta' \in [Handlers -> Metas] /\ seenIndex' \in [Handlers -> Indexes]
        /\ Alone(h) /\ at'[h] \notin InLock /\ Good(seenMeta'[h].approval)
    BY <1>2, AnswerOK DEF Results
  <2>2. TypeOK'
    BY <1>2, <2>1 DEF TypeOK, Receive, diskVars, Results
  <2>3. meta' = meta
    BY DEF Receive, diskVars
  <2>4. Reached(h)'
    BY <1>2, <2>1 DEF StepsReached, Reached, InLock
  <2> QED
    BY <1>1, <2>1, <2>2, <2>3, <2>4, Frame
<1>3. CASE /\ Step(h, "opened") /\ call' = [call EXCEPT ![h] = c]
           /\ seenMeta' = [seenMeta EXCEPT ![h] = meta] /\ UNCHANGED seenIndex
  <2>1. /\ at' \in [Handlers -> Stages] /\ result' \in [Handlers -> Results] /\ turns' \in BOOLEAN
        /\ at'[h] = "opened" /\ \A g \in Handlers \ {h} : at'[g] = at[g]
    BY <1>3, StepOK DEF Stages
  <2>2. c \in Calls
    BY CallTypes
  <2>3. call' \in [Handlers -> Calls]
    BY <1>3, <2>2 DEF TypeOK
  <2>4. seenMeta' \in [Handlers -> Metas] /\ seenMeta'[h] = meta
    BY <1>1, <1>3 DEF TypeOK
  <2>5. TypeOK'
    BY <1>3, <2>1, <2>3, <2>4 DEF TypeOK, Receive, diskVars, Results
  <2>6. Alone(h)
    BY <1>3, <2>1 DEF TypeOK, Alone
  <2>7. meta' = meta
    BY DEF Receive, diskVars
  <2>8. c.kind = "approve" => c \in Transitions
    <3>1. c \in Saves => c.kind = "save"
      BY DEF Saves, NoCall
    <3>2. c \in Edits => c.kind \in {"edit", "delete"}
      BY DEF Edits, NoCall
    <3> QED
      BY <3>1, <3>2
  <2>9. Reached(h)'
    BY <1>3, <2>1, <2>8 DEF TypeOK, Reached, InLock
  <2> QED
    BY <1>1, <2>1, <2>4, <2>5, <2>6, <2>7, <2>9, Frame
<1> QED
  BY <1>2, <1>3 DEF Receive

\* An action that leaves the meta file alone.
LEMMA MetaKept ==
  ASSUME IInv, UNCHANGED meta, NEW h \in Handlers, Alone(h),
         Reached(h)',
         Good(seenMeta'[h].approval)
  PROVE  StepsReached' /\ CopiesGood'
<1>1. StepsReached /\ CopiesGood /\ Good(meta'.approval)
  BY DEF IInv, CopiesGood
<1> QED
  BY <1>1, Frame

\* saveRevision up to its last write.
LEMMA SaveStepsOK ==
  ASSUME IInv, NEW h \in Handlers, ReadIndex(h) \/ WriteIndex(h) \/ WriteModel(h)
  PROVE  IInv'
<1>1. TypeOK /\ Good(seenMeta[h].approval) /\ UNCHANGED meta
  BY DEF IInv, CopiesGood, ReadIndex, WriteIndex, WriteModel, diskVars
<1>2. PICK s \in {"listed", "indexed", "stored"} : Step(h, s)
  BY DEF ReadIndex, WriteIndex, WriteModel
<1>3. /\ at' \in [Handlers -> Stages] /\ result' \in [Handlers -> Results] /\ turns' \in BOOLEAN
      /\ at'[h] = s /\ \A g \in Handlers \ {h} : at'[g] = at[g]
  BY <1>1, <1>2, StepOK DEF Stages
<1>4. CASE ReadIndex(h)
  <2>1. Latest(index) + 1 \in Nat /\ call[h] \in Calls
    BY <1>1, LatestType DEF TypeOK
  <2>2. \A n \in Nat : [call[h] EXCEPT !.rev = n] \in Calls
    BY <2>1 DEF Calls
  <2>3. call' \in [Handlers -> Calls]
    <3>1. call' = [call EXCEPT ![h] = [call[h] EXCEPT !.rev = Latest(index) + 1]]
      BY <1>1, <1>4 DEF ReadIndex, TypeOK
    <3> QED
      BY <1>1, <2>1, <2>2, <3>1 DEF TypeOK
  <2>4. seenIndex' \in [Handlers -> Indexes]
    BY <1>1, <1>4 DEF TypeOK, ReadIndex
  <2>5. TypeOK'
    BY <1>1, <1>3, <1>4, <2>3, <2>4 DEF TypeOK, ReadIndex, diskVars, Results
  <2>6. Alone(h)
    BY <1>1, <1>3, <1>4 DEF TypeOK, ReadIndex, Alone
  <2>7. seenMeta' = seenMeta
    BY <1>4 DEF ReadIndex
  <2>8. Reached(h)'
    <3>1. call'[h].kind = "save"
      BY <1>1, <1>4, <2>1 DEF ReadIndex, TypeOK, Calls
    <3> QED
      BY <1>3, <3>1 DEF Reached, InLock
  <2> QED
    BY <1>1, <2>5, <2>6, <2>7, <2>8, MetaKept DEF IInv
<1>5. CASE WriteIndex(h)
  <2> DEFINE entry == [rev |-> call[h].rev, hash |-> call[h].content, by |-> h]
  <2>1. call[h] \in Calls /\ seenIndex[h] \in Seq(Entries)
    BY <1>1 DEF TypeOK, Indexes
  <2>2. entry \in Entries
    BY <2>1 DEF Calls, Entries
  <2>3. index' = Append(seenIndex[h], entry)
    BY <1>5 DEF WriteIndex
  <2> HIDE DEF entry
  <2>4. index' \in Indexes
    BY <2>1, <2>2, <2>3 DEF Indexes
  <2>5. TypeOK'
    BY <1>1, <1>3, <1>5, <2>4 DEF TypeOK, WriteIndex, Results
  <2>6. Alone(h) /\ seenMeta' = seenMeta
    BY <1>1, <1>3, <1>5 DEF WriteIndex, Alone
  <2>7. Reached(h)'
    BY <1>3, <1>5 DEF WriteIndex, IInv, StepsReached, Reached, InLock
  <2> QED
    BY <1>1, <2>5, <2>6, <2>7, MetaKept DEF IInv
<1>6. CASE WriteModel(h)
  <2>1. call[h].content \in Hashes
    BY <1>1 DEF TypeOK, Calls
  <2>2. models' \in [1..MaxRev -> Hashes]
    BY <1>1, <1>6, <2>1 DEF TypeOK, WriteModel
  <2>3. TypeOK'
    BY <1>1, <1>3, <1>6, <2>2 DEF TypeOK, WriteModel, Results
  <2>4. Alone(h) /\ seenMeta' = seenMeta
    BY <1>1, <1>3, <1>6 DEF WriteModel, Alone
  <2>5. Reached(h)'
    BY <1>3, <1>6 DEF WriteModel, IInv, StepsReached, Reached, InLock
  <2> QED
    BY <1>1, <2>3, <2>4, <2>5, MetaKept DEF IInv
<1> QED
  BY <1>4, <1>5, <1>6

\* The rest of an answered request's step, given what it did to the files.
LEMMA AnswerKeeps ==
  ASSUME IInv, NEW h \in Handlers, NEW r \in Results, Answer(h, r), call' = call,
         meta' \in Metas, Good(meta'.approval), UNCHANGED <<index, models>>,
         lock' \in Handlers \cup {None}, faults' \in 0..MaxFaults
  PROVE  IInv'
<1>1. TypeOK /\ StepsReached /\ CopiesGood
  BY DEF IInv
<1>2. /\ at' \in [Handlers -> Stages] /\ result' \in [Handlers -> Results] /\ turns' \in BOOLEAN
      /\ seenMeta' \in [Handlers -> Metas] /\ seenIndex' \in [Handlers -> Indexes]
      /\ Alone(h) /\ at'[h] \notin InLock /\ Good(seenMeta'[h].approval)
  BY <1>1, AnswerOK
<1>3. TypeOK'
  BY <1>1, <1>2 DEF TypeOK, Results
<1>4. Reached(h)'
  BY <1>1, <1>2 DEF StepsReached, Reached, InLock
<1> QED
  BY <1>1, <1>2, <1>3, <1>4, Frame DEF IInv

\* The writes of the meta file without the approval's lock.
LEMMA MetaWritesOK ==
  ASSUME IInv, NEW h \in Handlers, WriteSavedMeta(h) \/ WriteEditedMeta(h)
  PROVE  IInv'
<1>1. /\ TypeOK /\ seenMeta[h] \in Metas /\ Good(seenMeta[h].approval)
      /\ Answer(h, "ok") /\ call' = call /\ UNCHANGED <<index, models>> /\ lock' = lock /\ faults' = faults
  BY DEF IInv, CopiesGood, TypeOK, WriteSavedMeta, WriteEditedMeta
<1>2. lock' \in Handlers \cup {None} /\ faults' \in 0..MaxFaults /\ "ok" \in Results
  BY <1>1 DEF TypeOK, Results
<1>3. CASE WriteSavedMeta(h)
  <2> DEFINE m == seenMeta[h]
             n == Len(seenIndex[h]) + 1
             a == IF m.approval.rev # call[h].rev THEN Superseded(m.approval) ELSE m.approval
             k == [m EXCEPT !.revisionCount = n]
  <2>1. n \in Nat
    BY <1>1 DEF TypeOK, Indexes
  <2>2. a \in Approvals /\ Good(a)
    BY <1>1, SupersededOK, MetaFields
  <2>3. k \in Metas
    BY <1>1, <2>1, WithCount
  <2>4. meta' = [k EXCEPT !.approval = a]
    BY <1>1, <1>3 DEF WriteSavedMeta, Metas
  <2> HIDE DEF a, k
  <2>5. meta' \in Metas /\ meta'.approval = a
    BY <2>2, <2>3, <2>4, WithApproval
  <2> QED
    BY <1>1, <1>2, <2>2, <2>5, AnswerKeeps
<1>4. CASE WriteEditedMeta(h)
  <2>1. meta' \in Metas /\ meta'.approval = seenMeta[h].approval
    <3>1. CASE call[h].kind = "edit"
      BY <1>1, <1>4, <3>1, WithEdit DEF WriteEditedMeta
    <3>2. CASE call[h].kind # "edit"
      BY <1>1, <1>4, <3>2, WithEdit DEF WriteEditedMeta
    <3> QED
      BY <3>1, <3>2
  <2> QED
    BY <1>1, <1>2, <2>1, AnswerKeeps
<1> QED
  BY <1>3, <1>4

\* A request that fails, or is refused under the lock.
LEMMA EndsOK ==
  ASSUME IInv, NEW h \in Handlers, NEW r \in Results, Answer(h, r), UNCHANGED <<diskVars, call>>,
         lock' \in {None, lock}, faults' \in 0..MaxFaults
  PROVE  IInv'
<1>1. meta' \in Metas /\ Good(meta'.approval) /\ lock' \in Handlers \cup {None}
  BY DEF IInv, CopiesGood, TypeOK, diskVars
<1> QED
  BY <1>1, AnswerKeeps DEF diskVars

LEMMA FaultOK ==
  ASSUME IInv, NEW h \in Handlers, Fault(h)
  PROVE  IInv'
<1>1. "failed" \in Results /\ faults' \in 0..MaxFaults
  BY StoreAssumption DEF Results, Fault, IInv, TypeOK
<1>2. lock' \in {None, lock} /\ Answer(h, "failed") /\ UNCHANGED <<diskVars, call>>
  BY DEF Fault
<1> QED
  BY <1>1, <1>2, EndsOK

LEMMA LockOK ==
  ASSUME IInv, NEW h \in Handlers, Lock(h)
  PROVE  IInv'
<1>1. TypeOK /\ meta \in Metas /\ Good(meta.approval) /\ Reached(h)
  BY DEF IInv, TypeOK, CopiesGood, StepsReached
<1>2. UNCHANGED <<diskVars, call, faults>>
  BY DEF Lock
<1>3. CASE Answer(h, "refused") /\ UNCHANGED lock
  <2>1. "refused" \in Results /\ faults' \in 0..MaxFaults
    BY <1>1, <1>2 DEF Results, TypeOK
  <2> QED
    BY <1>2, <1>3, <2>1, EndsOK
<1>4. CASE /\ Step(h, "locked") /\ lock' = h
           /\ seenMeta' = [seenMeta EXCEPT ![h] = meta] /\ UNCHANGED seenIndex
  <2>1. /\ at' \in [Handlers -> Stages] /\ result' \in [Handlers -> Results] /\ turns' \in BOOLEAN
        /\ at'[h] = "locked" /\ \A g \in Handlers \ {h} : at'[g] = at[g]
    BY <1>1, <1>4, StepOK DEF Stages
  <2>2. seenMeta' \in [Handlers -> Metas] /\ seenMeta'[h] = meta
    BY <1>1, <1>4 DEF TypeOK
  <2>3. TypeOK'
    BY <1>1, <1>2, <1>4, <2>1, <2>2 DEF TypeOK, diskVars, Results
  <2>4. Alone(h)
    BY <1>1, <1>2, <1>4, <2>1 DEF TypeOK, Alone
  <2>5. Reached(h)'
    BY <1>1, <1>2, <2>1 DEF Lock, Reached
  <2> QED
    BY <1>1, <1>2, <2>2, <2>3, <2>4, <2>5, MetaKept DEF diskVars, IInv
<1> QED
  BY <1>3, <1>4 DEF Lock

LEMMA CheckLatestOK ==
  ASSUME IInv, NEW h \in Handlers, CheckLatest(h)
  PROVE  IInv'
<1>1. TypeOK /\ Good(seenMeta[h].approval) /\ Reached(h)
  BY DEF IInv, TypeOK, CopiesGood, StepsReached
<1>2. UNCHANGED <<diskVars, call, faults>> /\ at[h] = "locked"
  BY DEF CheckLatest
<1>3. CASE Refuse(h)
  <2>1. "refused" \in Results /\ faults' \in 0..MaxFaults
    BY <1>1, <1>2 DEF Results, TypeOK
  <2> QED
    BY <1>2, <1>3, <2>1, EndsOK DEF Refuse
<1>4. CASE /\ Latest(index) = call[h].rev /\ Step(h, "checked")
           /\ seenIndex' = [seenIndex EXCEPT ![h] = index] /\ UNCHANGED <<lock, seenMeta>>
  <2>1. /\ at' \in [Handlers -> Stages] /\ result' \in [Handlers -> Results] /\ turns' \in BOOLEAN
        /\ at'[h] = "checked" /\ \A g \in Handlers \ {h} : at'[g] = at[g]
    BY <1>1, <1>4, StepOK DEF Stages
  <2>2. index # <<>>
    <3>1. call[h].rev \in 1..MaxRev
      BY <1>1, <1>2 DEF Reached, InLock, Transitions
    <3> QED
      BY <1>1, <1>4, <3>1, LatestType, StoreAssumption DEF TypeOK
  <2>3. seenIndex' \in [Handlers -> Indexes] /\ seenIndex'[h] # <<>>
    BY <1>1, <1>4, <2>2 DEF TypeOK
  <2>4. TypeOK'
    BY <1>1, <1>2, <1>4, <2>1, <2>3 DEF TypeOK, diskVars, Results
  <2>5. Alone(h) /\ Reached(h)'
    BY <1>1, <1>2, <1>4, <2>1, <2>3 DEF TypeOK, Alone, Reached, InLock
  <2> QED
    BY <1>1, <1>2, <1>4, <2>4, <2>5, MetaKept DEF diskVars, IInv
<1> QED
  BY <1>3, <1>4 DEF CheckLatest

LEMMA CheckModelOK ==
  ASSUME IInv, NEW h \in Handlers, CheckModel(h)
  PROVE  IInv'
<1>1. TypeOK /\ Good(seenMeta[h].approval) /\ Reached(h)
  BY DEF IInv, TypeOK, CopiesGood, StepsReached
<1>2. UNCHANGED <<diskVars, call, faults>> /\ at[h] = "checked"
  BY DEF CheckModel
<1>3. call[h] \in Transitions /\ seenIndex[h] \in Seq(Entries) /\ seenIndex[h] # <<>>
  BY <1>1, <1>2 DEF Reached, InLock, TypeOK, Indexes
<1>4. CASE Refuse(h)
  <2>1. "refused" \in Results /\ faults' \in 0..MaxFaults
    BY <1>1, <1>2 DEF Results, TypeOK
  <2> QED
    BY <1>2, <1>4, <2>1, EndsOK DEF Refuse
<1>5. ASSUME NEW s \in {"backfill", "verified"}, Step(h, s), UNCHANGED <<lock, seenMeta>>,
             seenIndex' \in [Handlers -> Indexes], seenIndex'[h] # <<>>,
             \A g \in Handlers \ {h} : seenIndex'[g] = seenIndex[g]
      PROVE  IInv'
  <2>1. /\ at' \in [Handlers -> Stages] /\ result' \in [Handlers -> Results] /\ turns' \in BOOLEAN
        /\ at'[h] = s /\ \A g \in Handlers \ {h} : at'[g] = at[g]
    BY <1>1, <1>5, StepOK DEF Stages
  <2>2. TypeOK'
    BY <1>1, <1>2, <1>5, <2>1 DEF TypeOK, diskVars, Results
  <2>3. Alone(h)
    BY <1>2, <1>5, <2>1 DEF Alone
  <2>4. Reached(h)'
    BY <1>1, <1>2, <1>5, <2>1 DEF Reached, InLock
  <2> QED
    BY <1>1, <1>2, <1>5, <2>2, <2>3, <2>4, MetaKept DEF diskVars, IInv
<1>6. CASE Step(h, "verified") /\ UNCHANGED <<lock, seenMeta, seenIndex>>
  <2>1. seenIndex' \in [Handlers -> Indexes] /\ seenIndex'[h] # <<>>
    BY <1>1, <1>3, <1>6 DEF TypeOK
  <2> QED
    BY <1>5, <1>6, <2>1
<1>7. CASE /\ models[call[h].rev] # None
           /\ seenIndex' = [seenIndex EXCEPT ![h] = [@ EXCEPT ![Len(@)].hash = models[call[h].rev]]]
           /\ Step(h, "backfill") /\ UNCHANGED <<lock, seenMeta>>
  <2> DEFINE ix == seenIndex[h]
             last == [ix[Len(ix)] EXCEPT !.hash = models[call[h].rev]]
             filled == [ix EXCEPT ![Len(ix)] = last]
  <2>1. models[call[h].rev] \in Hashes
    BY <1>1, <1>3 DEF TypeOK, Transitions
  <2>2. Len(ix) \in DOMAIN ix /\ ix[Len(ix)] \in Entries
    BY <1>3
  <2>3. last \in Entries
    BY <2>1, <2>2 DEF Entries
  <2>4. seenIndex' = [seenIndex EXCEPT ![h] = filled]
    BY <1>1, <1>7 DEF TypeOK
  <2> HIDE DEF last
  <2>5. filled \in Seq(Entries) /\ filled # <<>>
    BY <1>3, <2>2, <2>3
  <2> HIDE DEF ix, filled
  <2>6. /\ seenIndex' \in [Handlers -> Indexes] /\ seenIndex'[h] = filled
        /\ \A g \in Handlers \ {h} : seenIndex'[g] = seenIndex[g]
    BY <1>1, <2>4, <2>5 DEF TypeOK, Indexes
  <2> QED
    BY <1>5, <1>7, <2>5, <2>6
<1> QED
  BY <1>4, <1>6, <1>7 DEF CheckModel

LEMMA BackfillOK ==
  ASSUME IInv, NEW h \in Handlers, Backfill(h)
  PROVE  IInv'
<1>1. TypeOK /\ Good(seenMeta[h].approval) /\ Reached(h)
  BY DEF IInv, TypeOK, CopiesGood, StepsReached
<1>2. /\ index' = seenIndex[h] /\ at[h] = "backfill" /\ Step(h, "verified")
      /\ UNCHANGED <<meta, models, lock, call, seenMeta, seenIndex, faults>>
  BY DEF Backfill
<1>3. /\ at' \in [Handlers -> Stages] /\ result' \in [Handlers -> Results] /\ turns' \in BOOLEAN
      /\ at'[h] = "verified" /\ \A g \in Handlers \ {h} : at'[g] = at[g]
  BY <1>1, <1>2, StepOK DEF Stages
<1>4. TypeOK'
  BY <1>1, <1>2, <1>3 DEF TypeOK, Results
<1>5. Alone(h) /\ Reached(h)'
  BY <1>1, <1>2, <1>3 DEF Alone, Reached, InLock
<1> QED
  BY <1>1, <1>2, <1>4, <1>5, MetaKept DEF IInv

LEMMA DecideOK ==
  ASSUME IInv, NEW h \in Handlers, Decide(h)
  PROVE  IInv'
<1> DEFINE a == seenMeta[h].approval
           c == call[h]
<1>1. /\ TypeOK /\ seenMeta[h] \in Metas /\ Good(a) /\ Reached(h)
      /\ meta \in Metas /\ Good(meta.approval)
  BY DEF IInv, TypeOK, CopiesGood, StepsReached
<1>2. at[h] = "verified" /\ lock' = None /\ UNCHANGED <<index, models, call, faults>>
  BY DEF Decide
<1>3. c \in Transitions /\ Recorded(h) \in Hashes
  <2>1. c \in Transitions /\ seenIndex[h] \in Seq(Entries) /\ seenIndex[h] # <<>>
    BY <1>1, <1>2 DEF Reached, InLock, TypeOK, Indexes
  <2>2. seenIndex[h][Len(seenIndex[h])] \in Entries
    BY <2>1
  <2> QED
    BY <2>1, <2>2 DEF Recorded, Entries
<1>4. {"ok", "refused"} \subseteq Results /\ faults' \in 0..MaxFaults
  BY <1>1, <1>2 DEF Results, TypeOK
<1>5. CASE Answer(h, "refused") /\ UNCHANGED meta
  BY <1>1, <1>2, <1>4, <1>5, AnswerKeeps
<1>6. CASE /\ c.state = "released" => Releasable(a, c.rev, Recorded(h))
           /\ meta' = [seenMeta[h] EXCEPT !.approval = Advance(a, c.state, c.rev, Recorded(h), TRUE)]
           /\ Answer(h, "ok")
  <2> DEFINE b == Advance(a, c.state, c.rev, Recorded(h), TRUE)
  <2>1. /\ c.state \in {"approved", "released"} /\ c.rev \in Nat
        /\ c.state = "released" => a.state = "approved" /\ a.rev = c.rev /\ a.hash = Recorded(h)
    BY <1>3, <1>6 DEF Transitions, Releasable
  <2>2. a \in Approvals
    BY <1>1, MetaFields
  <2> HIDE DEF a, c
  <2>3. b \in Approvals /\ Good(b)
    BY <1>1, <1>3, <2>1, <2>2, AdvanceOK
  <2>4. meta' = [seenMeta[h] EXCEPT !.approval = b]
    BY <1>6
  <2> HIDE DEF b
  <2>5. meta' \in Metas /\ meta'.approval = b
    BY <1>1, <2>3, <2>4, WithApproval
  <2> QED
    BY <1>2, <1>4, <1>6, <2>3, <2>5, AnswerKeeps
<1> QED
  BY <1>5, <1>6 DEF Decide

LEMMA NextOK == IInv /\ [Next]_vars => IInv'
<1> SUFFICES ASSUME IInv, [Next]_vars PROVE IInv'
  OBVIOUS
<1>1. CASE UNCHANGED vars
  BY <1>1 DEF vars, diskVars, IInv, TypeOK, StepsReached, Reached, CopiesGood, Recorded
<1>2. ASSUME NEW h \in Handlers, NEW c \in Saves \cup Edits \cup Transitions, Receive(h, c) PROVE IInv'
  BY <1>2, ReceiveOK
<1>3. ASSUME NEW h \in Handlers, Proceed(h) PROVE IInv'
  BY <1>3, SaveStepsOK, MetaWritesOK, LockOK, CheckLatestOK, CheckModelOK, BackfillOK, DecideOK DEF Proceed
<1>4. ASSUME NEW h \in Handlers, Fault(h) PROVE IInv'
  BY <1>4, FaultOK
<1> QED
  BY <1>1, <1>2, <1>3, <1>4 DEF Next
-----------------------------------------------------------------------------
(* While clients take turns.                                               *)
(*                                                                         *)
(* Who saves or edits is alone, and so works on the meta and the index as  *)
(* they are on disk; approvals may overlap each other, but not in the lock *)
(* of the meta file, and what they write to the index differs from it only *)
(* in hashes.  A save writes the model of a revision beyond all that were  *)
(* saved or approved, also when an earlier save was cut off between its    *)
(* writes.                                                                 *)

Live(a) == a.current => a.state \in {"approved", "released"}

\* Whoever takes turns: the stages of a request, and who holds the lock.
Orderly ==
  /\ \A h \in Handlers : /\ at[h] # "done" => result[h] = None
                         /\ at[h] = "idle" => call[h] = NoCall
                         /\ at[h] \in {"listed", "indexed", "stored"} => call[h].kind = "save"
                         /\ at[h] \in InLock => lock = h /\ seenMeta[h] = meta
                         /\ lock = h => at[h] \in InLock
                         /\ Live(seenMeta[h].approval)
  /\ Live(meta.approval)

WritersAlone ==
  \A g, h \in Handlers : g # h /\ Open(g) /\ Open(h) => ~Writes(call[g].kind)

Entry(h) == [rev |-> call[h].rev, hash |-> call[h].content, by |-> h]

\* The revision of a save that is under way lies beyond all that count.
Beyond(h) ==
  /\ call[h].rev = Len(seenIndex[h]) + 1 /\ call[h].rev <= MaxRev
  /\ meta.approval.rev < call[h].rev
  /\ \A g \in Handlers : Saved(g) => SavedRev(g) < call[h].rev

\* What a request that saves or edits has done so far.
Saving(h) ==
  /\ Open(h) /\ Writes(call[h].kind) => seenMeta[h] = meta
  /\ at[h] = "opened" /\ call[h].kind = "save" => Len(index) < MaxRev
  /\ at[h] = "listed" => Beyond(h) /\ seenIndex[h] = index
  /\ at[h] \in {"indexed", "stored"} => Beyond(h) /\ index = Append(seenIndex[h], Entry(h))
  /\ at[h] = "stored" => models[call[h].rev] = call[h].content

\* The copy of the index a transition decides by, and may write back.
SameRows(ix) ==
  Len(ix) = Len(index) /\ \A i \in 1..Len(ix) : ix[i].rev = i /\ ix[i].by = index[i].by

Deciding(h) ==
  /\ at[h] \in InLock \ {"locked"} => call[h].rev = Len(index) /\ SameRows(seenIndex[h])
  /\ at[h] \in {"backfill", "verified"} => Recorded(h) = models[call[h].rev]

\* Revisions are numbered by their place in the index, and answered saves are there.
Numbered(ix) == \A i \in 1..Len(ix) : ix[i].rev = i

Stored(h) ==
  Saved(h) => /\ SavedRev(h) \in 1..MaxRev /\ SavedRev(h) <= Len(index)
              /\ index[SavedRev(h)].by = h
              /\ models[SavedRev(h)] = call[h].content

\* An answered edit is in the meta, and a transition has used up its version.
Granted(h) ==
  /\ call[h].kind = "edit" /\ result[h] = "ok" => h \in meta.edits
  /\ call[h].kind = "approve" /\ result[h] = "ok" /\ call[h].expected # None
       => call[h].expected < meta.approval.version

\* No two transitions that expected one version were granted.
OneGrant ==
  \A g, h \in Handlers :
    /\ g # h /\ call[g].kind = "approve" /\ call[h].kind = "approve"
    /\ call[g].expected = call[h].expected /\ call[g].expected # None
    => ~(result[g] = "ok" /\ result[h] = "ok")

ApprovalStored ==
  /\ meta.approval.rev <= Len(index)
  /\ meta.approval.state # "none" => /\ meta.approval.rev \in 1..MaxRev
                                     /\ models[meta.approval.rev] = meta.approval.hash

OnDisk ==
  /\ Numbered(index)
  /\ \A h \in Handlers : Stored(h) /\ Granted(h)
  /\ OneGrant /\ OvertakenNotCurrent /\ ApprovalStored

InTurn == WritersAlone /\ OnDisk /\ \A h \in Handlers : Saving(h) /\ Deciding(h)

TurnInv == IInv /\ Orderly /\ (turns => InTurn)
-----------------------------------------------------------------------------
(* What a step does to the other requests. *)

\* Only request h moved, or was answered.
Others(h) == Alone(h) /\ \A g \in Handlers \ {h} : result'[g] = result[g]

LEMMA AnswerMoves ==
  ASSUME TypeOK, NEW h \in Handlers, NEW r, Answer(h, r), call' = call
  PROVE  /\ at'[h] = "done" /\ result'[h] = r /\ seenMeta'[h] = NewMeta /\ turns' = turns
         /\ Others(h)
<1>1. at'[h] = "done" /\ result'[h] = r /\ seenMeta'[h] = NewMeta /\ turns' = turns
  BY DEF Answer, TypeOK
<1>2. Others(h)
  BY DEF Answer, TypeOK, Others, Alone
<1> QED
  BY <1>1, <1>2

LEMMA StepMoves ==
  ASSUME TypeOK, NEW h \in Handlers, NEW s, Step(h, s)
  PROVE  /\ at'[h] = s /\ result' = result /\ turns' = turns
         /\ \A g \in Handlers \ {h} : at'[g] = at[g]
BY DEF Step, TypeOK

\* A request that moves leaves order, if it does so itself and the meta file
\* changes only without the lock of another.
LEMMA OrderFrame ==
  ASSUME Orderly, NEW h \in Handlers, Others(h),
         at'[h] # "done" => result'[h] = None,
         at'[h] # "idle",
         at'[h] \in {"listed", "indexed", "stored"} => call'[h].kind = "save",
         at'[h] \in InLock => lock' = h /\ seenMeta'[h] = meta',
         lock' = h => at'[h] \in InLock,
         Live(seenMeta'[h].approval), Live(meta'.approval),
         \A g \in Handlers \ {h} : lock' = g <=> lock = g,
         meta' = meta \/ lock \in {None, h}
  PROVE  Orderly'
<1>1. ASSUME NEW g \in Handlers
      PROVE  /\ at'[g] # "done" => result'[g] = None
             /\ at'[g] = "idle" => call'[g] = NoCall
             /\ at'[g] \in {"listed", "indexed", "stored"} => call'[g].kind = "save"
             /\ at'[g] \in InLock => lock' = g /\ seenMeta'[g] = meta'
             /\ lock' = g => at'[g] \in InLock
             /\ Live(seenMeta'[g].approval)
  <2>1. CASE g = h
    BY <2>1
  <2>2. CASE g # h
    <3>1. /\ at'[g] = at[g] /\ call'[g] = call[g] /\ result'[g] = result[g]
          /\ seenMeta'[g] = seenMeta[g]
          /\ lock' = g <=> lock = g
      BY <2>2 DEF Others, Alone
    <3>2. at[g] \in InLock => meta' = meta
      <4>1. at[g] \in InLock => lock = g
        BY DEF Orderly
      <4> QED
        BY <4>1, <2>2, StoreAssumption
    <3>3. /\ at[g] # "done" => result[g] = None
          /\ at[g] = "idle" => call[g] = NoCall
          /\ at[g] \in {"listed", "indexed", "stored"} => call[g].kind = "save"
          /\ at[g] \in InLock => lock = g /\ seenMeta[g] = meta
          /\ lock = g => at[g] \in InLock
          /\ Live(seenMeta[g].approval)
      BY DEF Orderly
    <3> QED
      BY <3>1, <3>2, <3>3 DEF Live
  <2> QED
    BY <2>1, <2>2
<1> QED
  BY <1>1 DEF Orderly, InLock
-----------------------------------------------------------------------------
(* Whoever takes turns, every step keeps the order. *)

LEMMA NewMetaLive == Live(NewMeta.approval)
BY DEF Live, NewMeta, NoApproval

\* A request that is answered lets go of the lock.
LEMMA OrderAnswered ==
  ASSUME TypeOK, Orderly, NEW h \in Handlers, NEW r, Answer(h, r), call' = call,
         Live(meta'.approval), lock' # h,
         \A g \in Handlers \ {h} : lock' = g <=> lock = g,
         meta' = meta \/ lock \in {None, h}
  PROVE  Orderly'
<1>1. at'[h] = "done" /\ seenMeta'[h] = NewMeta /\ Others(h)
  BY AnswerMoves
<1>2. Live(seenMeta'[h].approval)
  BY <1>1, NewMetaLive
<1> QED
  BY <1>1, <1>2, OrderFrame DEF InLock

\* So does one that goes on.
LEMMA OrderStepped ==
  ASSUME TypeOK, Orderly, NEW h \in Handlers, NEW s \in Stages, Step(h, s),
         at[h] # "done", s \notin {"done", "idle"}, Alone(h),
         s \in {"listed", "indexed", "stored"} => call'[h].kind = "save",
         s \in InLock => lock' = h /\ seenMeta'[h] = meta,
         lock' = h => s \in InLock,
         Live(seenMeta'[h].approval), meta' = meta,
         \A g \in Handlers \ {h} : lock' = g <=> lock = g
  PROVE  Orderly'
<1>1. at'[h] = s /\ result' = result /\ turns' = turns
  BY StepMoves
<1>2. result'[h] = None
  BY <1>1 DEF Orderly
<1>3. Others(h)
  BY <1>1 DEF Others
<1>4. Live(meta'.approval)
  BY DEF Orderly
<1> QED
  BY <1>1, <1>2, <1>3, <1>4, OrderFrame

LEMMA OrderReceive ==
  ASSUME TypeOK, Orderly, NEW h \in Handlers, NEW c \in Saves \cup Edits \cup Transitions,
         Receive(h, c)
  PROVE  Orderly'
<1>1. at[h] = "idle" /\ meta' = meta /\ lock' = lock /\ lock # h
  BY DEF Receive, diskVars, Orderly, InLock
<1>2. Live(meta.approval)
  BY DEF Orderly
<1>3. CASE Answer(h, "refused") /\ call' = call
  BY <1>1, <1>2, <1>3, OrderAnswered
<1>4. CASE /\ Step(h, "opened") /\ call' = [call EXCEPT ![h] = c]
           /\ seenMeta' = [seenMeta EXCEPT ![h] = meta] /\ seenIndex' = seenIndex
  <2>1. Alone(h)
    BY <1>4, StepMoves DEF Alone, TypeOK
  <2>2. Live(seenMeta'[h].approval)
    BY <1>2, <1>4 DEF TypeOK
  <2> QED
    BY <1>1, <1>4, <2>1, <2>2, OrderStepped DEF Stages, InLock
<1> QED
  BY <1>3, <1>4 DEF Receive

LEMMA OrderSaveSteps ==
  ASSUME TypeOK, Orderly, NEW h \in Handlers, ReadIndex(h) \/ WriteIndex(h) \/ WriteModel(h)
  PROVE  Orderly'
<1>1. PICK s \in {"listed", "indexed", "stored"} : Step(h, s)
  BY DEF ReadIndex, WriteIndex, WriteModel
<1>2. /\ at[h] \in {"opened", "listed", "indexed"} /\ meta' = meta /\ lock' = lock
      /\ seenMeta' = seenMeta
  BY DEF ReadIndex, WriteIndex, WriteModel, diskVars
<1>3. lock # h /\ Live(seenMeta'[h].approval)
  BY <1>2 DEF Orderly, InLock
<1>4. Alone(h)
  <2>1. \A g \in Handlers \ {h} : call'[g] = call[g] /\ seenIndex'[g] = seenIndex[g]
    BY DEF ReadIndex, WriteIndex, WriteModel, TypeOK
  <2> QED
    BY <1>1, <1>2, <2>1, StepMoves DEF Alone
<1>5. call'[h].kind = "save"
  <2>1. call[h] \in Calls
    BY DEF TypeOK
  <2>2. CASE ReadIndex(h)
    BY <2>1, <2>2 DEF ReadIndex, TypeOK, Calls
  <2>3. CASE WriteIndex(h) \/ WriteModel(h)
    BY <2>3 DEF WriteIndex, WriteModel, Orderly
  <2> QED
    BY <2>2, <2>3
<1> QED
  BY <1>1, <1>2, <1>3, <1>4, <1>5, OrderStepped DEF Stages, InLock

\* A superseded approval is not current, whatever it was.
LEMMA SupersededLive ==
  ASSUME NEW a, Live(a)
  PROVE  Live(Superseded(a)) /\ ~Superseded(a).current
BY DEF Live, Superseded, Advance

LEMMA OrderMetaWrites ==
  ASSUME TypeOK, Orderly, NEW h \in Handlers, WriteSavedMeta(h) \/ WriteEditedMeta(h)
  PROVE  Orderly'
<1>1. /\ Answer(h, "ok") /\ call' = call /\ lock = None /\ lock' = lock
      /\ seenMeta[h] \in Metas /\ Live(seenMeta[h].approval)
  BY DEF WriteSavedMeta, WriteEditedMeta, TypeOK, Orderly
<1>2. lock' # h
  BY <1>1, StoreAssumption
<1>3. Live(meta'.approval)
  <2>1. CASE WriteSavedMeta(h)
    <3>1. meta'.approval \in {seenMeta[h].approval, Superseded(seenMeta[h].approval)}
      BY <1>1, <2>1 DEF WriteSavedMeta, Metas
    <3> QED
      BY <1>1, <3>1, SupersededLive
  <2>2. CASE WriteEditedMeta(h)
    <3>1. meta'.approval = seenMeta[h].approval
      BY <1>1, <2>2 DEF WriteEditedMeta, Metas
    <3> QED
      BY <1>1, <3>1
  <2> QED
    BY <2>1, <2>2
<1> QED
  BY <1>1, <1>2, <1>3, OrderAnswered

LEMMA OrderLock ==
  ASSUME TypeOK, Orderly, NEW h \in Handlers, Lock(h)
  PROVE  Orderly'
<1>1. at[h] = "opened" /\ lock = None /\ meta' = meta /\ call' = call /\ Live(meta.approval)
  BY DEF Lock, diskVars, Orderly
<1>2. None \notin Handlers
  BY StoreAssumption
<1>3. CASE Answer(h, "refused") /\ lock' = lock
  BY <1>1, <1>2, <1>3, OrderAnswered
<1>4. CASE /\ Step(h, "locked") /\ lock' = h
           /\ seenMeta' = [seenMeta EXCEPT ![h] = meta] /\ seenIndex' = seenIndex
  <2>1. Alone(h)
    BY <1>1, <1>4, StepMoves DEF Alone, TypeOK
  <2>2. seenMeta'[h] = meta
    BY <1>4 DEF TypeOK
  <2> QED
    BY <1>1, <1>2, <1>4, <2>1, <2>2, OrderStepped DEF Stages, InLock
<1> QED
  BY <1>3, <1>4 DEF Lock

LEMMA OrderDecides ==
  ASSUME TypeOK, StepsReached, Orderly, NEW h \in Handlers,
         CheckLatest(h) \/ CheckModel(h) \/ Backfill(h) \/ Decide(h)
  PROVE  Orderly'
<1>1. at[h] \in InLock /\ call' = call
  BY DEF CheckLatest, CheckModel, Backfill, Decide, InLock
<1>2. /\ lock = h /\ seenMeta[h] = meta /\ None \notin Handlers
      /\ Live(meta.approval) /\ Live(seenMeta[h].approval)
  BY <1>1, StoreAssumption DEF Orderly
<1>3. ASSUME NEW r, Answer(h, r), lock' = None, Live(meta'.approval)
      PROVE  Orderly'
  BY <1>1, <1>2, <1>3, OrderAnswered
<1>4. ASSUME NEW s \in InLock, Step(h, s), lock' = lock, meta' = meta, seenMeta' = seenMeta,
             \A g \in Handlers \ {h} : seenIndex'[g] = seenIndex[g]
      PROVE  Orderly'
  <2>1. Alone(h)
    BY <1>1, <1>4, StepMoves DEF Alone
  <2> QED
    BY <1>1, <1>2, <1>4, <2>1, OrderStepped DEF Stages, InLock
<1>5. CASE CheckLatest(h)
  <2>1. CASE Refuse(h)
    BY <1>2, <1>3, <1>5, <2>1 DEF Refuse, CheckLatest, diskVars
  <2>2. CASE Step(h, "checked") /\ seenIndex' = [seenIndex EXCEPT ![h] = index] /\ UNCHANGED <<lock, seenMeta>>
    BY <1>4, <1>5, <2>2 DEF CheckLatest, diskVars, InLock, TypeOK
  <2> QED
    BY <1>5, <2>1, <2>2 DEF CheckLatest
<1>6. CASE CheckModel(h)
  <2>1. CASE Refuse(h)
    BY <1>2, <1>3, <1>6, <2>1 DEF Refuse, CheckModel, diskVars
  <2>2. CASE \E s \in {"backfill", "verified"} :
               /\ Step(h, s) /\ UNCHANGED <<lock, seenMeta>>
               /\ \A g \in Handlers \ {h} : seenIndex'[g] = seenIndex[g]
    BY <1>4, <1>6, <2>2 DEF CheckModel, diskVars, InLock
  <2> QED
    BY <1>6, <2>1, <2>2 DEF CheckModel, TypeOK
<1>7. CASE Backfill(h)
  BY <1>4, <1>7 DEF Backfill, InLock
<1>8. CASE Decide(h)
  <2>1. PICK r \in {"ok", "refused"} : Answer(h, r)
    BY <1>8 DEF Decide
  <2>2. Live(meta'.approval)
    <3>1. CASE meta' = meta
      BY <1>2, <3>1
    <3>2. CASE meta' # meta
      <4> DEFINE b == Advance(seenMeta[h].approval, call[h].state, call[h].rev, Recorded(h), TRUE)
      <4>1. meta' = [seenMeta[h] EXCEPT !.approval = b]
        BY <1>8, <3>2 DEF Decide
      <4>2. meta'.approval = b
        BY <4>1 DEF TypeOK, Metas
      <4>3. b.state = call[h].state
        BY DEF Advance
      <4>4. call[h].state \in {"approved", "released"}
        BY <1>1 DEF StepsReached, Reached, Transitions
      <4> QED
        BY <4>2, <4>3, <4>4 DEF Live
    <3> QED
      BY <3>1, <3>2
  <2> QED
    BY <1>3, <1>8, <2>1, <2>2 DEF Decide
<1> QED
  BY <1>5, <1>6, <1>7, <1>8

LEMMA OrderFault ==
  ASSUME TypeOK, Orderly, NEW h \in Handlers, Fault(h)
  PROVE  Orderly'
<1>1. /\ Answer(h, "failed") /\ call' = call /\ meta' = meta
      /\ lock' = IF lock = h THEN None ELSE lock
  BY DEF Fault, diskVars
<1>2. lock' # h /\ \A g \in Handlers \ {h} : lock' = g <=> lock = g
  BY <1>1, StoreAssumption
<1>3. Live(meta'.approval)
  BY <1>1 DEF Orderly
<1> QED
  BY <1>1, <1>2, <1>3, OrderAnswered

LEMMA OrderInit == Init => Orderly
<1> SUFFICES ASSUME Init PROVE Orderly
  OBVIOUS
<1>1. \A h \in Handlers : /\ at[h] = "idle" /\ result[h] = None /\ call[h] = NoCall
                          /\ seenMeta[h] = NewMeta
  BY DEF Init
<1>2. lock = None /\ None \notin Handlers
  BY StoreAssumption DEF Init
<1>3. Live(meta.approval)
  <2>1. meta.approval = NewMeta.approval
    BY DEF Init, NewMeta
  <2> QED
    BY <2>1, NewMetaLive
<1> QED
  BY <1>1, <1>2, <1>3, NewMetaLive DEF Orderly, InLock
-----------------------------------------------------------------------------
(* While clients take turns, every step keeps what is in turn. *)

\* Nobody opens, or changes what they do, but h.
LEMMA AloneStill ==
  ASSUME WritersAlone, NEW h \in Handlers, Alone(h),
         Open(h)' => Open(h) /\ call'[h].kind = call[h].kind
  PROVE  WritersAlone'
<1> SUFFICES ASSUME NEW f \in Handlers, NEW g \in Handlers, f # g, Open(f)', Open(g)'
             PROVE  ~Writes(call'[f].kind)
  BY DEF WritersAlone
<1>1. /\ Open(f) /\ call'[f].kind = call[f].kind
      /\ Open(g)
  BY DEF Alone, Open
<1> QED
  BY <1>1 DEF WritersAlone, Writes

\* While a request saves or edits, or holds the lock, the others wait.
LEMMA OthersWait ==
  ASSUME Orderly, StepsReached, WritersAlone, NEW h \in Handlers, Others(h),
         Open(h), Writes(call[h].kind) \/ at[h] \in InLock,
         NEW g \in Handlers, g # h
  PROVE  Saving(g)' /\ Deciding(g)'
<1>1. at'[g] = at[g] /\ call'[g] = call[g]
  BY DEF Others, Alone
<1>2. Open(g) => ~Writes(call[g].kind) /\ at[g] \notin InLock
  <2>1. ASSUME Open(g), at[g] \in InLock
        PROVE  FALSE
    <3>1. lock = g /\ call[g].kind = "approve"
      BY <2>1 DEF Orderly, StepsReached, Reached
    <3>2. at[h] \notin InLock
      BY <3>1 DEF Orderly
    <3>3. Writes(call[h].kind)
      BY <3>2
    <3> QED
      BY <2>1, <3>3 DEF WritersAlone
  <2> QED
    BY <2>1 DEF WritersAlone
<1>3. at[g] \in {"listed", "indexed", "stored"} => Open(g) /\ Writes(call[g].kind)
  BY DEF Orderly, Open, Writes
<1>4. at[g] \notin {"listed", "indexed", "stored"} \cup InLock
  BY <1>2, <1>3 DEF Open, InLock
<1>5. Saving(g)'
  <2>1. Open(g)' => ~Writes(call'[g].kind)
    BY <1>1, <1>2 DEF Open
  <2>2. at'[g] = "opened" => call'[g].kind # "save"
    BY <2>1 DEF Open, Writes
  <2> QED
    BY <1>1, <1>4, <2>1, <2>2 DEF Saving
<1>6. Deciding(g)'
  BY <1>1, <1>4 DEF Deciding, InLock
<1> QED
  BY <1>5, <1>6

\* A step that leaves the files alone and answers nothing but a refusal.
LEMMA QuietTurn ==
  ASSUME InTurn, NEW h \in Handlers, Others(h), UNCHANGED diskVars,
         result[h] # "ok", result'[h] # "ok",
         WritersAlone', Saving(h)', Deciding(h)'
  PROVE  InTurn'
<1>1. \A g \in Handlers : result'[g] = "ok" => /\ g # h /\ result[g] = "ok"
                                              /\ call'[g] = call[g]
  BY DEF Others, Alone
<1>2. meta' = meta /\ index' = index /\ models' = models
  BY DEF diskVars
<1>3. \A g \in Handlers : Saved(g)' => Saved(g) /\ g # h /\ SavedRev(g)' = SavedRev(g) /\ call'[g] = call[g]
  BY <1>1 DEF Saved, SavedRev
<1>4. OnDisk'
  <2>1. Numbered(index)'
    BY <1>2 DEF InTurn, OnDisk, Numbered
  <2>2. \A g \in Handlers : Stored(g)'
    BY <1>2, <1>3 DEF InTurn, OnDisk, Stored
  <2>3. \A g \in Handlers : Granted(g)'
    BY <1>1, <1>2 DEF InTurn, OnDisk, Granted
  <2>4. OvertakenNotCurrent'
    BY <1>2, <1>3 DEF InTurn, OnDisk, OvertakenNotCurrent
  <2>5. ApprovalStored'
    BY <1>2 DEF InTurn, OnDisk, ApprovalStored
  <2>6. OneGrant'
    BY <1>1 DEF InTurn, OnDisk, OneGrant
  <2> QED
    BY <2>1, <2>2, <2>3, <2>4, <2>5, <2>6 DEF OnDisk
<1>5. \A g \in Handlers \ {h} : Saving(g)' /\ Deciding(g)'
  <2> TAKE g \in Handlers \ {h}
  <2>1. /\ at'[g] = at[g] /\ call'[g] = call[g] /\ seenIndex'[g] = seenIndex[g]
        /\ seenMeta'[g] = seenMeta[g] /\ Saving(g) /\ Deciding(g)
    BY DEF Others, Alone, InTurn
  <2>2. Beyond(g) => Beyond(g)'
    BY <1>2, <1>3, <2>1 DEF Beyond
  <2>3. Saving(g)'
    BY <1>2, <2>1, <2>2 DEF Saving, Open, Entry
  <2>4. Deciding(g)'
    BY <1>2, <2>1 DEF Deciding, SameRows, Recorded
  <2> QED
    BY <2>3, <2>4
<1> QED
  BY <1>4, <1>5 DEF InTurn

\* A request that is refused or fails.
LEMMA RefusedTurn ==
  ASSUME TypeOK, Orderly, InTurn, NEW h \in Handlers, NEW r \in {"refused", "failed"},
         Answer(h, r), UNCHANGED <<diskVars, call>>, at[h] # "done"
  PROVE  InTurn'
<1>1. at'[h] = "done" /\ result'[h] = r /\ Others(h)
  BY AnswerMoves
<1>2. WritersAlone'
  BY <1>1, AloneStill DEF InTurn, Others, Open
<1>3. Saving(h)' /\ Deciding(h)'
  BY <1>1 DEF Saving, Deciding, Open, InLock
<1>4. result[h] # "ok"
  BY StoreAssumption DEF Orderly
<1> QED
  BY <1>1, <1>2, <1>3, <1>4, QuietTurn

\* The last revision of a numbered index is its length.
LEMMA LatestNumbered ==
  ASSUME index \in Indexes, Numbered(index)
  PROVE  Latest(index) = Len(index) /\ Len(index) \in Nat
<1>1. Len(index) \in Nat
  BY DEF Indexes
<1>2. CASE index = <<>>
  BY <1>2 DEF Latest
<1>3. CASE index # <<>>
  <2>1. Len(index) \in 1..Len(index)
    BY <1>3 DEF Indexes
  <2> QED
    BY <1>1, <1>3, <2>1 DEF Latest, Numbered
<1> QED
  BY <1>1, <1>2, <1>3

LEMMA ReceiveTurn ==
  ASSUME IInv, Orderly, InTurn, turns, NEW h \in Handlers,
         NEW c \in Saves \cup Edits \cup Transitions, Receive(h, c)
  PROVE  InTurn'
<1>0. TypeOK /\ index \in Indexes
  BY DEF IInv, TypeOK
<1>1. /\ at[h] = "idle" /\ UNCHANGED diskVars
      /\ \A g \in Handlers : Open(g) => ~Writes(c.kind) /\ ~Writes(call[g].kind)
      /\ c.kind = "save" => Latest(index) + Cardinality({g \in Handlers : Open(g) /\ call[g].kind = "save"}) < MaxRev
  BY DEF Receive
<1>2. CASE Answer(h, "refused") /\ call' = call
  BY <1>0, <1>1, <1>2, RefusedTurn
<1>3. CASE /\ Step(h, "opened") /\ call' = [call EXCEPT ![h] = c]
           /\ seenMeta' = [seenMeta EXCEPT ![h] = meta] /\ seenIndex' = seenIndex
  <2>1. /\ at'[h] = "opened" /\ result' = result /\ call'[h] = c /\ seenMeta'[h] = meta
        /\ Others(h)
    BY <1>0, <1>3, StepMoves DEF Others, Alone, TypeOK
  <2>2. WritersAlone'
    <3> SUFFICES ASSUME NEW f \in Handlers, NEW g \in Handlers, f # g, Open(f)', Open(g)'
                 PROVE  ~Writes(call'[f].kind)
      BY DEF WritersAlone
    <3>1. CASE f = h
      <4>1. Open(g)
        BY <2>1, <3>1 DEF Others, Alone, Open
      <4> QED
        BY <1>1, <2>1, <3>1, <4>1
    <3>2. CASE f # h
      <4>1. Open(f) /\ call'[f] = call[f]
        BY <2>1, <3>2 DEF Others, Alone, Open
      <4> QED
        BY <1>1, <4>1
    <3> QED
      BY <3>1, <3>2
  <2>3. Saving(h)'
    <3>1. c.kind = "save" => Len(index) < MaxRev
      <4> SUFFICES ASSUME c.kind = "save" PROVE Len(index) < MaxRev
        OBVIOUS
      <4>1. \A g \in Handlers : ~Open(g)
        BY <1>1 DEF Writes
      <4>2. {g \in Handlers : Open(g) /\ call[g].kind = "save"} = {}
        BY <4>1
      <4>3. Cardinality({g \in Handlers : Open(g) /\ call[g].kind = "save"}) = 0
        BY <4>2, FS_EmptySet
      <4>4. Latest(index) = Len(index) /\ Len(index) \in Nat
        BY <1>0, LatestNumbered DEF InTurn, OnDisk
      <4> QED
        BY <1>1, <4>3, <4>4
    <3> QED
      BY <1>1, <2>1, <3>1 DEF Saving, diskVars
  <2>4. Deciding(h)'
    BY <2>1 DEF Deciding, InLock
  <2>5. result[h] # "ok" /\ result'[h] # "ok"
    BY <1>1, <2>1, StoreAssumption DEF Orderly
  <2> QED
    BY <1>1, <2>1, <2>2, <2>3, <2>4, <2>5, QuietTurn
<1> QED
  BY <1>2, <1>3 DEF Receive

LEMMA ReadIndexTurn ==
  ASSUME IInv, Orderly, InTurn, NEW h \in Handlers, ReadIndex(h)
  PROVE  InTurn'
<1>0. TypeOK /\ index \in Indexes /\ call[h] \in Calls /\ meta.approval.rev \in Nat
  BY MetaFields, FieldTypes DEF IInv, TypeOK
<1>1. /\ at[h] = "opened" /\ call[h].kind = "save" /\ UNCHANGED diskVars /\ seenMeta' = seenMeta
      /\ seenIndex' = [seenIndex EXCEPT ![h] = index]
      /\ call' = [call EXCEPT ![h].rev = Latest(index) + 1] /\ Step(h, "listed")
  BY DEF ReadIndex
<1>2. Latest(index) = Len(index) /\ Len(index) \in Nat
  BY <1>0, LatestNumbered DEF InTurn, OnDisk
<1>3. /\ at'[h] = "listed" /\ result' = result /\ seenIndex'[h] = index
      /\ call'[h] = [call[h] EXCEPT !.rev = Latest(index) + 1]
      /\ Others(h)
  BY <1>0, <1>1, StepMoves DEF Others, Alone, TypeOK
<1>4. call'[h].kind = "save" /\ call'[h].rev = Len(index) + 1
  BY <1>0, <1>1, <1>2, <1>3 DEF Calls
<1>5. result[h] # "ok" /\ result'[h] # "ok"
  BY <1>1, <1>3, StoreAssumption DEF Orderly
<1>6. WritersAlone'
  BY <1>1, <1>3, <1>4, AloneStill DEF InTurn, Others, Open
<1>7. Beyond(h)'
  <2>1. Len(index) < MaxRev /\ MaxRev \in Nat
    BY <1>1, StoreAssumption DEF InTurn, Saving
  <2>2. meta'.approval.rev < call'[h].rev
    BY <1>0, <1>1, <1>2, <1>4 DEF InTurn, OnDisk, ApprovalStored, diskVars
  <2>3. \A g \in Handlers : Saved(g)' => SavedRev(g)' < call'[h].rev
    <3> SUFFICES ASSUME NEW g \in Handlers, Saved(g)' PROVE SavedRev(g)' < call'[h].rev
      OBVIOUS
    <3>1. g # h /\ call'[g] = call[g] /\ result'[g] = result[g]
      BY <1>3, <1>5 DEF Saved, Others, Alone
    <3>2. Saved(g) /\ SavedRev(g)' = SavedRev(g)
      BY <3>1 DEF Saved, SavedRev
    <3>3. SavedRev(g) \in 1..MaxRev /\ SavedRev(g) <= Len(index)
      BY <3>2 DEF InTurn, OnDisk, Stored
    <3> QED
      BY <1>2, <1>4, <3>2, <3>3
  <2> QED
    BY <1>2, <1>3, <1>4, <2>1, <2>2, <2>3 DEF Beyond
<1>8. Saving(h)'
  <2>1. seenMeta[h] = meta
    BY <1>1 DEF InTurn, Saving, Open, Writes
  <2> QED
    BY <1>1, <1>3, <1>7, <2>1 DEF Saving, diskVars
<1>9. Deciding(h)'
  BY <1>3 DEF Deciding, InLock
<1> QED
  BY <1>1, <1>3, <1>5, <1>6, <1>8, <1>9, QuietTurn

\* What is saved stays saved when the index gets an entry.
LEMMA WriteIndexTurn ==
  ASSUME IInv, Orderly, InTurn, NEW h \in Handlers, WriteIndex(h)
  PROVE  InTurn'
<1>0. TypeOK /\ StepsReached /\ index \in Seq(Entries) /\ meta.approval.rev \in Nat
  BY MetaFields, FieldTypes DEF IInv, TypeOK, Indexes
<1>1. /\ at[h] = "listed" /\ Step(h, "indexed") /\ seenIndex[h] = index
      /\ index' = Append(seenIndex[h], Entry(h)) /\ Beyond(h)
      /\ UNCHANGED <<meta, models, lock, call, seenMeta, seenIndex, faults>>
  BY DEF WriteIndex, Entry, InTurn, Saving
<1>2. at'[h] = "indexed" /\ result' = result /\ Others(h)
  BY <1>0, <1>1, StepMoves DEF Others, Alone
<1>3. Open(h) /\ Writes(call[h].kind)
  BY <1>1 DEF Orderly, Open, Writes
<1>4. /\ Len(index) \in Nat /\ Len(index') = Len(index) + 1
      /\ \A i \in 1..Len(index) : index'[i] = index[i]
      /\ index'[Len(index) + 1] = Entry(h)
  BY <1>0, <1>1
<1>5. \A g \in Handlers : Saved(g)' = Saved(g) /\ SavedRev(g)' = SavedRev(g)
  BY <1>1, <1>2 DEF Saved, SavedRev
<1>6. OnDisk'
  <2>1. Numbered(index)'
    <3>1. Entry(h).rev = Len(index) + 1
      BY <1>1 DEF Beyond, Entry
    <3>2. \A i \in 1..Len(index) : index[i].rev = i
      BY DEF InTurn, OnDisk, Numbered
    <3> QED
      BY <1>4, <3>1, <3>2 DEF Numbered
  <2>2. \A g \in Handlers : Stored(g)'
    <3> SUFFICES ASSUME NEW g \in Handlers, Saved(g)' PROVE Stored(g)'
      BY DEF Stored
    <3>1. /\ SavedRev(g) \in 1..MaxRev /\ SavedRev(g) <= Len(index)
          /\ index[SavedRev(g)].by = g /\ models[SavedRev(g)] = call[g].content
      BY <1>5 DEF InTurn, OnDisk, Stored
    <3>2. SavedRev(g) \in 1..Len(index)
      BY <1>4, <3>1
    <3>3. index'[SavedRev(g)] = index[SavedRev(g)] /\ SavedRev(g) <= Len(index')
      BY <1>4, <3>2
    <3> QED
      BY <1>1, <1>5, <3>1, <3>3 DEF Stored
  <2>3. \A g \in Handlers : Granted(g)'
    BY <1>1, <1>2 DEF InTurn, OnDisk, Granted
  <2>4. OvertakenNotCurrent'
    BY <1>1, <1>5 DEF InTurn, OnDisk, OvertakenNotCurrent
  <2>5. ApprovalStored'
    BY <1>0, <1>1, <1>4 DEF InTurn, OnDisk, ApprovalStored
  <2>6. OneGrant'
    BY <1>1, <1>2 DEF InTurn, OnDisk, OneGrant
  <2> QED
    BY <2>1, <2>2, <2>3, <2>4, <2>5, <2>6 DEF OnDisk
<1>7. WritersAlone'
  BY <1>1, <1>2, <1>3, AloneStill DEF InTurn, Others, Open
<1>8. Saving(h)'
  <2>1. Beyond(h)'
    BY <1>1, <1>5 DEF Beyond
  <2>2. seenMeta'[h] = meta'
    BY <1>1, <1>3 DEF InTurn, Saving
  <2>3. index' = Append(seenIndex'[h], Entry(h)')
    BY <1>1 DEF Entry
  <2> QED
    BY <1>2, <2>1, <2>2, <2>3 DEF Saving
<1>9. Deciding(h)'
  BY <1>2 DEF Deciding, InLock
<1>10. \A g \in Handlers \ {h} : Saving(g)' /\ Deciding(g)'
  BY <1>0, <1>2, <1>3, OthersWait DEF InTurn
<1> QED
  BY <1>6, <1>7, <1>8, <1>9, <1>10 DEF InTurn

\* The model of the new revision replaces none that counts.
LEMMA WriteModelTurn ==
  ASSUME IInv, Orderly, InTurn, NEW h \in Handlers, WriteModel(h)
  PROVE  InTurn'
<1>0. TypeOK /\ StepsReached /\ meta.approval.rev \in Nat /\ seenIndex[h] \in Seq(Entries)
  BY MetaFields, FieldTypes DEF IInv, TypeOK, Indexes
<1>1. /\ at[h] = "indexed" /\ Step(h, "stored") /\ Beyond(h)
      /\ models' = [models EXCEPT ![call[h].rev] = call[h].content]
      /\ UNCHANGED <<meta, index, lock, call, seenMeta, seenIndex, faults>>
  BY DEF WriteModel, InTurn, Saving
<1>2. at'[h] = "stored" /\ result' = result /\ Others(h)
  BY <1>0, <1>1, StepMoves DEF Others, Alone
<1>3. Open(h) /\ Writes(call[h].kind)
  BY <1>1 DEF Orderly, Open, Writes
<1>4. call[h].rev \in 1..MaxRev
  BY <1>0, <1>1, StoreAssumption DEF Beyond
<1>5. /\ models'[call[h].rev] = call[h].content
      /\ \A r \in 1..MaxRev : r < call[h].rev => models'[r] = models[r]
  BY <1>0, <1>1, <1>4 DEF TypeOK
<1>6. \A g \in Handlers : /\ Saved(g)' = Saved(g) /\ SavedRev(g)' = SavedRev(g)
                          /\ Saved(g) => SavedRev(g) < call[h].rev
  BY <1>1, <1>2 DEF Saved, SavedRev, Beyond
<1>7. OnDisk'
  <2>1. Numbered(index)'
    BY <1>1 DEF InTurn, OnDisk, Numbered
  <2>2. \A g \in Handlers : Stored(g)'
    BY <1>1, <1>5, <1>6 DEF InTurn, OnDisk, Stored
  <2>3. \A g \in Handlers : Granted(g)'
    BY <1>1, <1>2 DEF InTurn, OnDisk, Granted
  <2>4. OvertakenNotCurrent'
    BY <1>1, <1>6 DEF InTurn, OnDisk, OvertakenNotCurrent
  <2>5. ApprovalStored'
    BY <1>0, <1>1, <1>5 DEF InTurn, OnDisk, ApprovalStored, Beyond
  <2>6. OneGrant'
    BY <1>1, <1>2 DEF InTurn, OnDisk, OneGrant
  <2> QED
    BY <2>1, <2>2, <2>3, <2>4, <2>5, <2>6 DEF OnDisk
<1>8. WritersAlone'
  BY <1>1, <1>2, <1>3, AloneStill DEF InTurn, Others, Open
<1>9. Saving(h)'
  <2>1. Beyond(h)'
    BY <1>1, <1>6 DEF Beyond
  <2>2. seenMeta'[h] = meta'
    BY <1>1, <1>3 DEF InTurn, Saving
  <2>3. index' = Append(seenIndex'[h], Entry(h)')
    BY <1>1 DEF Entry, InTurn, Saving
  <2> QED
    BY <1>1, <1>2, <1>5, <2>1, <2>2, <2>3 DEF Saving
<1>10. Deciding(h)'
  BY <1>2 DEF Deciding, InLock
<1>11. \A g \in Handlers \ {h} : Saving(g)' /\ Deciding(g)'
  BY <1>0, <1>2, <1>3, OthersWait DEF InTurn
<1> QED
  BY <1>7, <1>8, <1>9, <1>10, <1>11 DEF InTurn

\* A request that saved or edited is answered: what it wrote tells so.
LEMMA WrittenTurn ==
  ASSUME TypeOK, StepsReached, Orderly, InTurn, NEW h \in Handlers, Answer(h, "ok"),
         Open(h), Writes(call[h].kind) \/ at[h] \in InLock,
         UNCHANGED <<index, models, call>>,
         \A g \in Handlers \ {h} : Granted(g) => Granted(g)',
         \A g \in Handlers \ {h} :
           /\ call[h].kind = "approve" /\ call[g].kind = "approve" /\ result[g] = "ok"
           /\ call[g].expected # None
           => call[g].expected # call[h].expected,
         Granted(h)', Stored(h)', OvertakenNotCurrent', ApprovalStored'
  PROVE  InTurn'
<1>1. at'[h] = "done" /\ Others(h)
  BY AnswerMoves
<1>2. WritersAlone'
  BY <1>1, AloneStill DEF InTurn, Others, Open
<1>3. Saving(h)' /\ Deciding(h)'
  BY <1>1 DEF Saving, Deciding, Open, InLock
<1>4. \A g \in Handlers \ {h} : Saving(g)' /\ Deciding(g)'
  BY <1>1, OthersWait DEF InTurn
<1>5. \A g \in Handlers \ {h} : Stored(g)'
  BY <1>1 DEF InTurn, OnDisk, Stored, Saved, SavedRev, Others
<1>6. \A g \in Handlers : Granted(g)'
  BY DEF InTurn, OnDisk
<1>7. Numbered(index)'
  BY DEF InTurn, OnDisk, Numbered
<1>8. OneGrant'
  <2>1. \A f, g \in Handlers \ {h} :
          /\ f # g /\ call[f].kind = "approve" /\ call[g].kind = "approve"
          /\ call[f].expected = call[g].expected /\ call[f].expected # None
          => ~(result'[f] = "ok" /\ result'[g] = "ok")
    BY <1>1 DEF InTurn, OnDisk, OneGrant, Others
  <2>2. \A g \in Handlers \ {h} :
          /\ call[h].kind = "approve" /\ call[g].kind = "approve"
          /\ call[g].expected = call[h].expected /\ call[g].expected # None
          => result'[g] # "ok"
    BY <1>1 DEF Others
  <2> QED
    BY <2>1, <2>2 DEF OneGrant
<1> QED
  BY <1>2, <1>3, <1>4, <1>5, <1>6, <1>7, <1>8 DEF InTurn, OnDisk

\* A superseded approval is of the same revision and content.
LEMMA SupersededKeeps ==
  ASSUME NEW a \in Approvals
  PROVE  /\ Superseded(a).rev = a.rev /\ Superseded(a).hash = a.hash
         /\ Superseded(a).version \in Nat /\ Superseded(a).version >= a.version
         /\ Superseded(a).state # "none" => a.state # "none"
<1>1. a.version \in Nat
  BY DEF Approvals
<1>2. CASE a.state \in {"approved", "released"}
  <2>1. /\ Superseded(a).rev = a.rev /\ Superseded(a).hash = a.hash
        /\ Superseded(a).version = a.version + 1
    BY <1>2 DEF Superseded, Advance
  <2> QED
    BY <1>1, <1>2, <2>1
<1>3. CASE a.state \notin {"approved", "released"}
  BY <1>1, <1>3 DEF Superseded
<1> QED
  BY <1>2, <1>3

LEMMA WriteSavedMetaTurn ==
  ASSUME IInv, Orderly, InTurn, NEW h \in Handlers, WriteSavedMeta(h)
  PROVE  InTurn'
<1> DEFINE a == meta.approval
<1>0. /\ TypeOK /\ StepsReached /\ meta \in Metas /\ a \in Approvals /\ a.rev \in Nat /\ a.version \in Nat
      /\ seenIndex[h] \in Seq(Entries)
  BY MetaFields, FieldTypes DEF IInv, TypeOK, Indexes
<1>1. /\ at[h] = "stored" /\ Answer(h, "ok") /\ UNCHANGED <<index, models, call>>
      /\ Beyond(h) /\ index = Append(seenIndex[h], Entry(h))
      /\ models[call[h].rev] = call[h].content
  BY DEF WriteSavedMeta, InTurn, Saving
<1>2. call[h].kind = "save" /\ Open(h) /\ Writes(call[h].kind)
  BY <1>1 DEF Orderly, Open, Writes
<1>3. seenMeta[h] = meta
  BY <1>2 DEF InTurn, Saving
<1>4. at'[h] = "done" /\ result'[h] = "ok" /\ Others(h)
  BY <1>0, <1>1, AnswerMoves
<1>5. a.rev # call[h].rev /\ call[h].rev \in Nat
  BY <1>0, <1>1 DEF Beyond
<1>6. meta'.approval = Superseded(a) /\ meta'.edits = meta.edits
  BY <1>0, <1>3, <1>5 DEF WriteSavedMeta, Metas
<1>7. /\ Superseded(a).rev = a.rev /\ Superseded(a).hash = a.hash
      /\ Superseded(a).version \in Nat /\ Superseded(a).version >= a.version
      /\ Superseded(a).state # "none" => a.state # "none"
      /\ ~Superseded(a).current
  <2>1. Live(a)
    BY DEF Orderly
  <2> QED
    BY <1>0, <2>1, SupersededKeeps, SupersededLive
<1>8. \A g \in Handlers \ {h} : Granted(g) => Granted(g)'
  <2> SUFFICES ASSUME NEW g \in Handlers \ {h}, Granted(g) PROVE Granted(g)'
    OBVIOUS
  <2>1. call'[g] = call[g] /\ result'[g] = result[g] /\ call[g] \in Calls
    BY <1>0, <1>1, <1>4 DEF Others, TypeOK
  <2>2. call[g].expected # None => call[g].expected \in Nat
    BY <2>1 DEF Calls
  <2> QED
    BY <1>0, <1>6, <1>7, <2>1, <2>2 DEF Granted
<1>9. Granted(h)'
  BY <1>1, <1>2 DEF Granted
<1>10. Stored(h)'
  <2>1. /\ Len(index) = call[h].rev /\ index[call[h].rev] = Entry(h)
        /\ call[h].rev \in 1..MaxRev
    BY <1>0, <1>1, <1>5, StoreAssumption DEF Beyond
  <2> QED
    BY <1>1, <1>5, <2>1 DEF Stored, SavedRev, Entry
<1>11. OvertakenNotCurrent'
  BY <1>6, <1>7 DEF OvertakenNotCurrent
<1>12. ApprovalStored'
  BY <1>1, <1>6, <1>7 DEF InTurn, OnDisk, ApprovalStored
<1> QED
  BY <1>0, <1>1, <1>2, <1>8, <1>9, <1>10, <1>11, <1>12, WrittenTurn

LEMMA WriteEditedMetaTurn ==
  ASSUME IInv, Orderly, InTurn, NEW h \in Handlers, WriteEditedMeta(h)
  PROVE  InTurn'
<1>0. TypeOK /\ StepsReached /\ meta \in Metas
  BY DEF IInv, TypeOK
<1>1. /\ at[h] = "opened" /\ Answer(h, "ok") /\ UNCHANGED <<index, models, call>>
      /\ call[h].kind \in {"edit", "delete"} /\ Open(h) /\ Writes(call[h].kind)
  BY DEF WriteEditedMeta, Open, Writes
<1>2. seenMeta[h] = meta
  BY <1>1 DEF InTurn, Saving
<1>3. at'[h] = "done" /\ result'[h] = "ok" /\ Others(h)
  BY <1>0, <1>1, AnswerMoves
<1>4. /\ meta'.approval = meta.approval /\ meta.edits \subseteq meta'.edits
      /\ call[h].kind = "edit" => h \in meta'.edits
  BY <1>0, <1>2 DEF WriteEditedMeta, Metas
<1>5. \A g \in Handlers \ {h} : Granted(g) => Granted(g)'
  BY <1>1, <1>3, <1>4 DEF Granted, Others
<1>6. Granted(h)'
  BY <1>1, <1>4 DEF Granted
<1>7. Stored(h)'
  BY <1>1 DEF Stored, Saved
<1>8. OvertakenNotCurrent'
  <2>1. \A g \in Handlers : Saved(g)' => Saved(g) /\ SavedRev(g)' = SavedRev(g)
    BY <1>1, <1>3 DEF Saved, SavedRev, Others
  <2> QED
    BY <1>4, <2>1 DEF InTurn, OnDisk, OvertakenNotCurrent
<1>9. ApprovalStored'
  BY <1>1, <1>4 DEF InTurn, OnDisk, ApprovalStored
<1> QED
  BY <1>0, <1>1, <1>5, <1>6, <1>7, <1>8, <1>9, WrittenTurn

\* A transition that goes on under the lock.
LEMMA LockedTurn ==
  ASSUME TypeOK, Orderly, InTurn, NEW h \in Handlers, NEW s \in InLock, Step(h, s), UNCHANGED <<diskVars, call>>,
         Open(h), call[h].kind = "approve",
         \A g \in Handlers \ {h} : seenMeta'[g] = seenMeta[g] /\ seenIndex'[g] = seenIndex[g],
         s # "locked" => call[h].rev = Len(index) /\ SameRows(seenIndex'[h]),
         s \in {"backfill", "verified"} => Recorded(h)' = models[call[h].rev]
  PROVE  InTurn'
<1>1. at'[h] = s /\ result' = result /\ Others(h)
  BY StepMoves DEF Others, Alone
<1>2. WritersAlone'
  BY <1>1, AloneStill DEF InTurn, Others
<1>3. result[h] # "ok" /\ result'[h] # "ok"
  BY <1>1, StoreAssumption DEF Orderly, Open
<1>4. Saving(h)'
  BY <1>1 DEF Saving, Open, Writes, InLock
<1>5. Deciding(h)'
  <2>1. s # "locked" => call'[h].rev = Len(index') /\ SameRows(seenIndex[h])'
    BY DEF diskVars, SameRows
  <2> QED
    BY <1>1, <2>1 DEF Deciding, InLock, diskVars
<1> QED
  BY <1>1, <1>2, <1>3, <1>4, <1>5, QuietTurn

LEMMA LockTurn ==
  ASSUME IInv, Orderly, InTurn, NEW h \in Handlers, Lock(h)
  PROVE  InTurn'
<1>0. TypeOK /\ at[h] = "opened" /\ call[h].kind = "approve" /\ Open(h)
  BY DEF IInv, Lock, Open
<1>1. CASE Answer(h, "refused")
  BY <1>0, <1>1, RefusedTurn DEF Lock
<1>2. CASE Step(h, "locked") /\ seenMeta' = [seenMeta EXCEPT ![h] = meta] /\ seenIndex' = seenIndex
  <2>1. "locked" \in InLock /\ \A g \in Handlers \ {h} : seenMeta'[g] = seenMeta[g]
    BY <1>0, <1>2 DEF InLock, TypeOK
  <2> QED
    BY <1>0, <1>2, <2>1, LockedTurn DEF Lock
<1> QED
  BY <1>1, <1>2 DEF Lock

LEMMA CheckLatestTurn ==
  ASSUME IInv, Orderly, InTurn, NEW h \in Handlers, CheckLatest(h)
  PROVE  InTurn'
<1>0. /\ TypeOK /\ index \in Indexes /\ at[h] = "locked" /\ Open(h)
      /\ call[h].kind = "approve" /\ UNCHANGED <<diskVars, call>>
  BY DEF IInv, TypeOK, StepsReached, Reached, InLock, CheckLatest, Open
<1>1. CASE Refuse(h)
  BY <1>0, <1>1, RefusedTurn DEF Refuse
<1>2. CASE /\ Latest(index) = call[h].rev /\ Step(h, "checked")
           /\ seenIndex' = [seenIndex EXCEPT ![h] = index] /\ UNCHANGED <<lock, seenMeta>>
  <2>1. call[h].rev = Len(index)
    BY <1>0, <1>2, LatestNumbered DEF InTurn, OnDisk
  <2>2. seenIndex'[h] = index /\ \A g \in Handlers \ {h} : seenIndex'[g] = seenIndex[g]
    BY <1>0, <1>2 DEF TypeOK
  <2>3. SameRows(seenIndex'[h])
    BY <2>2 DEF SameRows, InTurn, OnDisk, Numbered
  <2>4. "checked" \in InLock
    BY DEF InLock
  <2> QED
    BY <1>0, <1>2, <2>1, <2>2, <2>3, <2>4, LockedTurn
<1> QED
  BY <1>1, <1>2 DEF CheckLatest

LEMMA CheckModelTurn ==
  ASSUME IInv, Orderly, InTurn, NEW h \in Handlers, CheckModel(h)
  PROVE  InTurn'
<1> DEFINE ix == seenIndex[h]
           m == models[call[h].rev]
<1>0. /\ TypeOK /\ at[h] = "checked" /\ Open(h) /\ call[h] \in Transitions
      /\ call[h].kind = "approve" /\ UNCHANGED <<diskVars, call>>
      /\ ix \in Seq(Entries) /\ ix # <<>>
  BY DEF IInv, TypeOK, StepsReached, Reached, InLock, CheckModel, Open, Indexes
<1>1. call[h].rev = Len(index) /\ SameRows(ix)
  BY <1>0 DEF InTurn, Deciding, InLock
<1>2. CASE Refuse(h)
  BY <1>0, <1>2, RefusedTurn DEF Refuse
<1>3. CASE Recorded(h) = m /\ Step(h, "verified") /\ UNCHANGED <<lock, seenMeta, seenIndex>>
  <2>1. "verified" \in InLock /\ Recorded(h)' = m /\ SameRows(seenIndex'[h])
    BY <1>1, <1>3 DEF InLock, Recorded
  <2> QED
    BY <1>0, <1>1, <1>3, <2>1, LockedTurn
<1>4. CASE /\ seenIndex' = [seenIndex EXCEPT ![h] = [@ EXCEPT ![Len(@)].hash = m]]
           /\ Step(h, "backfill") /\ UNCHANGED <<lock, seenMeta>>
  <2> DEFINE last == [ix[Len(ix)] EXCEPT !.hash = m]
             filled == [ix EXCEPT ![Len(ix)] = last]
  <2>1. Len(ix) \in 1..Len(ix) /\ ix[Len(ix)] \in Entries
    BY <1>0
  <2>2. last.hash = m /\ last.rev = ix[Len(ix)].rev /\ last.by = ix[Len(ix)].by
    BY <2>1 DEF Entries
  <2>3. seenIndex'[h] = filled /\ \A g \in Handlers \ {h} : seenIndex'[g] = seenIndex[g]
    BY <1>0, <1>4 DEF TypeOK
  <2> HIDE DEF last
  <2>4. /\ Len(filled) = Len(ix) /\ filled[Len(ix)] = last
        /\ \A i \in 1..Len(ix) : i # Len(ix) => filled[i] = ix[i]
    BY <1>0, <2>1
  <2> HIDE DEF filled, ix
  <2>5. SameRows(filled)
    BY <1>1, <2>2, <2>4 DEF SameRows
  <2>6. "backfill" \in InLock /\ Recorded(h)' = m /\ SameRows(seenIndex'[h])
    BY <2>2, <2>3, <2>4, <2>5 DEF InLock, Recorded
  <2> QED
    BY <1>0, <1>1, <1>4, <2>3, <2>6, LockedTurn
<1> QED
  BY <1>2, <1>3, <1>4 DEF CheckModel

\* The hashes are written back; the rows stay.
LEMMA BackfillTurn ==
  ASSUME IInv, Orderly, InTurn, NEW h \in Handlers, Backfill(h)
  PROVE  InTurn'
<1>0. /\ TypeOK /\ StepsReached /\ at[h] = "backfill" /\ Open(h) /\ at[h] \in InLock
      /\ call[h].kind = "approve" /\ Step(h, "verified")
      /\ index' = seenIndex[h] /\ UNCHANGED <<meta, models, lock, call, seenMeta, seenIndex, faults>>
  BY DEF IInv, TypeOK, StepsReached, Reached, InLock, Backfill, Open
<1>1. /\ call[h].rev = Len(index) /\ SameRows(seenIndex[h])
      /\ Recorded(h) = models[call[h].rev]
  BY <1>0 DEF InTurn, Deciding, InLock
<1>2. at'[h] = "verified" /\ result' = result /\ Others(h)
  BY <1>0, StepMoves DEF Others, Alone
<1>3. /\ Len(index') = Len(index) /\ Len(index) \in Nat
      /\ \A i \in 1..Len(index) : index'[i].rev = i /\ index'[i].by = index[i].by
  BY <1>0, <1>1 DEF SameRows, TypeOK, Indexes
<1>4. \A g \in Handlers : Saved(g)' = Saved(g) /\ SavedRev(g)' = SavedRev(g)
  BY <1>0, <1>2 DEF Saved, SavedRev
<1>5. OnDisk'
  <2>1. Numbered(index)'
    BY <1>3 DEF Numbered
  <2>2. \A g \in Handlers : Stored(g)'
    <3> SUFFICES ASSUME NEW g \in Handlers, Saved(g)' PROVE Stored(g)'
      BY DEF Stored
    <3>1. /\ SavedRev(g) \in 1..MaxRev /\ SavedRev(g) <= Len(index)
          /\ index[SavedRev(g)].by = g /\ models[SavedRev(g)] = call[g].content
      BY <1>4 DEF InTurn, OnDisk, Stored
    <3>2. SavedRev(g) \in 1..Len(index)
      BY <1>3, <3>1
    <3> QED
      BY <1>0, <1>3, <1>4, <3>1, <3>2 DEF Stored
  <2>3. \A g \in Handlers : Granted(g)'
    BY <1>0, <1>2 DEF InTurn, OnDisk, Granted
  <2>4. OvertakenNotCurrent'
    BY <1>0, <1>4 DEF InTurn, OnDisk, OvertakenNotCurrent
  <2>5. ApprovalStored'
    BY <1>0, <1>3 DEF InTurn, OnDisk, ApprovalStored
  <2>6. OneGrant'
    BY <1>0, <1>2 DEF InTurn, OnDisk, OneGrant
  <2> QED
    BY <2>1, <2>2, <2>3, <2>4, <2>5, <2>6 DEF OnDisk
<1>6. WritersAlone'
  BY <1>0, <1>2, AloneStill DEF InTurn, Others
<1>7. Saving(h)'
  BY <1>0, <1>2 DEF Saving, Open, Writes
<1>8. Deciding(h)'
  <2>1. SameRows(seenIndex[h])'
    BY <1>0, <1>3 DEF SameRows
  <2>2. Recorded(h)' = models'[call'[h].rev]
    BY <1>0, <1>1 DEF Recorded
  <2> QED
    BY <1>0, <1>1, <1>3, <2>1, <2>2 DEF Deciding
<1>9. \A g \in Handlers \ {h} : Saving(g)' /\ Deciding(g)'
  BY <1>0, <1>2, OthersWait DEF InTurn
<1> QED
  BY <1>5, <1>6, <1>7, <1>8, <1>9 DEF InTurn

\* The approval that is granted is of the latest revision, as it is stored.
LEMMA DecideTurn ==
  ASSUME IInv, Orderly, InTurn, NEW h \in Handlers, Decide(h)
  PROVE  InTurn'
<1> DEFINE a == meta.approval
           b == Advance(a, call[h].state, call[h].rev, Recorded(h), TRUE)
<1>0. /\ TypeOK /\ StepsReached /\ meta \in Metas /\ a.version \in Nat
      /\ at[h] = "verified" /\ Open(h) /\ at[h] \in InLock
      /\ call[h] \in Transitions /\ call[h].kind = "approve"
      /\ UNCHANGED <<index, models, call>>
  BY MetaFields, FieldTypes DEF IInv, TypeOK, StepsReached, Reached, InLock, Decide, Open
<1>1. /\ call[h].rev = Len(index) /\ Recorded(h) = models[call[h].rev]
      /\ seenMeta[h] = meta /\ call[h].rev \in 1..MaxRev
  BY <1>0 DEF InTurn, Deciding, InLock, Orderly, Transitions
<1>2. CASE Answer(h, "refused") /\ meta' = meta
  BY <1>0, <1>2, RefusedTurn DEF diskVars
<1>3. CASE /\ VersionMatches(h) /\ meta' = [seenMeta[h] EXCEPT !.approval = b]
           /\ Answer(h, "ok")
  <2>1. meta'.approval = b /\ meta'.edits = meta.edits
    BY <1>0, <1>1, <1>3 DEF Metas
  <2>2. b.rev = call[h].rev /\ b.hash = Recorded(h) /\ b.version = a.version + 1
    BY DEF Advance
  <2>3. result'[h] = "ok" /\ Others(h)
    BY <1>0, <1>3, AnswerMoves
  <2>4. call[h].expected \in {None, a.version}
    BY <1>1, <1>3 DEF VersionMatches
  <2> HIDE DEF a, b
  <2>5. \A g \in Handlers \ {h} : Granted(g) => Granted(g)'
    <3> SUFFICES ASSUME NEW g \in Handlers \ {h}, Granted(g) PROVE Granted(g)'
      OBVIOUS
    <3>1. call'[g] = call[g] /\ result'[g] = result[g] /\ call[g] \in Calls
      BY <1>0, <2>3 DEF Others, TypeOK
    <3>2. call[g].expected # None => call[g].expected \in Nat
      BY <3>1 DEF Calls
    <3>3. \A n \in Nat : n < a.version => n < meta'.approval.version
      BY <1>0, <2>1, <2>2
    <3>4. meta.approval.version = a.version
      BY DEF a
    <3> QED
      BY <2>1, <3>1, <3>2, <3>3, <3>4 DEF Granted
  <2>6. Granted(h)'
    BY <1>0, <2>1, <2>2, <2>4 DEF Granted
  <2>7. Stored(h)'
    BY <1>0 DEF Stored, Saved
  <2>8. OvertakenNotCurrent'
    <3>1. \A g \in Handlers : Saved(g)' => Saved(g) /\ SavedRev(g)' = SavedRev(g)
      BY <1>0, <2>3 DEF Saved, SavedRev, Others
    <3>2. \A g \in Handlers : Saved(g) => SavedRev(g) \in 1..MaxRev /\ SavedRev(g) <= call[h].rev
      BY <1>1 DEF InTurn, OnDisk, Stored
    <3>3. ASSUME NEW g \in Handlers, Saved(g)', SavedRev(g)' > meta'.approval.rev
          PROVE  FALSE
      <4>1. Saved(g) /\ SavedRev(g) > call[h].rev
        BY <2>1, <2>2, <3>1, <3>3
      <4> QED
        BY <1>1, <3>2, <4>1, StoreAssumption
    <3> QED
      BY <3>3 DEF OvertakenNotCurrent
  <2>9. ApprovalStored'
    BY <1>0, <1>1, <2>1, <2>2, StoreAssumption DEF ApprovalStored
  <2>10. \A g \in Handlers \ {h} :
           /\ call[h].kind = "approve" /\ call[g].kind = "approve" /\ result[g] = "ok"
           /\ call[g].expected # None
           => call[g].expected # call[h].expected
    <3>1. \A g \in Handlers : Granted(g)
      BY DEF InTurn, OnDisk
    <3>2. meta.approval.version = a.version
      BY DEF a
    <3> QED
      BY <1>0, <2>4, <3>1, <3>2 DEF Granted
  <2> QED
    BY <1>0, <1>3, <2>5, <2>6, <2>7, <2>8, <2>9, <2>10, WrittenTurn
<1> QED
  BY <1>1, <1>2, <1>3 DEF Decide

LEMMA FaultTurn ==
  ASSUME IInv, Orderly, InTurn, NEW h \in Handlers, Fault(h)
  PROVE  InTurn'
<1>1. TypeOK /\ at[h] # "done" /\ Answer(h, "failed") /\ UNCHANGED <<diskVars, call>>
  BY DEF IInv, Fault, Open
<1> QED
  BY <1>1, RefusedTurn

LEMMA InitTurn == Init => InTurn
<1> SUFFICES ASSUME Init PROVE InTurn
  OBVIOUS
<1>1. \A h \in Handlers : /\ at[h] = "idle" /\ result[h] = None /\ call[h] = NoCall
  BY DEF Init
<1>2. \A h \in Handlers : ~Saved(h) /\ Granted(h)
  BY <1>1, StoreAssumption DEF Saved, Granted
<1>3. Numbered(index) /\ Len(index) \in Nat
  <2>1. CASE index = <<>>
    BY <2>1 DEF Numbered
  <2>2. CASE index = <<[rev |-> 1, hash |-> None, by |-> None]>>
    BY <2>2 DEF Numbered
  <2> QED
    BY <2>1, <2>2 DEF Init
<1>4. meta.approval.rev = 0 /\ meta.approval.state = "none"
  BY DEF Init, NewMeta, NoApproval
<1>5. OnDisk
  BY <1>1, <1>2, <1>3, <1>4 DEF OnDisk, Stored, OneGrant, OvertakenNotCurrent, ApprovalStored, NoCall
<1>6. WritersAlone /\ \A h \in Handlers : Saving(h) /\ Deciding(h)
  BY <1>1 DEF WritersAlone, Saving, Deciding, Open, InLock
<1> QED
  BY <1>5, <1>6 DEF InTurn

LEMMA TurnInit == Init => TurnInv
BY InitOK, OrderInit, InitTurn DEF TurnInv

LEMMA TurnNext == TurnInv /\ [Next]_vars => TurnInv'
<1> SUFFICES ASSUME TurnInv, [Next]_vars PROVE Orderly' /\ (turns' => InTurn')
  BY NextOK DEF TurnInv
<1>0. IInv /\ TypeOK /\ StepsReached /\ Orderly /\ (turns => InTurn)
  BY DEF TurnInv, IInv
<1>1. CASE UNCHANGED vars
  <2>1. Orderly'
    BY <1>0, <1>1 DEF vars, diskVars, Orderly
  <2>2. InTurn => InTurn'
    BY <1>1 DEF vars, diskVars, InTurn, WritersAlone, OnDisk, OneGrant, Numbered, Stored, Granted, Saved,
       SavedRev, OvertakenNotCurrent, ApprovalStored, Saving, Deciding, Open, Beyond, Entry,
       SameRows, Recorded
  <2>3. turns' = turns
    BY <1>1 DEF vars
  <2> QED
    BY <1>0, <2>1, <2>2, <2>3
<1>2. ASSUME NEW h \in Handlers, NEW c \in Saves \cup Edits \cup Transitions, Receive(h, c)
      PROVE  Orderly' /\ (turns' => InTurn')
  <2>1. turns' = turns
    BY <1>2 DEF Receive, Answer, Step
  <2> QED
    BY <1>0, <1>2, <2>1, OrderReceive, ReceiveTurn
<1>3. ASSUME NEW h \in Handlers, Proceed(h)
      PROVE  Orderly' /\ (turns' => InTurn')
  <2>1. turns' = turns
    BY <1>3 DEF Proceed, ReadIndex, WriteIndex, WriteModel, WriteSavedMeta, WriteEditedMeta,
       Lock, CheckLatest, CheckModel, Backfill, Decide, Refuse, Answer, Step
  <2>2. Orderly'
    BY <1>0, <1>3, OrderSaveSteps, OrderMetaWrites, OrderLock, OrderDecides DEF Proceed
  <2>3. InTurn => InTurn'
    BY <1>0, <1>3, ReadIndexTurn, WriteIndexTurn, WriteModelTurn, WriteSavedMetaTurn,
       WriteEditedMetaTurn, LockTurn, CheckLatestTurn, CheckModelTurn, BackfillTurn, DecideTurn
       DEF Proceed
  <2> QED
    BY <1>0, <2>1, <2>2, <2>3
<1>4. ASSUME NEW h \in Handlers, Fault(h)
      PROVE  Orderly' /\ (turns' => InTurn')
  <2>1. turns' = turns
    BY <1>4 DEF Fault, Answer
  <2> QED
    BY <1>0, <1>4, <2>1, OrderFault, FaultTurn
<1> QED
  BY <1>1, <1>2, <1>3, <1>4 DEF Next
-----------------------------------------------------------------------------
\* The stored files, the copies of the requests and their progress are always
\* well formed (projectStore.mjs:65-347).
THEOREM TypeCorrect == Spec => []TypeOK
<1>1. IInv => TypeOK
  BY DEF IInv
<1> QED
  BY InitOK, NextOK, <1>1, PTL DEF Spec

\* However many requests overlap, fail or are cut off by a crash, every release
\* in the approval's history directly follows the approval of the same revision
\* and content (transitionApproval, projectStore.mjs:300-347).
THEOREM ReleasesApproved == Spec => []ReleasesFollowApprovals
<1>1. IInv => ReleasesFollowApprovals
  BY DEF IInv, CopiesGood, Good, Event, ApprovalOf, ReleasesFollowApprovals
<1> QED
  BY InitOK, NextOK, <1>1, PTL DEF Spec

\* If whoever saves or edits is alone, no answered save or edit is lost and no
\* two decisions that expected one version are both granted, whatever fails in
\* between (projectStore.mjs:110-186,300-345).
THEOREM RevisionsKept == Spec => []TurnsKeepRevisions
<1>1. TurnInv => TurnsKeepRevisions
  <2> SUFFICES ASSUME TurnInv, turns PROVE SavedStays /\ NothingUndone
    BY DEF TurnsKeepRevisions
  <2>0. OnDisk /\ index \in Seq(Entries)
    BY DEF TurnInv, IInv, InTurn, TypeOK, Indexes
  <2>1. ASSUME NEW h \in Handlers, Saved(h)
        PROVE  /\ \E i \in DOMAIN index : index[i].rev = SavedRev(h) /\ index[i].by = h
               /\ models[SavedRev(h)] = call[h].content
    <3>1. /\ SavedRev(h) \in 1..MaxRev /\ SavedRev(h) <= Len(index)
          /\ index[SavedRev(h)].by = h /\ models[SavedRev(h)] = call[h].content
      BY <2>0, <2>1 DEF OnDisk, Stored
    <3>2. SavedRev(h) \in DOMAIN index /\ index[SavedRev(h)].rev = SavedRev(h)
      BY <2>0, <3>1 DEF OnDisk, Numbered
    <3> QED
      BY <3>1, <3>2
  <2>2. \A h \in Handlers : call[h].kind = "edit" /\ result[h] = "ok" => h \in meta.edits
    BY <2>0 DEF OnDisk, Granted
  <2> QED
    BY <2>0, <2>1, <2>2 DEF SavedStays, NothingUndone, OnDisk, OneGrant
<1> QED
  BY <1>1, TurnInit, TurnNext, PTL DEF Spec

\* If whoever saves or edits is alone, the approval that counts is of the latest
\* saved revision and of content that is still stored, whatever fails in between
\* (projectStore.mjs:164-186,306-319).
THEOREM ApprovalsKept == Spec => []TurnsKeepApproval
<1>1. TurnInv => TurnsKeepApproval
  BY DEF TurnInv, InTurn, OnDisk, ApprovalStored, ApprovalCoversContent, TurnsKeepApproval
<1> QED
  BY <1>1, TurnInit, TurnNext, PTL DEF Spec
=============================================================================
