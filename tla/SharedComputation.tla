-------------------------- MODULE SharedComputation --------------------------
(***************************************************************************)
(* Computations shared by the callers that ask for the same key            *)
(* (src/core/sharedComputation.js), with the cache of their results        *)
(* (compute/product/practicalResultCache.js).  A row is created by the     *)
(* first caller of a key, joined by the others, and left by each of them   *)
(* when its own signal is aborted; the last one to leave aborts the        *)
(* producer, whose late answer must not touch a newer row of the key.      *)
(*                                                                         *)
(* The result of a key is a function of the key, so only the keys of the   *)
(* cached results are kept.                                                *)
(*                                                                         *)
(* Bounds: Rows, the producers that are alive at one time; MaxActive and   *)
(* MaxCached stand for the four of each.                                   *)
(***************************************************************************)
EXTENDS Naturals, Sequences, FiniteSets

CONSTANTS Keys, Callers, Rows, MaxActive, MaxCached, None

ASSUME SharedAssumption ==
  /\ MaxActive \in Nat /\ MaxCached \in Nat \ {0}
  /\ None \notin Rows \cup Keys

VARIABLES
  pending,  \* the rows by their keys
  rows,     \* what became of every producer, and its controller
  call,     \* subscribers, one for each caller
  cached    \* keys of the cached results, the oldest first

sharedVars == <<pending, rows, call, cached>>

FreeRow == [key |-> None, state |-> "free", aborted |-> FALSE]
NoCall == [row |-> None, answer |-> "none"]

SharedInit ==
  /\ pending = [k \in Keys |-> None]
  /\ rows = [r \in Rows |-> FreeRow]
  /\ call = [c \in Callers |-> NoCall]
  /\ cached = <<>>

Subscribers(r) == {c \in Callers : call[c].row = r}
Active == {k \in Keys : pending[k] # None}
-----------------------------------------------------------------------------
(* run. *)

Join(c, k) ==
  /\ pending[k] # None
  /\ call' = [call EXCEPT ![c] = [NoCall EXCEPT !.row = pending[k]]]
  /\ UNCHANGED <<pending, rows>>

Create(c, k) ==
  /\ pending[k] = None
  /\ Cardinality(Active) < MaxActive
  /\ \E r \in Rows :
       /\ rows[r].state = "free"
       /\ pending' = [pending EXCEPT ![k] = r]
       /\ rows' = [rows EXCEPT ![r] = [key |-> k, state |-> "producing", aborted |-> FALSE]]
       /\ call' = [call EXCEPT ![c] = [NoCall EXCEPT !.row = r]]

Run(c, k) == Join(c, k) \/ Create(c, k)

Remove_AnyRow(r) == \* mutant: whatever row is pending under the key goes
  [pending EXCEPT ![rows[r].key] = None]

\* The row leaves the map unless a newer one has taken its place.
Remove(r) == [k \in Keys |-> IF pending[k] = r THEN None ELSE pending[k]]

Finish(group, answer) ==
  [c \in Callers |-> IF c \in group THEN [row |-> None, answer |-> answer] ELSE call[c]]

\* A producer answers whether or not it has been aborted; one that an abort has
\* overtaken before it ran fails.
Settle(r) ==
  /\ rows[r].state = "producing"
  /\ pending' = Remove(r)
  /\ \E answer \in {"value", "failure"} : call' = Finish(Subscribers(r), answer)
  /\ rows' = [rows EXCEPT ![r] = FreeRow]
  /\ UNCHANGED cached

\* The signal of a caller; a subscriber that has been answered no longer listens.
Abort(c) ==
  LET r == call[c].row IN
  IF r = None THEN UNCHANGED <<pending, rows, call>>
  ELSE /\ call' = Finish({c}, "failure")
       /\ IF Subscribers(r) = {c}
          THEN /\ pending' = Remove(r)
               /\ rows' = [rows EXCEPT ![r].aborted = TRUE]
          ELSE UNCHANGED <<pending, rows>>

\* Every row is settled, then its producer aborted; every signal at once does the same.
Clear ==
  /\ pending' = [k \in Keys |-> None]
  /\ call' = Finish(UNION {Subscribers(pending[k]) : k \in Active}, "failure")
  /\ rows' = [r \in Rows |-> [rows[r] EXCEPT !.aborted = @ \/ \E k \in Active : pending[k] = r]]
-----------------------------------------------------------------------------
(* The cache. *)

IsCached(k) == \E i \in 1..Len(cached) : cached[i] = k

\* put: the oldest entry makes room.
Put(k) ==
  IF IsCached(k) THEN cached
  ELSE Append(IF Len(cached) >= MaxCached THEN Tail(cached) ELSE cached, k)

Evict(k) == SelectSeq(cached, LAMBDA other : other # k)
-----------------------------------------------------------------------------
\* Whoever waits, waits on the row that is pending under its key and that
\* nobody has aborted: the next caller of the key joins it, and a producer that
\* was given up neither answers a newer caller nor takes its row away.
SubscribersServed ==
  \A c \in Callers :
    LET r == call[c].row IN
    r # None => /\ rows[r].state = "producing"
                /\ pending[rows[r].key] = r
                /\ ~rows[r].aborted
=============================================================================
