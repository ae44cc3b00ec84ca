--------------------------- MODULE DesignInputProofs ---------------------------
(***************************************************************************)
(* Proofs about DesignInput, for any number of pages, requests, commits    *)
(* and edits by others: receipts tell the truth, checkpoints can be taken  *)
(* back and, while nobody else edits, undo and redo lead along the models  *)
(* the user has seen and are never refused.                                *)
(*                                                                         *)
(* None holds by itself.  A request stands at most once in the history     *)
(* or among the undone ones because it is applied only without a receipt   *)
(* and its receipt outlives its row; and because the receipt tells on      *)
(* which side it stands, no request stands on both.  A row that was undone *)
(* holds the model to redo.  The saved history must have all of this too,  *)
(* since a restore brings it back.  The second invariant, of the models    *)
(* along the rows, rests on the first.                                     *)
(***************************************************************************)
EXTENDS DesignInput, FiniteSetTheorems, SequenceTheorems, TLAPS

\* Rows with receipts that say b, and no request twice.
Side(receipts, rows, b) ==
  /\ \A i \in 1..Len(rows) : receipts[rows[i].id] # None /\ receipts[rows[i].id].undone = b
  /\ \A i, j \in 1..Len(rows) : rows[i].id = rows[j].id => i = j

\* Receipts with a new one, and with one that tells something else.
Given(receipts, id, v) == [receipts EXCEPT ![id] = [inputs |-> v, undone |-> FALSE]]
Told(receipts, id, b) == [receipts EXCEPT ![id].undone = b]

Few(receipts) == IsFiniteSet(KnownIn(receipts)) /\ Cardinality(KnownIn(receipts)) <= MaxRequests

\* Rows that can be redone.
Redoable(rows) == \A i \in 1..Len(rows) : rows[i].after # None

Kept(receipts, done, undone) ==
  /\ Side(receipts, done, FALSE) /\ Side(receipts, undone, TRUE)
  /\ Redoable(undone)
  /\ Len(done) + Len(undone) <= MaxUndo
  /\ Few(receipts)

SavedKept == saved # None => Kept(saved.requests, saved.history, saved.future)

IInv == TypeOK /\ Kept(requests, history, future) /\ SavedKept
-----------------------------------------------------------------------------
(* Rows. *)

\* Rows with the same ids are as good.
LEMMA SideSame ==
  ASSUME NEW receipts, NEW b, NEW r \in Seq(Row), NEW q \in Seq(Row), Side(receipts, r, b),
         Len(q) = Len(r), \A i \in 1..Len(q) : q[i].id = r[i].id
  PROVE  Side(receipts, q, b)
BY DEF Side

\* A row stays one when a field changes.
LEMMA RowFields ==
  ASSUME NEW row \in Row, NEW m \in Model, NEW n \in Model, NEW p \in Pages \cup {None}
  PROVE  /\ [row EXCEPT !.page = p] \in Row /\ [row EXCEPT !.page = p].id = row.id
         /\ [row EXCEPT !.mark = m] \in Row /\ [row EXCEPT !.mark = m].id = row.id
         /\ [row EXCEPT !.after = n, !.mark = m] \in Row
         /\ [row EXCEPT !.after = n, !.mark = m].id = row.id
         /\ [row EXCEPT !.after = n, !.mark = m].after = n
         /\ [row EXCEPT !.before = n, !.after = None, !.mark = m] \in Row
         /\ [row EXCEPT !.before = n, !.after = None, !.mark = m].id = row.id
BY DEF Row

\* A sequence that is not empty has a last element.
LEMMA NotEmpty ==
  ASSUME NEW S, NEW r \in Seq(S), r # <<>>
  PROVE  Len(r) \in Nat \ {0} /\ Len(r) \in 1..Len(r) /\ r[Len(r)] \in S
BY EmptySeq

\* The rows without the newest one.
LEMMA FrontRows ==
  ASSUME NEW r \in Seq(Row), r # <<>>
  PROVE  /\ Front(r) \in Seq(Row) /\ Len(Front(r)) = Len(r) - 1
         /\ \A i \in 1..(Len(r) - 1) : Front(r)[i] = r[i]
         /\ Last(r) \in Row
<1>1. Len(r) \in Nat \ {0} /\ Last(r) \in Row
  BY NotEmpty DEF Last
<1>2. \A i \in 1..(Len(r) - 1) : r[i] \in Row
  BY <1>1, ElementOfSeq
<1>3. /\ SubSeq(r, 1, Len(r) - 1) \in Seq(Row)
      /\ Len(SubSeq(r, 1, Len(r) - 1)) = Len(r) - 1
      /\ \A i \in 1..(Len(r) - 1) : SubSeq(r, 1, Len(r) - 1)[i] = r[i]
  <2> DEFINE n == Len(r) - 1
  <2>1. n \in Nat /\ 1 \in Int /\ n \in Int /\ \A i \in 1..n : r[i] \in Row
    BY <1>1, <1>2
  <2> HIDE DEF n
  <2>2. /\ SubSeq(r, 1, n) \in Seq(Row)
        /\ Len(SubSeq(r, 1, n)) = IF 1 <= n THEN n - 1 + 1 ELSE 0
        /\ \A i \in 1..(n - 1 + 1) : SubSeq(r, 1, n)[i] = r[1 + i - 1]
    BY <2>1, SubSeqProperties
  <2>3. Len(SubSeq(r, 1, n)) = n /\ \A i \in 1..n : SubSeq(r, 1, n)[i] = r[i]
    BY <2>1, <2>2
  <2> QED
    BY <2>2, <2>3 DEF n
<1> QED
  BY <1>1, <1>3 DEF Front

\* A function on 1..n is a sequence.
LEMMA FunctionSeq ==
  ASSUME NEW S, NEW n \in Nat, NEW f \in [1..n -> S]
  PROVE  f \in Seq(S) /\ Len(f) = n
<1>1. f \in Seq(S)
  BY SeqDef
<1>2. DOMAIN f = 1..Len(f) /\ Len(f) \in Nat
  BY <1>1, LenProperties
<1>3. 1..Len(f) = 1..n
  BY <1>2
<1> QED
  BY <1>1, <1>2, <1>3

\* Binding the top row to a model leaves rows with the same ids.
LEMMA RebindRows ==
  ASSUME NEW r \in Seq(Row), NEW m \in Model
  PROVE  /\ Rebind(r, m) \in Seq(Row) /\ Len(Rebind(r, m)) = Len(r)
         /\ \A i \in 1..Len(r) : Rebind(r, m)[i].id = r[i].id /\ Rebind(r, m)[i].after = r[i].after
<1>1. CASE r = <<>>
  BY <1>1 DEF Rebind
<1>2. CASE r # <<>>
  <2> DEFINE top == [r[Len(r)] EXCEPT !.mark = m]
  <2>1. r[Len(r)] \in Row
    BY <1>2, NotEmpty
  <2>2. top \in Row /\ top.id = r[Len(r)].id /\ top.after = r[Len(r)].after
    BY <2>1 DEF Row
  <2>3. Rebind(r, m) = [r EXCEPT ![Len(r)] = top]
    BY <1>2 DEF Rebind
  <2> HIDE DEF top
  <2> QED
    BY <2>2, <2>3, <1>2
<1> QED
  BY <1>1, <1>2

\* So does taking the page from the rows, or giving them one.
LEMMA PageRows ==
  ASSUME NEW r \in Seq(Row), page \in Pages
  PROVE  /\ strip(r) \in Seq(Row) /\ Len(strip(r)) = Len(r)
         /\ \A i \in 1..Len(r) : strip(r)[i].id = r[i].id /\ strip(r)[i].after = r[i].after
         /\ bind(r) \in Seq(Row) /\ Len(bind(r)) = Len(r)
         /\ \A i \in 1..Len(r) : bind(r)[i].id = r[i].id /\ bind(r)[i].after = r[i].after
<1>1. \A i \in 1..Len(r) : /\ [r[i] EXCEPT !.page = None] \in Row
                           /\ [r[i] EXCEPT !.page = page] \in Row
                           /\ [r[i] EXCEPT !.page = None].id = r[i].id
                           /\ [r[i] EXCEPT !.page = page].id = r[i].id
                           /\ [r[i] EXCEPT !.page = None].after = r[i].after
                           /\ [r[i] EXCEPT !.page = page].after = r[i].after
  <2> TAKE i \in 1..Len(r)
  <2>1. r[i] \in Row
    OBVIOUS
  <2> QED
    BY <2>1 DEF Row
<1>2. strip(r) \in [1..Len(r) -> Row] /\ bind(r) \in [1..Len(r) -> Row]
  BY <1>1 DEF strip, bind
<1>3. Len(r) \in Nat
  OBVIOUS
<1>4. \A i \in 1..Len(r) : /\ strip(r)[i].id = r[i].id /\ bind(r)[i].id = r[i].id
                           /\ strip(r)[i].after = r[i].after /\ bind(r)[i].after = r[i].after
  BY <1>1 DEF strip, bind
<1> QED
  BY <1>2, <1>3, <1>4, FunctionSeq

\* What could be redone still can.
LEMMA RedoableRows ==
  ASSUME NEW r \in Seq(Row), Redoable(r), NEW m \in Model, page \in Pages
  PROVE  /\ r # <<>> => Redoable(Rebind(Front(r), m)) /\ Last(r).after \in Model
         /\ \A row \in Row : row.after # None => Redoable(Append(r, row))
         /\ Redoable(strip(r)) /\ Redoable(bind(r))
<1>1. ASSUME r # <<>>
      PROVE  Redoable(Rebind(Front(r), m)) /\ Last(r).after \in Model
  <2>1. /\ Front(r) \in Seq(Row) /\ Len(Front(r)) = Len(r) - 1
        /\ \A i \in 1..(Len(r) - 1) : Front(r)[i] = r[i]
        /\ Last(r) \in Row
    BY <1>1, FrontRows
  <2>2. Redoable(Front(r))
    BY <2>1 DEF Redoable
  <2>3. Redoable(Rebind(Front(r), m))
    <3> DEFINE f == Front(r)  q == Rebind(f, m)
    <3>1. f \in Seq(Row) /\ Redoable(f)
      BY <2>1, <2>2
    <3> HIDE DEF f
    <3>2. Len(q) = Len(f) /\ \A i \in 1..Len(f) : q[i].after = f[i].after
      BY <3>1, RebindRows
    <3> HIDE DEF q
    <3>3. Redoable(q)
      BY <3>1, <3>2 DEF Redoable
    <3> QED
      BY <3>3 DEF q, f
  <2>4. Last(r).after # None
    BY <1>1, NotEmpty DEF Redoable, Last
  <2> QED
    BY <2>1, <2>3, <2>4 DEF Row
<1>2. ASSUME NEW row \in Row, row.after # None
      PROVE  Redoable(Append(r, row))
  <2>1. /\ Len(Append(r, row)) = Len(r) + 1 /\ Len(r) \in Nat
        /\ \A i \in 1..Len(r) : Append(r, row)[i] = r[i]
        /\ Append(r, row)[Len(r) + 1] = row
    OBVIOUS
  <2> QED
    BY <1>2, <2>1 DEF Redoable
<1>3. Redoable(strip(r)) /\ Redoable(bind(r))
  BY PageRows DEF Redoable
<1> QED
  BY <1>1, <1>2, <1>3

\* The newest row moves to the other side with its receipt.
LEMMA Moves ==
  ASSUME NEW receipts \in Receipts, NEW b \in BOOLEAN, NEW c \in BOOLEAN, b # c,
         NEW from \in Seq(Row), NEW to \in Seq(Row), from # <<>>,
         Side(receipts, from, b), Side(receipts, to, c),
         NEW row \in Row, row.id = Last(from).id, NEW m \in Model
  PROVE  /\ Told(receipts, row.id, c) \in Receipts
         /\ Side(Told(receipts, row.id, c), Rebind(Front(from), m), b)
         /\ Side(Told(receipts, row.id, c), Append(to, row), c)
         /\ KnownIn(Told(receipts, row.id, c)) = KnownIn(receipts)
<1> DEFINE id == row.id  moved == Told(receipts, id, c)
<1>0. id \in Ids
  BY DEF Row
<1>1. receipts[id] \in Receipt /\ receipts[id].undone = b
  BY FrontRows, <1>0 DEF Side, Receipts, Last
<1>2. moved[id] = [receipts[id] EXCEPT !.undone = c] /\ \A i \in Ids : i # id => moved[i] = receipts[i]
  BY <1>0 DEF Receipts, Told
<1>9. moved = [receipts EXCEPT ![id] = moved[id]]
  BY <1>2 DEF Told
<1> HIDE DEF moved
<1>3. moved[id] \in Receipt /\ moved[id].undone = c /\ moved[id] # None
  BY <1>1, <1>2, DesignAssumption DEF Receipt
<1>4. moved \in Receipts
  BY <1>3, <1>9 DEF Receipts
<1>5. KnownIn(moved) = KnownIn(receipts)
  <2>1. \A i \in Ids : moved[i] # None <=> receipts[i] # None
    BY <1>1, <1>2, <1>3, DesignAssumption
  <2> QED
    BY <2>1 DEF KnownIn
<1>6. Side(moved, Front(from), b)
  <2>1. Len(from) \in Nat \ {0}
    BY NotEmpty
  <2>2. \A i \in 1..(Len(from) - 1) : i \in 1..Len(from) /\ from[i] \in Row
    BY <2>1, ElementOfSeq
  <2>3. \A i \in 1..(Len(from) - 1) : from[i].id # id /\ from[i].id \in Ids
    BY <2>1, <2>2 DEF Side, Last, Row
  <2>4. \A i \in 1..(Len(from) - 1) : moved[from[i].id] = receipts[from[i].id]
    BY <2>3, <1>2
  <2>5. Len(Front(from)) = Len(from) - 1 /\ \A i \in 1..(Len(from) - 1) : Front(from)[i] = from[i]
    BY FrontRows
  <2>6. \A i \in 1..(Len(from) - 1) : receipts[from[i].id] # None /\ receipts[from[i].id].undone = b
    BY <2>2 DEF Side
  <2>7. \A i, j \in 1..(Len(from) - 1) : from[i].id = from[j].id => i = j
    BY <2>2 DEF Side
  <2> HIDE DEF id
  <2>8. \A i \in 1..Len(Front(from)) :
          moved[Front(from)[i].id] # None /\ moved[Front(from)[i].id].undone = b
    BY <2>4, <2>5, <2>6
  <2>9. \A i, j \in 1..Len(Front(from)) : Front(from)[i].id = Front(from)[j].id => i = j
    BY <2>5, <2>7
  <2> QED
    BY <2>8, <2>9 DEF Side
<1>7. Side(moved, Rebind(Front(from), m), b)
  BY <1>6, FrontRows, RebindRows, SideSame
<1>8. Side(moved, Append(to, row), c)
  <2>0. \A i \in 1..Len(to) : to[i] \in Row
    BY ElementOfSeq
  <2>1. \A i \in 1..Len(to) : to[i].id # id /\ to[i].id \in Ids
    BY <2>0, <1>1 DEF Side, Row
  <2>2. \A i \in 1..Len(to) : Append(to, row)[i] = to[i]
    OBVIOUS
  <2>3. Len(Append(to, row)) = Len(to) + 1 /\ Append(to, row)[Len(to) + 1] = row
    OBVIOUS
  <2> HIDE DEF id
  <2>4. \A i \in 1..Len(to) : moved[to[i].id] = receipts[to[i].id]
    BY <2>1, <1>2
  <2>5. /\ \A i \in 1..Len(to) : receipts[to[i].id] # None /\ receipts[to[i].id].undone = c
        /\ \A i, j \in 1..Len(to) : to[i].id = to[j].id => i = j
    BY DEF Side
  <2>6. row.id = id
    BY DEF id
  <2> DEFINE q == Append(to, row)  n == Len(to)
  <2>7. /\ Len(q) = n + 1 /\ n \in Nat /\ q[n + 1].id = id
        /\ \A i \in 1..n : q[i].id = to[i].id
    BY <2>2, <2>3, <2>6
  <2> HIDE DEF q
  <2>8. \A i \in 1..Len(q) : moved[q[i].id] # None /\ moved[q[i].id].undone = c
    BY <2>4, <2>5, <2>7, <1>3
  <2>9. \A i, j \in 1..Len(q) : q[i].id = q[j].id => i = j
    BY <2>1, <2>5, <2>7
  <2> QED
    BY <2>8, <2>9 DEF Side, q
<1> QED
  BY <1>4, <1>5, <1>7, <1>8 DEF moved

\* A full history drops its oldest row.
LEMMA PushRows ==
  ASSUME NEW r \in Seq(Row), NEW row \in Row, Len(r) <= MaxUndo
  PROVE  /\ Push(r, row) \in Seq(Row)
         /\ Len(Push(r, row)) \in 1..MaxUndo
         /\ Push(r, row)[Len(Push(r, row))] = row
         /\ \E k \in {0, 1} : /\ Len(Push(r, row)) = Len(r) + 1 - k
                            /\ \A i \in 1..(Len(r) - k) : Push(r, row)[i] = r[i + k]
<1>0. MaxUndo \in Nat \ {0} /\ Len(r) \in Nat
  BY DesignAssumption
<1>1. CASE Len(r) < MaxUndo
  <2>1. Push(r, row) = Append(r, row)
    BY <1>1 DEF Push
  <2>2. /\ Append(r, row) \in Seq(Row) /\ Len(Append(r, row)) = Len(r) + 1
        /\ Append(r, row)[Len(r) + 1] = row
        /\ \A i \in 1..Len(r) : Append(r, row)[i] = r[i]
    OBVIOUS
  <2> QED
    BY <1>0, <1>1, <2>1, <2>2
<1>2. CASE ~(Len(r) < MaxUndo)
  <2>0. r # <<>> /\ Len(r) = MaxUndo
    BY <1>0, <1>2
  <2>1. Push(r, row) = Append(Tail(r), row)
    BY <1>2 DEF Push
  <2>2. /\ Tail(r) \in Seq(Row) /\ Len(Tail(r)) = Len(r) - 1
        /\ \A i \in 1..Len(Tail(r)) : Tail(r)[i] = r[i + 1]
    BY <2>0, HeadTailProperties
  <2> DEFINE t == Tail(r)
  <2>3. t \in Seq(Row) /\ Len(t) = Len(r) - 1 /\ \A i \in 1..(Len(r) - 1) : t[i] = r[i + 1]
    BY <2>2
  <2> HIDE DEF t
  <2>4. /\ Append(t, row) \in Seq(Row) /\ Len(Append(t, row)) = Len(t) + 1
        /\ Append(t, row)[Len(t) + 1] = row
        /\ \A i \in 1..Len(t) : Append(t, row)[i] = t[i]
    BY <2>3
  <2>5. /\ Append(t, row) \in Seq(Row) /\ Len(Append(t, row)) = Len(r)
        /\ Append(t, row)[Len(r)] = row
        /\ \A i \in 1..(Len(r) - 1) : Append(t, row)[i] = r[i + 1]
    BY <1>0, <2>3, <2>4
  <2>6. Push(r, row) = Append(t, row)
    BY <2>1 DEF t
  <2> QED
    BY <1>0, <2>0, <2>5, <2>6
<1> QED
  BY <1>1, <1>2

\* A request without a receipt gets one and a row.
LEMMA Joins ==
  ASSUME NEW receipts \in Receipts, NEW done \in Seq(Row), Side(receipts, done, FALSE),
         Len(done) <= MaxUndo,
         NEW id \in Ids, receipts[id] = None, NEW v \in Inputs
  PROVE  /\ Given(receipts, id, v) \in Receipts
         /\ KnownIn(Given(receipts, id, v)) = KnownIn(receipts) \cup {id}
         /\ \A b \in BOOLEAN, r \in Seq(Row) :
              Side(receipts, r, b) => Side(Given(receipts, id, v), r, b)
         /\ \A row \in Row : row.id = id => Side(Given(receipts, id, v), Push(done, row), FALSE)
<1> DEFINE joined == Given(receipts, id, v)
<1>1. /\ joined[id] = [inputs |-> v, undone |-> FALSE]
      /\ \A i \in Ids : i # id => joined[i] = receipts[i]
  BY DEF Receipts, Given
<1>0. joined = [receipts EXCEPT ![id] = joined[id]]
  BY <1>1 DEF Given
<1> HIDE DEF joined
<1>2. joined[id] \in Receipt /\ joined[id] # None
      /\ joined[id].undone = FALSE
  <2> DEFINE receipt == [inputs |-> v, undone |-> FALSE]
  <2>1. receipt \in Receipt /\ receipt.undone = FALSE
    BY DEF Receipt
  <2>2. receipt # None
    BY <2>1, DesignAssumption
  <2> HIDE DEF receipt
  <2>3. joined[id] = receipt
    BY <1>1 DEF receipt
  <2> QED
    BY <2>1, <2>2, <2>3
<1>3. joined \in Receipts
  BY <1>0, <1>2 DEF Receipts
<1>4. KnownIn(joined) = KnownIn(receipts) \cup {id}
  BY <1>1, <1>2 DEF KnownIn
<1>5. ASSUME NEW b \in BOOLEAN, NEW r \in Seq(Row), Side(receipts, r, b)
      PROVE  /\ Side(joined, r, b)
             /\ \A i \in 1..Len(r) : r[i].id # id
  <2>0. \A i \in 1..Len(r) : r[i] \in Row
    BY ElementOfSeq
  <2>1. \A i \in 1..Len(r) : r[i].id \in Ids
    BY <2>0 DEF Row
  <2>2. \A i \in 1..Len(r) : r[i].id # id
    BY <1>5 DEF Side
  <2> QED
    BY <2>1, <2>2, <1>1, <1>5 DEF Side
<1>6. ASSUME NEW row \in Row, row.id = id
      PROVE  Side(joined, Push(done, row), FALSE)
  <2> DEFINE r == Push(done, row)
  <2>1. PICK k \in {0, 1} : /\ Len(r) = Len(done) + 1 - k
                            /\ \A i \in 1..(Len(done) - k) : r[i] = done[i + k]
    BY PushRows
  <2>a. r \in Seq(Row) /\ Len(r) \in 1..MaxUndo /\ r[Len(r)] = row
    BY PushRows
  <2>b. MaxUndo \in Nat /\ Len(done) \in Nat
    BY DesignAssumption
  <2>2. r \in Seq(Row) /\ Len(r) \in Nat \ {0} /\ r[Len(r)] = row /\ Len(done) \in Nat
    BY <2>a, <2>b
  <2> HIDE DEF r
  <2>3. \A i \in 1..(Len(r) - 1) : r[i] = done[i + k] /\ i + k \in 1..Len(done)
    BY <2>1, <2>2
  <2>4. /\ \A i \in 1..Len(done) : joined[done[i].id] # None /\ joined[done[i].id].undone = FALSE
        /\ \A i, j \in 1..Len(done) : done[i].id = done[j].id => i = j
        /\ \A i \in 1..Len(done) : done[i].id # id
    BY <1>5 DEF Side
  <2>5. \A i \in 1..Len(r) : i # Len(r) => i \in 1..(Len(r) - 1)
    BY <2>2
  <2>6. \A i \in 1..Len(r) : joined[r[i].id] # None /\ joined[r[i].id].undone = FALSE
    BY <2>2, <2>3, <2>4, <2>5, <1>2, <1>6
  <2>7. \A i, j \in 1..Len(r) : r[i].id = r[j].id => i = j
    <3> SUFFICES ASSUME NEW i \in 1..Len(r), NEW j \in 1..Len(r), r[i].id = r[j].id PROVE i = j
      OBVIOUS
    <3>1. CASE i = Len(r) \/ j = Len(r)
      <4>1. \A x \in 1..Len(r) : x # Len(r) => r[x].id # id
        BY <2>3, <2>4, <2>5
      <4>2. r[Len(r)].id = id
        BY <2>2, <1>6
      <4> QED
        BY <3>1, <4>1, <4>2
    <3>2. CASE i # Len(r) /\ j # Len(r)
      <4>1. /\ i + k \in 1..Len(done) /\ r[i] = done[i + k]
            /\ j + k \in 1..Len(done) /\ r[j] = done[j + k]
        BY <3>2, <2>3, <2>5
      <4>2. i + k = j + k
        BY <4>1, <2>4
      <4> QED
        BY <4>2
    <3> QED
      BY <3>1, <3>2
  <2> QED
    BY <2>6, <2>7 DEF Side, r
<1> QED
  BY <1>3, <1>4, <1>5, <1>6 DEF joined

\* A history with its receipts is accepted when it is taken back.
LEMMA KeptAccepted ==
  ASSUME NEW s \in Checkpoints, Kept(s.requests, s.history, s.future)
  PROVE  Accepted(s)
<1> DEFINE h == s.history  f == s.future  rows == h \o f
<1>1. h \in Seq(Row) /\ f \in Seq(Row)
  BY DEF Checkpoints
<1> HIDE DEF h, f
<1>2. /\ Len(h) \in Nat /\ Len(f) \in Nat /\ Len(rows) = Len(h) + Len(f)
      /\ \A i \in 1..Len(h) : rows[i] = h[i]
      /\ \A i \in 1..Len(rows) : i > Len(h) => i - Len(h) \in 1..Len(f) /\ rows[i] = f[i - Len(h)]
  BY <1>1, ConcatProperties
<1>3. /\ Side(s.requests, h, FALSE) /\ Side(s.requests, f, TRUE)
      /\ Len(h) + Len(f) <= MaxUndo
      /\ Cardinality(KnownIn(s.requests)) <= MaxRequests
  BY DEF Kept, Few, h, f
<1> HIDE DEF rows
<1>4. \A i \in 1..Len(rows) : i <= Len(h) => i \in 1..Len(h)
  BY <1>2
<1>5. \A i \in 1..Len(rows) : s.requests[rows[i].id] # None
  BY <1>2, <1>3, <1>4 DEF Side
<1> DEFINE Undone(i) == s.requests[rows[i].id].undone
<1>6. /\ \A i \in 1..Len(rows) : i <= Len(h) => Undone(i) = FALSE
      /\ \A i \in 1..Len(rows) : i > Len(h) => Undone(i) = TRUE
  BY <1>2, <1>3, <1>4 DEF Side
<1>7. ASSUME NEW i \in 1..Len(rows), NEW j \in 1..Len(rows), rows[i].id = rows[j].id
      PROVE  i = j
  <2>1. CASE i <= Len(h) /\ j <= Len(h)
    BY <2>1, <1>2, <1>3, <1>4, <1>7 DEF Side
  <2>2. CASE i > Len(h) /\ j > Len(h)
    <3>1. i - Len(h) = j - Len(h)
      BY <2>2, <1>2, <1>3, <1>7 DEF Side
    <3> QED
      BY <3>1, <1>2
  <2>3. (i <= Len(h)) <=> (j <= Len(h))
    <3>1. Undone(i) = Undone(j)
      BY <1>7
    <3> HIDE DEF Undone
    <3>2. i \in 1..Len(rows) /\ j \in 1..Len(rows)
      OBVIOUS
    <3>3. (i > Len(h) <=> ~(i <= Len(h))) /\ (j > Len(h) <=> ~(j <= Len(h)))
      BY <1>2
    <3> QED
      BY <1>6, <3>1, <3>2, <3>3, Zenon
  <2> QED
    BY <2>1, <2>2, <2>3, <1>2
<1> QED
  BY <1>2, <1>3, <1>5, <1>7 DEF Accepted, rows, h, f
-----------------------------------------------------------------------------
(* Models. *)

\* A commit leaves a model of the bounded ones.
LEMMA Commits ==
  ASSUME TypeOK, Bounded
  PROVE  /\ current \in Model /\ epoch + 1 \in 0..MaxCommits
         /\ \A m \in Model : prepareCommit(current, m) \in Model
         /\ \A v \in Inputs : Stage(current, v) \in Model
<1>1. current \in Model /\ MaxCommits \in Nat
  BY DesignAssumption DEF TypeOK, current
<1>2. current.rev + 1 \in 0..MaxCommits
  BY <1>1 DEF Model, Bounded
<1>3. \A m \in Model : prepareCommit(current, m) \in Model
  BY <1>2 DEF prepareCommit, Model
<1>4. \A v \in Inputs : Stage(current, v) \in Model
  BY <1>1 DEF Stage, Model, Contents
<1>5. epoch + 1 \in 0..MaxCommits
  BY <1>1 DEF TypeOK, Bounded
<1> QED
  BY <1>1, <1>3, <1>4, <1>5

\* Nothing asked, nothing to undo.
LEMMA EmptyKept ==
  ASSUME NEW receipts, receipts = [i \in Ids |-> None]
  PROVE  receipts \in Receipts /\ Kept(receipts, <<>>, <<>>)
<1>1. receipts \in Receipts
  BY DEF Receipts
<1>2. KnownIn(receipts) = {}
  BY DEF KnownIn
<1>3. Few(receipts)
  BY <1>2, FS_EmptySet, DesignAssumption DEF Few
<1>4. \A b : Side(receipts, <<>>, b)
  BY DEF Side
<1>6. Redoable(<<>>)
  BY DEF Redoable
<1>5. Len(<<>>) + Len(<<>>) <= MaxUndo
  BY DesignAssumption
<1> QED
  BY <1>1, <1>3, <1>4, <1>5, <1>6 DEF Kept
-----------------------------------------------------------------------------
(* The invariant holds at first and is kept by each action. *)

\* Nothing is asked, undone or saved at first.
LEMMA InitInv == Init => IInv
<1> SUFFICES ASSUME Init PROVE IInv
  OBVIOUS
<1>1. PICK c \in Initial : models = [p \in Pages |-> [content |-> c, rev |-> 0]]
  BY DEF Init
<1>2. c \in Contents /\ MaxCommits \in Nat
  BY DesignAssumption
<1>3. models \in [Pages -> Model]
  BY <1>1, <1>2 DEF Model
<1>4. requests = [i \in Ids |-> None] /\ plans = <<>> /\ history = <<>> /\ future = <<>>
  BY DEF Init, Empty
<1>5. requests \in Receipts /\ Kept(requests, history, future)
  BY <1>4, EmptyKept
<1>6. Cardinality(Known) <= MaxRequests
  BY <1>5 DEF Kept, Few, Known
<1>7. plans \in Seq(Plan) /\ history \in Seq(Row) /\ future \in Seq(Row) /\ Len(plans) <= MaxPlans
  BY <1>4, DesignAssumption
<1>8. TypeOK
  BY <1>2, <1>3, <1>5, <1>6, <1>7, DesignAssumption DEF TypeOK, Init
<1>9. SavedKept
  BY DEF SavedKept, Init
<1> QED
  BY <1>5, <1>8, <1>9 DEF IInv

\* The newest preview takes the place of the oldest when there are enough.
LEMMA previewKept ==
  ASSUME IInv, NEW id \in Ids, NEW inputs \in Inputs, preview(id, inputs)
  PROVE  IInv'
<1> DEFINE plan == [page |-> page, id |-> id, inputs |-> inputs, source |-> current, epoch |-> epoch]
           kept == IF Len(plans) >= MaxPlans THEN Tail(plans) ELSE plans
<1>1. plans \in Seq(Plan) /\ Len(plans) <= MaxPlans /\ MaxPlans \in Nat \ {0}
  BY DesignAssumption DEF IInv, TypeOK
<1>2. plan \in Plan
  BY DEF IInv, TypeOK, Plan, current
<1>3. kept \in Seq(Plan) /\ Len(kept) < MaxPlans
  <2>1. CASE Len(plans) >= MaxPlans
    <3>1. plans # <<>>
      BY <1>1, <2>1
    <3>2. Tail(plans) \in Seq(Plan) /\ Len(Tail(plans)) = Len(plans) - 1
      BY <1>1, <3>1, HeadTailProperties
    <3> QED
      BY <1>1, <2>1, <3>2
  <2>2. CASE ~(Len(plans) >= MaxPlans)
    BY <1>1, <2>2
  <2> QED
    BY <2>1, <2>2
<1>4. plans' = kept \/ plans' = Append(kept, plan)
  BY DEF preview
<1> HIDE DEF plan, kept
<1>5. plans' \in Seq(Plan) /\ Len(plans') <= MaxPlans
  BY <1>1, <1>2, <1>3, <1>4
<1>6. UNCHANGED <<models, page, requests, history, future, epoch, saved, reading, foreign, turns>>
  BY DEF preview
<1>7. TypeOK'
  BY <1>5, <1>6 DEF IInv, TypeOK, Known
<1> QED
  BY <1>6, <1>7 DEF IInv, Kept, SavedKept

\* What is kept to be applied is a plan.
LEMMA PlanKept ==
  ASSUME TypeOK, NEW plan \in ToSet(plans)
  PROVE  plan \in Plan
<1>1. plans \in Seq(Plan)
  BY DEF TypeOK
<1>2. PICK i \in DOMAIN plans : plan = plans[i]
  BY DEF ToSet
<1>3. i \in 1..Len(plans)
  BY <1>1, <1>2, LenProperties
<1> QED
  BY <1>1, <1>2, <1>3, ElementOfSeq

\* A request that takes effect gets its receipt and its row at once.
LEMMA applyKept ==
  ASSUME IInv, NEW plan \in ToSet(plans), apply(plan)
  PROVE  IInv'
<1> DEFINE next == prepareCommit(current, Stage(current, plan.inputs))
           row == [page |-> page, id |-> plan.id, before |-> current, after |-> None, mark |-> next]
<1>0. TypeOK /\ Kept(requests, history, future) /\ SavedKept
  BY DEF IInv
<1>1. plan \in Plan
  BY <1>0, PlanKept
<1>2. /\ plan.id \in Ids /\ plan.inputs \in Inputs /\ requests[plan.id] = None
      /\ plan.id \notin Known
      /\ Cardinality(Known) < MaxRequests
      /\ requests' = [requests EXCEPT ![plan.id] = [inputs |-> plan.inputs, undone |-> FALSE]]
      /\ UNCHANGED <<page, plans, saved, reading, foreign, turns>>
  BY <1>1 DEF apply, Fresh, Known, KnownIn, Plan
<1>3. /\ history \in Seq(Row) /\ future \in Seq(Row) /\ requests \in Receipts
      /\ Side(requests, history, FALSE) /\ Side(requests, future, TRUE)
      /\ Len(history) + Len(future) <= MaxUndo /\ MaxUndo \in Nat \ {0}
      /\ IsFiniteSet(Known)
  BY <1>0, DesignAssumption DEF TypeOK, Kept, Few, Known
<1>4. Len(history) <= MaxUndo /\ Len(history) \in Nat /\ Len(future) \in Nat
  BY <1>3
<1>5. /\ requests' \in Receipts
      /\ KnownIn(requests') = KnownIn(requests) \cup {plan.id}
      /\ Side(requests', history, FALSE) /\ Side(requests', future, TRUE)
      /\ \A r \in Row : r.id = plan.id => Side(requests', Push(history, r), FALSE)
  <2>1. /\ requests' \in Receipts
        /\ KnownIn(requests') = KnownIn(requests) \cup {plan.id}
        /\ \A b \in BOOLEAN, r \in Seq(Row) : Side(requests, r, b) => Side(requests', r, b)
        /\ \A r \in Row : r.id = plan.id => Side(requests', Push(history, r), FALSE)
    <3>1. requests' = Given(requests, plan.id, plan.inputs)
      BY <1>2 DEF Given
    <3>2. /\ requests \in Receipts /\ history \in Seq(Row) /\ Side(requests, history, FALSE)
          /\ Len(history) <= MaxUndo
          /\ plan.id \in Ids /\ plan.inputs \in Inputs /\ requests[plan.id] = None
      BY <1>2, <1>3, <1>4
    <3> HIDE DEF next, row
    <3>3. /\ Given(requests, plan.id, plan.inputs) \in Receipts
          /\ KnownIn(Given(requests, plan.id, plan.inputs)) = KnownIn(requests) \cup {plan.id}
          /\ \A b \in BOOLEAN, r \in Seq(Row) :
                Side(requests, r, b) => Side(Given(requests, plan.id, plan.inputs), r, b)
          /\ \A r \in Row : r.id = plan.id
                => Side(Given(requests, plan.id, plan.inputs), Push(history, r), FALSE)
      BY <3>2, Joins, Zenon
    <3> QED
      BY <3>1, <3>3
  <2>2. Side(requests', history, FALSE) /\ Side(requests', future, TRUE)
    BY <1>3, <2>1
  <2> QED
    BY <2>1, <2>2
<1>6. Few(requests')
  <2>1. IsFiniteSet(KnownIn(requests')) /\ Cardinality(KnownIn(requests')) = Cardinality(Known) + 1
    BY <1>2, <1>3, <1>5, FS_AddElement DEF Known
  <2>2. Cardinality(Known) \in Nat /\ MaxRequests \in Nat
    BY <1>3, FS_CardinalityType, DesignAssumption
  <2> QED
    BY <1>2, <2>1, <2>2 DEF Few
<1>7. /\ models' \in [Pages -> Model] /\ epoch' \in 0..MaxCommits
      /\ history' \in Seq(Row) /\ future' \in Seq(Row)
      /\ Kept(requests', history', future')
  <2>1. CASE plan.inputs = current.content.inputs
    <3>1. UNCHANGED <<models, history, future, epoch>>
      BY <2>1 DEF apply
    <3> QED
      BY <1>0, <1>3, <1>5, <1>6, <3>1 DEF TypeOK, Kept
  <2>2. CASE plan.inputs # current.content.inputs
    <3>1. Bounded /\ models' = [models EXCEPT ![page] = next] /\ epoch' = epoch + 1
          /\ future' = <<>> /\ history' = Push(history, row)
      BY <2>2 DEF apply
    <3>2. next \in Model /\ current \in Model /\ epoch + 1 \in 0..MaxCommits
      BY <1>0, <1>2, <3>1, Commits
    <3> HIDE DEF next
    <3>3. row \in Row /\ row.id = plan.id
      BY <1>0, <1>2, <3>2 DEF TypeOK, Row
    <3>4. models' \in [Pages -> Model]
      BY <1>0, <3>1, <3>2 DEF TypeOK
    <3> HIDE DEF row
    <3>5. history' \in Seq(Row) /\ Len(history') \in 1..MaxUndo
      BY <1>3, <1>4, <3>1, <3>3, PushRows
    <3>6. Side(requests', history', FALSE)
      BY <1>5, <3>1, <3>3
    <3>7. /\ future' \in Seq(Row) /\ Len(future') = 0
          /\ Side(requests', future', TRUE) /\ Redoable(future')
      BY <3>1 DEF Side, Redoable
    <3>8. Len(history') + Len(future') <= MaxUndo
      BY <1>3, <3>5, <3>7
    <3> QED
      BY <1>6, <3>1, <3>2, <3>4, <3>5, <3>6, <3>7, <3>8 DEF Kept
  <2> QED
    BY <2>1, <2>2
<1>8. TypeOK'
  BY <1>0, <1>2, <1>5, <1>6, <1>7 DEF TypeOK, Few, Known
<1>9. SavedKept'
  BY <1>0, <1>2 DEF SavedKept
<1> QED
  BY <1>7, <1>8, <1>9 DEF IInv

\* The newest row is undone, and its receipt says so.
LEMMA undoKept ==
  ASSUME IInv, undo
  PROVE  IInv'
<1> DEFINE row == Last(history)
           next == prepareCommit(current, row.before)
           undone == [row EXCEPT !.after = current, !.mark = next]
<1>0. TypeOK /\ Kept(requests, history, future) /\ SavedKept
  BY DEF IInv
<1>1. /\ history \in Seq(Row) /\ future \in Seq(Row) /\ requests \in Receipts
      /\ history # <<>> /\ Bounded
  BY <1>0 DEF TypeOK, undo
<1>2. row \in Row
  BY <1>1, FrontRows
<1>3. next \in Model /\ current \in Model /\ epoch + 1 \in 0..MaxCommits
  BY <1>0, <1>1, <1>2, Commits DEF Row
<1>4. /\ models' = [models EXCEPT ![page] = next] /\ epoch' = epoch + 1
      /\ history' = Rebind(Front(history), next) /\ future' = Append(future, undone)
      /\ requests' = [requests EXCEPT ![row.id].undone = TRUE]
      /\ UNCHANGED <<page, plans, saved, reading, foreign, turns>>
  BY DEF undo
<1> HIDE DEF next
<1>5. undone \in Row /\ undone.id = row.id /\ undone.after \in Model
  BY <1>2, <1>3, RowFields
<1>6. requests' = Told(requests, undone.id, TRUE)
  BY <1>4, <1>5 DEF Told
<1> HIDE DEF undone
<1>7. /\ Told(requests, undone.id, TRUE) \in Receipts
      /\ Side(Told(requests, undone.id, TRUE), Rebind(Front(history), next), FALSE)
      /\ Side(Told(requests, undone.id, TRUE), Append(future, undone), TRUE)
      /\ KnownIn(Told(requests, undone.id, TRUE)) = KnownIn(requests)
  <2>1. Side(requests, history, FALSE) /\ Side(requests, future, TRUE)
    BY <1>0 DEF Kept
  <2> QED
    BY <1>1, <1>3, <1>5, <2>1, Moves, Zenon
<1>8. /\ history' \in Seq(Row) /\ Len(history') = Len(history) - 1
      /\ future' \in Seq(Row) /\ Len(future') = Len(future) + 1
  BY <1>1, <1>3, <1>4, <1>5, FrontRows, RebindRows
<1>9. Kept(requests', history', future')
  <2>1. Few(requests')
    BY <1>0, <1>6, <1>7 DEF Kept, Few
  <2>2. Len(history') + Len(future') <= MaxUndo
    BY <1>0, <1>1, <1>8, NotEmpty DEF Kept
  <2>3. undone.after # None
    BY <1>5, DesignAssumption
  <2>4. Redoable(future')
    BY <1>0, <1>1, <1>3, <1>4, <1>5, <2>3, RedoableRows DEF Kept, TypeOK
  <2> QED
    BY <1>4, <1>6, <1>7, <2>1, <2>2, <2>4 DEF Kept
<1>10. TypeOK'
  BY <1>0, <1>3, <1>4, <1>6, <1>7, <1>8 DEF TypeOK, Known
<1>11. SavedKept'
  BY <1>0, <1>4 DEF SavedKept
<1> QED
  BY <1>9, <1>10, <1>11 DEF IInv

\* The row undone last is done again, and its receipt says so.
LEMMA redoKept ==
  ASSUME IInv, redo
  PROVE  IInv'
<1> DEFINE row == Last(future)
           next == prepareCommit(current, row.after)
           done == [row EXCEPT !.before = current, !.after = None, !.mark = next]
<1>0. TypeOK /\ Kept(requests, history, future) /\ SavedKept
  BY DEF IInv
<1>1. /\ history \in Seq(Row) /\ future \in Seq(Row) /\ requests \in Receipts
      /\ future # <<>> /\ Bounded
  BY <1>0 DEF TypeOK, redo
<1>2. row \in Row
  BY <1>1, FrontRows
<1>3. current \in Model /\ epoch + 1 \in 0..MaxCommits /\ next \in Model
  <2>1. row.after \in Model
    BY <1>0, <1>1, <1>2, RedoableRows DEF Kept, TypeOK, Row
  <2> QED
    BY <1>0, <1>1, <2>1, Commits
<1>4. /\ models' = [models EXCEPT ![page] = next] /\ epoch' = epoch + 1
      /\ future' = Rebind(Front(future), next) /\ history' = Append(history, done)
      /\ requests' = [requests EXCEPT ![row.id].undone = FALSE]
      /\ UNCHANGED <<page, plans, saved, reading, foreign, turns>>
  BY DEF redo
<1> HIDE DEF next
<1>5. done \in Row /\ done.id = row.id
  BY <1>2, <1>3, RowFields
<1>6. requests' = Told(requests, done.id, FALSE)
  BY <1>4, <1>5 DEF Told
<1> HIDE DEF done
<1>7. /\ Told(requests, done.id, FALSE) \in Receipts
      /\ Side(Told(requests, done.id, FALSE), Rebind(Front(future), next), TRUE)
      /\ Side(Told(requests, done.id, FALSE), Append(history, done), FALSE)
      /\ KnownIn(Told(requests, done.id, FALSE)) = KnownIn(requests)
  <2>1. Side(requests, history, FALSE) /\ Side(requests, future, TRUE)
    BY <1>0 DEF Kept
  <2> QED
    BY <1>1, <1>3, <1>5, <2>1, Moves, Zenon
<1>8. /\ future' \in Seq(Row) /\ Len(future') = Len(future) - 1
      /\ history' \in Seq(Row) /\ Len(history') = Len(history) + 1
  BY <1>1, <1>3, <1>4, <1>5, FrontRows, RebindRows
<1>9. Kept(requests', history', future')
  <2>1. Few(requests')
    BY <1>0, <1>6, <1>7 DEF Kept, Few
  <2>2. Len(history') + Len(future') <= MaxUndo
    BY <1>0, <1>1, <1>8, NotEmpty DEF Kept
  <2>3. Redoable(future')
    BY <1>0, <1>1, <1>3, <1>4, RedoableRows DEF Kept, TypeOK
  <2> QED
    BY <1>4, <1>6, <1>7, <2>1, <2>2, <2>3 DEF Kept
<1>10. TypeOK'
  BY <1>0, <1>3, <1>4, <1>6, <1>7, <1>8 DEF TypeOK, Known
<1>11. SavedKept'
  BY <1>0, <1>4 DEF SavedKept
<1> QED
  BY <1>9, <1>10, <1>11 DEF IInv

\* The checkpoint has the rows and the receipts as they are.
LEMMA saveKept ==
  ASSUME IInv, saveWorkflowCheckpoint
  PROVE  IInv'
<1>0. TypeOK /\ Kept(requests, history, future) /\ page \in Pages
      /\ history \in Seq(Row) /\ future \in Seq(Row)
  BY DEF IInv, TypeOK
<1> DEFINE done == strip(history)  undone == strip(future)
<1>1. /\ saved' = [model |-> current, requests |-> requests, epoch |-> epoch,
                   history |-> done, future |-> undone]
      /\ UNCHANGED <<models, page, service, reading, foreign, turns>>
  BY DEF saveWorkflowCheckpoint
<1>2. /\ done \in Seq(Row) /\ Len(done) = Len(history)
      /\ \A i \in 1..Len(history) : done[i].id = history[i].id
      /\ undone \in Seq(Row) /\ Len(undone) = Len(future)
      /\ \A i \in 1..Len(future) : undone[i].id = future[i].id
  BY <1>0, PageRows
<1> HIDE DEF done, undone
<1>3. Side(requests, done, FALSE) /\ Side(requests, undone, TRUE)
  BY <1>0, <1>2, SideSame DEF Kept
<1>4. Redoable(undone)
  <2>1. \A i \in 1..Len(future) : undone[i].after = future[i].after
    BY <1>0, PageRows DEF undone
  <2> QED
    BY <1>0, <1>2, <2>1 DEF Kept, Redoable
<1>5. Kept(requests, done, undone)
  BY <1>0, <1>2, <1>3, <1>4 DEF Kept
<1>6. saved' \in Checkpoints
  BY <1>0, <1>1, <1>2 DEF Checkpoints, TypeOK, current
<1>7. TypeOK'
  BY <1>0, <1>1, <1>6 DEF TypeOK, service, Known
<1>8. SavedKept'
  BY <1>1, <1>5 DEF SavedKept
<1>9. Kept(requests', history', future')
  BY <1>0, <1>1 DEF service
<1> QED
  BY <1>7, <1>8, <1>9 DEF IInv

\* The checkpoint comes back as it was saved, whoever shows which page.
LEMMA RestoreDoneKept ==
  ASSUME IInv, RestoreDone
  PROVE  IInv'
<1>0. /\ TypeOK /\ page \in Pages /\ saved \in Checkpoints /\ reading.page \in Pages
      /\ Kept(saved.requests, saved.history, saved.future)
  BY DEF IInv, TypeOK, RestoreDone, SavedKept
<1> DEFINE done == bind(saved.history)  undone == bind(saved.future)
<1>1. /\ models' = [models EXCEPT ![reading.page] = saved.model]
      /\ requests' = saved.requests /\ epoch' = saved.epoch
      /\ history' = done /\ future' = undone /\ reading' = None
      /\ UNCHANGED <<page, plans, saved, foreign, turns>>
  BY DEF RestoreDone
<1>2. /\ saved.model \in Model /\ saved.requests \in Receipts /\ saved.epoch \in 0..MaxCommits
      /\ saved.history \in Seq(Row) /\ saved.future \in Seq(Row)
  BY <1>0 DEF Checkpoints
<1>3. /\ done \in Seq(Row) /\ Len(done) = Len(saved.history)
      /\ \A i \in 1..Len(saved.history) : done[i].id = saved.history[i].id
      /\ undone \in Seq(Row) /\ Len(undone) = Len(saved.future)
      /\ \A i \in 1..Len(saved.future) : undone[i].id = saved.future[i].id
  BY <1>0, <1>2, PageRows
<1>4. Redoable(undone)
  <2>1. \A i \in 1..Len(saved.future) : undone[i].after = saved.future[i].after
    BY <1>0, <1>2, PageRows
  <2> HIDE DEF undone
  <2> QED
    BY <1>0, <1>3, <2>1 DEF Kept, Redoable
<1> HIDE DEF done, undone
<1>5. Side(saved.requests, done, FALSE) /\ Side(saved.requests, undone, TRUE)
  BY <1>0, <1>2, <1>3, SideSame DEF Kept
<1>6. Kept(requests', history', future')
  BY <1>0, <1>1, <1>3, <1>4, <1>5 DEF Kept
<1>7. models' \in [Pages -> Model]
  BY <1>0, <1>1, <1>2 DEF TypeOK
<1>8. TypeOK'
  BY <1>0, <1>1, <1>2, <1>3, <1>6, <1>7 DEF TypeOK, Known, Kept, Few
<1>9. SavedKept'
  BY <1>1 DEF SavedKept, IInv
<1> QED
  BY <1>6, <1>8, <1>9 DEF IInv

\* Nothing is kept when the service is cleared.
LEMMA ClearKept ==
  ASSUME IInv, RestoreFailed \/ disposeRuntime
  PROVE  IInv'
<1>0. TypeOK /\ SavedKept
  BY DEF IInv
<1>1. /\ plans' = <<>> /\ history' = <<>> /\ future' = <<>>
      /\ requests' = [i \in Ids |-> None]
      /\ UNCHANGED <<epoch, page, saved, foreign, turns>>
  BY DEF RestoreFailed, disposeRuntime, Clear
<1>2. requests' \in Receipts /\ Kept(requests', history', future')
  BY <1>1, EmptyKept
<1>3. models' \in [Pages -> Model] /\ reading' \in [page : Pages, previous : Model] \cup {None}
  BY <1>0 DEF TypeOK, RestoreFailed, disposeRuntime
<1>4. plans' \in Seq(Plan) /\ history' \in Seq(Row) /\ future' \in Seq(Row) /\ Len(plans') <= MaxPlans
  BY <1>1, DesignAssumption
<1>5. TypeOK'
  BY <1>0, <1>1, <1>2, <1>3, <1>4 DEF TypeOK, Known, Kept, Few
<1>6. SavedKept'
  BY <1>0, <1>1 DEF SavedKept
<1> QED
  BY <1>2, <1>5, <1>6 DEF IInv

\* The other editors, a change of page and the start of a restore leave the
\* service and the checkpoint alone.
LEMMA OthersKept ==
  ASSUME IInv,
         \/ restoreWorkflowCheckpoint
         \/ \E c \in Contents : EditByOthers(c)
         \/ \E p \in Pages : ShowPage(p)
  PROVE  IInv'
<1>0. TypeOK /\ Kept(requests, history, future) /\ SavedKept
  BY DEF IInv
<1>1. UNCHANGED <<service, saved, turns>>
  BY DEF restoreWorkflowCheckpoint, EditByOthers, ShowPage
<1>2. Kept(requests', history', future') /\ SavedKept'
  BY <1>0, <1>1 DEF service, SavedKept
<1>3. models' \in [Pages -> Model]
  BY <1>0 DEF TypeOK, restoreWorkflowCheckpoint, EditByOthers, ShowPage, Model
<1>4. page' \in Pages /\ reading' \in [page : Pages, previous : Model] \cup {None}
  BY <1>0 DEF TypeOK, restoreWorkflowCheckpoint, EditByOthers, ShowPage, current
<1>5. foreign' \in 0..MaxForeign
  BY <1>0, DesignAssumption DEF TypeOK, restoreWorkflowCheckpoint, EditByOthers, ShowPage
<1>6. TypeOK'
  BY <1>0, <1>1, <1>3, <1>4, <1>5 DEF TypeOK, service, Known
<1> QED
  BY <1>2, <1>6 DEF IInv

\* Every step keeps the invariant.
LEMMA StepInv == IInv /\ [Next]_vars => IInv'
<1> SUFFICES ASSUME IInv, [Next]_vars PROVE IInv'
  OBVIOUS
<1>1. CASE UNCHANGED vars
  BY <1>1 DEF IInv, TypeOK, Kept, SavedKept, vars, service, Known
<1>2. CASE \E id \in Ids, inputs \in Inputs : preview(id, inputs)
  BY <1>2, previewKept
<1>3. CASE \E plan \in ToSet(plans) : apply(plan)
  BY <1>3, applyKept
<1>4. CASE undo
  BY <1>4, undoKept
<1>5. CASE redo
  BY <1>5, redoKept
<1>6. CASE saveWorkflowCheckpoint
  BY <1>6, saveKept
<1>7. CASE RestoreDone
  BY <1>7, RestoreDoneKept
<1>8. CASE RestoreFailed \/ disposeRuntime
  BY <1>8, ClearKept
<1>9. CASE \/ restoreWorkflowCheckpoint
           \/ \E c \in Contents : EditByOthers(c)
           \/ \E p \in Pages : ShowPage(p)
  BY <1>9, OthersKept
<1> QED
  BY <1>1, <1>2, <1>3, <1>4, <1>5, <1>6, <1>7, <1>8, <1>9 DEF Next
-----------------------------------------------------------------------------
(* While nobody else edits.                                                *)
(*                                                                         *)
(* Done and undone requests form one line of models in which the current   *)
(* model stands between the two.  The saved history must form such a line  *)
(* about the saved model, since a restore brings both back, and every row  *)
(* must be of the page that is shown, since a row comes to the top only    *)
(* after those above it have moved.                                        *)

\* What a request made of the model of its row, by these receipts.
Made(receipts, row) == Stage(row.before, receipts[row.id].inputs).content

\* Done requests lead to m, one after the other.
LeadTo(receipts, rows, m) ==
  /\ \A i \in 1..(Len(rows) - 1) : rows[i + 1].before.content = Made(receipts, rows[i])
  /\ Len(rows) > 0 => /\ m.content = Made(receipts, rows[Len(rows)])
                      /\ rows[Len(rows)].mark = m

\* Undone requests lead on from m, the newest first.
LeadOn(receipts, rows, m) ==
  /\ \A i \in 1..(Len(rows) - 1) : rows[i].before.content = Made(receipts, rows[i + 1])
  /\ \A i \in 1..Len(rows) : rows[i].after.content = Made(receipts, rows[i])
  /\ Len(rows) > 0 => /\ m.content = rows[Len(rows)].before.content
                      /\ rows[Len(rows)].mark = m

OfPage(rows, p) == \A i \in 1..Len(rows) : rows[i].page = p

LineNow ==
  /\ LeadTo(requests, history, current) /\ LeadOn(requests, future, current)
  /\ OfPage(history, page) /\ OfPage(future, page)

LineSaved ==
  saved # None => /\ LeadTo(saved.requests, saved.history, saved.model)
                  /\ LeadOn(saved.requests, saved.future, saved.model)

LineOK == turns => LineNow /\ LineSaved
-----------------------------------------------------------------------------
(* Rows of a line. *)

\* Binding the rows below the newest one changes the mark of their top only.
LEMMA FrontRebound ==
  ASSUME NEW r \in Seq(Row), r # <<>>, NEW m \in Model, NEW q, q = Rebind(Front(r), m)
  PROVE  /\ Len(r) \in Nat \ {0} /\ Len(q) = Len(r) - 1
         /\ \A i \in 1..Len(q) : /\ i \in 1..Len(r) /\ i + 1 \in 1..Len(r)
                                 /\ q[i].id = r[i].id /\ q[i].before = r[i].before
                                 /\ q[i].after = r[i].after /\ q[i].page = r[i].page
         /\ Len(q) > 0 => q[Len(q)].mark = m
<1> DEFINE f == Front(r)
<1>1. /\ f \in Seq(Row) /\ Len(f) = Len(r) - 1 /\ Len(r) \in Nat \ {0}
      /\ \A i \in 1..(Len(r) - 1) : f[i] = r[i]
  BY FrontRows, NotEmpty
<1> HIDE DEF f
<1>2. CASE f = <<>>
  BY <1>1, <1>2 DEF Rebind, f
<1>3. CASE f # <<>>
  <2> DEFINE top == [f[Len(f)] EXCEPT !.mark = m]
  <2>1. Len(f) \in 1..Len(f) /\ f[Len(f)] \in Row
    BY <1>1, <1>3, NotEmpty
  <2>2. /\ top.mark = m /\ top.id = f[Len(f)].id /\ top.before = f[Len(f)].before
        /\ top.after = f[Len(f)].after /\ top.page = f[Len(f)].page
    BY <2>1 DEF Row
  <2>3. q = [f EXCEPT ![Len(f)] = top]
    BY <1>3 DEF Rebind, f
  <2> HIDE DEF top
  <2>4. Len(q) = Len(f) /\ q[Len(f)] = top /\ \A i \in 1..Len(f) : i # Len(f) => q[i] = f[i]
    BY <1>1, <2>1, <2>3
  <2> QED
    BY <1>1, <2>1, <2>2, <2>4
<1> QED
  BY <1>2, <1>3

\* What a request made does not depend on what its receipt says of undo.
LEMMA MadeTold ==
  ASSUME NEW receipts \in Receipts, NEW id \in Ids, NEW b \in BOOLEAN,
         NEW row \in Row, receipts[row.id] # None
  PROVE  Made(Told(receipts, id, b), row) = Made(receipts, row)
<1>1. row.id \in Ids /\ receipts[row.id] \in Receipt
  BY DEF Row, Receipts
<1>2. Told(receipts, id, b)[row.id].inputs = receipts[row.id].inputs
  <2>1. CASE row.id = id
    BY <1>1, <2>1 DEF Told, Receipts, Receipt
  <2>2. CASE row.id # id
    BY <1>1, <2>2 DEF Told, Receipts
  <2> QED
    BY <2>1, <2>2
<1> QED
  BY <1>2 DEF Made

\* A commit keeps the content, a request changes the inputs.
LEMMA ContentKept ==
  ASSUME NEW m \in Model, NEW n \in Model
  PROVE  prepareCommit(m, n).content = n.content
BY DEF prepareCommit, Model

\* Rows that say the same by receipts that say the same form the same line.
LEMMA SameLine ==
  ASSUME NEW receipts, NEW given, NEW m, NEW r \in Seq(Row), NEW q, Len(q) = Len(r),
         \A i \in 1..Len(r) : /\ Made(given, q[i]) = Made(receipts, r[i])
                              /\ q[i].before = r[i].before /\ q[i].after = r[i].after
                              /\ q[i].mark = r[i].mark
  PROVE  /\ LeadTo(receipts, r, m) => LeadTo(given, q, m)
         /\ LeadOn(receipts, r, m) => LeadOn(given, q, m)
<1>1. Len(r) \in Nat /\ \A i \in 1..(Len(r) - 1) : i \in 1..Len(r) /\ i + 1 \in 1..Len(r)
  OBVIOUS
<1>2. LeadTo(receipts, r, m) => LeadTo(given, q, m)
  BY <1>1 DEF LeadTo
<1>3. ASSUME LeadOn(receipts, r, m)
      PROVE  LeadOn(given, q, m)
  <2>1. \A i \in 1..(Len(q) - 1) : q[i].before.content = Made(given, q[i + 1])
    BY <1>1, <1>3 DEF LeadOn
  <2>2. \A i \in 1..Len(q) : q[i].after.content = Made(given, q[i])
    BY <1>3 DEF LeadOn
  <2>3. ASSUME Len(q) > 0
        PROVE  m.content = q[Len(q)].before.content /\ q[Len(q)].mark = m
    <3>1. Len(q) \in 1..Len(r)
      BY <1>1, <2>3
    <3> QED
      BY <1>3, <2>3, <3>1 DEF LeadOn
  <2> QED
    BY <2>1, <2>2, <2>3 DEF LeadOn
<1> QED
  BY <1>2, <1>3

\* Without rows there is nothing to follow.
LEMMA NoLine ==
  ASSUME NEW receipts, NEW m, NEW p
  PROVE  LeadTo(receipts, <<>>, m) /\ LeadOn(receipts, <<>>, m) /\ OfPage(<<>>, p)
BY DEF LeadTo, LeadOn, OfPage

\* What a request made depends on the content it was applied to.
LEMMA MadeOf ==
  ASSUME NEW receipts, NEW a \in Row, NEW b \in Row, a.id = b.id,
         a.before.content = b.before.content
  PROVE  Made(receipts, a) = Made(receipts, b)
<1>1. a.before \in Model /\ b.before \in Model
  BY DEF Row
<1>2. \A x \in Model : \A v : Stage(x, v).content = [x.content EXCEPT !.inputs = v]
  BY DEF Stage, Model
<1> DEFINE v == receipts[a.id].inputs
<1>3. Made(receipts, a) = Stage(a.before, v).content /\ Made(receipts, b) = Stage(b.before, v).content
  BY DEF Made
<1> HIDE DEF v
<1>4. /\ Stage(a.before, v).content = [a.before.content EXCEPT !.inputs = v]
      /\ Stage(b.before, v).content = [b.before.content EXCEPT !.inputs = v]
  BY <1>1, <1>2
<1> QED
  BY <1>3, <1>4

\* Rows with receipts: what a receipt says of undo does not move them.
LEMMA RowsTold ==
  ASSUME NEW receipts \in Receipts, NEW id \in Ids, NEW b \in BOOLEAN, NEW c \in BOOLEAN,
         NEW r \in Seq(Row), Side(receipts, r, c)
  PROVE  \A i \in 1..Len(r) : r[i] \in Row /\ Made(Told(receipts, id, b), r[i]) = Made(receipts, r[i])
<1> TAKE i \in 1..Len(r)
<1>1. r[i] \in Row
  BY ElementOfSeq
<1>2. receipts[r[i].id] # None
  BY DEF Side
<1> QED
  BY <1>1, <1>2, MadeTold

\* A sequence and one more.
LEMMA Appended ==
  ASSUME NEW r \in Seq(Row), NEW row \in Row, NEW q, q = Append(r, row)
  PROVE  /\ q \in Seq(Row) /\ Len(r) \in Nat /\ Len(q) = Len(r) + 1 /\ q[Len(r) + 1] = row
         /\ \A i \in 1..Len(r) : q[i] = r[i]
OBVIOUS

\* The newest request of the history is undone: the line is the same, and the
\* model stands before that request.
LEMMA LineUndone ==
  ASSUME NEW receipts \in Receipts, NEW m \in Model, NEW n \in Model, NEW p,
         NEW h \in Seq(Row), h # <<>>, Side(receipts, h, FALSE),
         NEW f \in Seq(Row), Side(receipts, f, TRUE),
         LeadTo(receipts, h, m), LeadOn(receipts, f, m), OfPage(h, p), OfPage(f, p),
         n.content = Last(h).before.content,
         NEW u \in Row, u.id = Last(h).id, u.before = Last(h).before, u.page = Last(h).page,
         u.after = m, u.mark = n
  PROVE  /\ LeadTo(Told(receipts, u.id, TRUE), Rebind(Front(h), n), n)
         /\ LeadOn(Told(receipts, u.id, TRUE), Append(f, u), n)
         /\ OfPage(Rebind(Front(h), n), p) /\ OfPage(Append(f, u), p)
<1> DEFINE q == Rebind(Front(h), n)  g == Append(f, u)  told == Told(receipts, u.id, TRUE)
<1>1. /\ Len(h) \in Nat \ {0} /\ Len(q) = Len(h) - 1
      /\ \A i \in 1..Len(q) : /\ i \in 1..Len(h) /\ i + 1 \in 1..Len(h)
                              /\ q[i].id = h[i].id /\ q[i].before = h[i].before
                              /\ q[i].after = h[i].after /\ q[i].page = h[i].page
      /\ Len(q) > 0 => q[Len(q)].mark = n
  BY FrontRebound
<1>2. /\ g \in Seq(Row) /\ Len(f) \in Nat /\ Len(g) = Len(f) + 1 /\ g[Len(f) + 1] = u
      /\ \A i \in 1..Len(f) : g[i] = f[i]
  BY Appended
<1>3. Last(h) \in Row /\ Last(h) = h[Len(h)] /\ Len(h) \in 1..Len(h)
  BY <1>1, FrontRows DEF Last
<1>5. u.id \in Ids
  BY DEF Row
<1>6. /\ \A i \in 1..Len(h) : h[i] \in Row /\ Made(told, h[i]) = Made(receipts, h[i])
      /\ \A i \in 1..Len(f) : f[i] \in Row /\ Made(told, f[i]) = Made(receipts, f[i])
  BY <1>5, RowsTold
<1> HIDE DEF q, g, told
<1>7. \A i \in 1..Len(q) : Made(told, q[i]) = Made(receipts, h[i])
  <2>1. \A i \in 1..Len(q) : Made(told, q[i]) = Made(told, h[i])
    BY <1>1 DEF Made
  <2> QED
    BY <1>1, <1>6, <2>1
<1>8. Made(told, u) = Made(receipts, Last(h))
  <2>1. Made(told, u) = Made(told, Last(h))
    BY DEF Made
  <2> QED
    BY <1>3, <1>6, <2>1
<1>9. LeadTo(told, q, n)
  <2>1. \A i \in 1..(Len(q) - 1) : q[i + 1].before.content = Made(told, q[i])
    <3> TAKE i \in 1..(Len(q) - 1)
    <3>1. i \in 1..Len(q) /\ i + 1 \in 1..Len(q) /\ i \in 1..(Len(h) - 1)
      BY <1>1
    <3>2. h[i + 1].before.content = Made(receipts, h[i])
      BY <3>1 DEF LeadTo
    <3> QED
      BY <1>1, <1>7, <3>1, <3>2
  <2>2. ASSUME Len(q) > 0
        PROVE  n.content = Made(told, q[Len(q)]) /\ q[Len(q)].mark = n
    <3> DEFINE k == Len(q)
    <3>1. k \in 1..(Len(h) - 1) /\ k \in 1..Len(q) /\ k + 1 = Len(h)
      BY <1>1, <2>2
    <3>2. h[k + 1].before.content = Made(receipts, h[k])
      BY <3>1 DEF LeadTo
    <3> QED
      BY <1>1, <1>3, <1>7, <2>2, <3>1, <3>2
  <2> QED
    BY <2>1, <2>2 DEF LeadTo
<1>10. LeadOn(told, g, n)
  <2>0. m.content = Made(receipts, Last(h))
    BY <1>1, <1>3 DEF LeadTo
  <2>1. \A i \in 1..(Len(g) - 1) : g[i].before.content = Made(told, g[i + 1])
    <3> TAKE i \in 1..(Len(g) - 1)
    <3>1. CASE i = Len(f)
      <4>1. m.content = f[i].before.content
        BY <1>2, <3>1 DEF LeadOn
      <4>2. g[i] = f[i] /\ g[i + 1] = u
        BY <1>2, <3>1
      <4> QED
        BY <1>8, <2>0, <4>1, <4>2
    <3>2. CASE i # Len(f)
      <4>1. i \in 1..(Len(f) - 1) /\ i \in 1..Len(f) /\ i + 1 \in 1..Len(f)
        BY <1>2, <3>2
      <4>2. f[i].before.content = Made(receipts, f[i + 1])
        BY <4>1 DEF LeadOn
      <4> QED
        BY <1>2, <1>6, <4>1, <4>2
    <3> QED
      BY <3>1, <3>2
  <2>2. \A i \in 1..Len(g) : g[i].after.content = Made(told, g[i])
    <3> TAKE i \in 1..Len(g)
    <3>1. CASE i = Len(f) + 1
      BY <1>2, <1>8, <2>0, <3>1
    <3>2. CASE i # Len(f) + 1
      <4>1. i \in 1..Len(f)
        BY <1>2, <3>2
      <4>2. f[i].after.content = Made(receipts, f[i])
        BY <4>1 DEF LeadOn
      <4> QED
        BY <1>2, <1>6, <4>1, <4>2
    <3> QED
      BY <3>1, <3>2
  <2>3. n.content = g[Len(g)].before.content /\ g[Len(g)].mark = n
    BY <1>2
  <2> QED
    BY <2>1, <2>2, <2>3 DEF LeadOn
<1>11. OfPage(q, p)
  BY <1>1 DEF OfPage
<1>12. OfPage(g, p)
  <2>1. u.page = p
    BY <1>3 DEF OfPage
  <2> QED
    BY <1>2, <2>1 DEF OfPage
<1> QED
  BY <1>9, <1>10, <1>11, <1>12 DEF q, g, told

\* The request undone last is done again: the model stands after it.
LEMMA LineRedone ==
  ASSUME NEW receipts \in Receipts, NEW m \in Model, NEW n \in Model, NEW p,
         NEW h \in Seq(Row), Side(receipts, h, FALSE),
         NEW f \in Seq(Row), f # <<>>, Side(receipts, f, TRUE),
         LeadTo(receipts, h, m), LeadOn(receipts, f, m), OfPage(h, p), OfPage(f, p),
         n.content = Last(f).after.content,
         NEW d \in Row, d.id = Last(f).id, d.before = m, d.page = Last(f).page, d.mark = n
  PROVE  /\ LeadTo(Told(receipts, d.id, FALSE), Append(h, d), n)
         /\ LeadOn(Told(receipts, d.id, FALSE), Rebind(Front(f), n), n)
         /\ OfPage(Append(h, d), p) /\ OfPage(Rebind(Front(f), n), p)
<1> DEFINE q == Rebind(Front(f), n)  g == Append(h, d)  told == Told(receipts, d.id, FALSE)
<1>1. /\ Len(f) \in Nat \ {0} /\ Len(q) = Len(f) - 1
      /\ \A i \in 1..Len(q) : /\ i \in 1..Len(f) /\ i + 1 \in 1..Len(f)
                              /\ q[i].id = f[i].id /\ q[i].before = f[i].before
                              /\ q[i].after = f[i].after /\ q[i].page = f[i].page
      /\ Len(q) > 0 => q[Len(q)].mark = n
  BY FrontRebound
<1>2. /\ g \in Seq(Row) /\ Len(h) \in Nat /\ Len(g) = Len(h) + 1 /\ g[Len(h) + 1] = d
      /\ \A i \in 1..Len(h) : g[i] = h[i]
  BY Appended
<1>3. Last(f) \in Row /\ Last(f) = f[Len(f)] /\ Len(f) \in 1..Len(f)
  BY <1>1, FrontRows DEF Last
<1>5. d.id \in Ids
  BY DEF Row
<1>6. /\ \A i \in 1..Len(h) : h[i] \in Row /\ Made(told, h[i]) = Made(receipts, h[i])
      /\ \A i \in 1..Len(f) : f[i] \in Row /\ Made(told, f[i]) = Made(receipts, f[i])
  BY <1>5, RowsTold
<1> HIDE DEF q, g, told
<1>7. \A i \in 1..Len(q) : Made(told, q[i]) = Made(receipts, f[i])
  <2>1. \A i \in 1..Len(q) : Made(told, q[i]) = Made(told, f[i])
    BY <1>1 DEF Made
  <2> QED
    BY <1>1, <1>6, <2>1
<1>8. m.content = Last(f).before.content /\ n.content = Made(receipts, Last(f))
  BY <1>1, <1>3 DEF LeadOn
<1>9. Made(told, d) = n.content
  <2>1. d.before.content = Last(f).before.content
    BY <1>8
  <2>2. Made(told, d) = Made(told, Last(f))
    BY <1>3, <2>1, MadeOf
  <2> QED
    BY <1>3, <1>6, <1>8, <2>2
<1>10. LeadTo(told, g, n)
  <2>1. \A i \in 1..(Len(g) - 1) : g[i + 1].before.content = Made(told, g[i])
    <3> TAKE i \in 1..(Len(g) - 1)
    <3>1. CASE i = Len(h)
      <4>0. i \in 1..Len(h)
        BY <1>2, <3>1
      <4>1. g[i] = h[i] /\ g[i + 1] = d /\ Made(told, h[i]) = Made(receipts, h[i])
        BY <1>2, <1>6, <3>1, <4>0
      <4>2. m.content = Made(receipts, h[i])
        BY <1>2, <3>1 DEF LeadTo
      <4> QED
        BY <4>1, <4>2
    <3>2. CASE i # Len(h)
      <4>1. i \in 1..(Len(h) - 1) /\ i \in 1..Len(h) /\ i + 1 \in 1..Len(h)
        BY <1>2, <3>2
      <4>2. h[i + 1].before.content = Made(receipts, h[i])
        BY <4>1 DEF LeadTo
      <4> QED
        BY <1>2, <1>6, <4>1, <4>2
    <3> QED
      BY <3>1, <3>2
  <2>2. n.content = Made(told, g[Len(g)]) /\ g[Len(g)].mark = n
    BY <1>2, <1>9
  <2> QED
    BY <2>1, <2>2 DEF LeadTo
<1>11. LeadOn(told, q, n)
  <2>1. \A i \in 1..(Len(q) - 1) : q[i].before.content = Made(told, q[i + 1])
    <3> TAKE i \in 1..(Len(q) - 1)
    <3>1. i \in 1..Len(q) /\ i + 1 \in 1..Len(q) /\ i \in 1..(Len(f) - 1)
      BY <1>1
    <3>2. f[i].before.content = Made(receipts, f[i + 1])
      BY <3>1 DEF LeadOn
    <3> QED
      BY <1>1, <1>7, <3>1, <3>2
  <2>2. \A i \in 1..Len(q) : q[i].after.content = Made(told, q[i])
    <3> TAKE i \in 1..Len(q)
    <3>1. f[i].after.content = Made(receipts, f[i])
      BY <1>1 DEF LeadOn
    <3> QED
      BY <1>1, <1>7, <3>1
  <2>3. ASSUME Len(q) > 0
        PROVE  n.content = q[Len(q)].before.content /\ q[Len(q)].mark = n
    <3> DEFINE k == Len(q)
    <3>1. k \in 1..(Len(f) - 1) /\ k \in 1..Len(q) /\ k + 1 = Len(f)
      BY <1>1, <2>3
    <3>2. f[k].before.content = Made(receipts, f[k + 1])
      BY <3>1 DEF LeadOn
    <3> QED
      BY <1>1, <1>3, <1>8, <2>3, <3>1, <3>2
  <2> QED
    BY <2>1, <2>2, <2>3 DEF LeadOn
<1>12. OfPage(q, p)
  BY <1>1 DEF OfPage
<1>13. OfPage(g, p)
  <2>1. d.page = p
    BY <1>3 DEF OfPage
  <2> QED
    BY <1>2, <2>1 DEF OfPage
<1> QED
  BY <1>10, <1>11, <1>12, <1>13 DEF q, g, told

\* Rows keep their line when a request without a row gets a receipt.
LEMMA LineGiven ==
  ASSUME NEW receipts \in Receipts, NEW id \in Ids, receipts[id] = None, NEW v \in Inputs,
         NEW r \in Seq(Row), NEW b \in BOOLEAN, Side(receipts, r, b)
  PROVE  /\ \A i \in 1..Len(r) :
              r[i] \in Row /\ Made(Given(receipts, id, v), r[i]) = Made(receipts, r[i])
         /\ \A m : LeadTo(receipts, r, m) => LeadTo(Given(receipts, id, v), r, m)
         /\ \A m : LeadOn(receipts, r, m) => LeadOn(Given(receipts, id, v), r, m)
<1> DEFINE given == Given(receipts, id, v)
<1>1. \A i \in 1..Len(r) : r[i] \in Row /\ Made(given, r[i]) = Made(receipts, r[i])
  <2> TAKE i \in 1..Len(r)
  <2>0. r[i] \in Row
    BY ElementOfSeq
  <2>1. r[i] \in Row /\ r[i].id \in Ids
    BY <2>0 DEF Row
  <2>2. r[i].id # id
    BY DEF Side
  <2>3. given[r[i].id] = receipts[r[i].id]
    BY <2>1, <2>2 DEF Given, Receipts
  <2> QED
    BY <2>1, <2>3 DEF Made
<1> HIDE DEF given
<1>2. \A m : LeadTo(receipts, r, m) => LeadTo(given, r, m)
  BY <1>1, SameLine
<1>3. \A m : LeadOn(receipts, r, m) => LeadOn(given, r, m)
  BY <1>1, SameLine
<1> QED
  BY <1>1, <1>2, <1>3 DEF given

\* A request is done: the line goes on from the model to the next.
LEMMA LineDone ==
  ASSUME NEW receipts \in Receipts, NEW id \in Ids, receipts[id] = None, NEW v \in Inputs,
         NEW m \in Model, NEW n \in Model, NEW p,
         NEW h \in Seq(Row), Side(receipts, h, FALSE), Len(h) <= MaxUndo,
         LeadTo(receipts, h, m), OfPage(h, p),
         NEW row \in Row, row.id = id, row.before = m, row.page = p, row.mark = n,
         n.content = Stage(m, v).content
  PROVE  LeadTo(Given(receipts, id, v), Push(h, row), n) /\ OfPage(Push(h, row), p)
<1> DEFINE given == Given(receipts, id, v)  g == Push(h, row)
<1>1. PICK k \in {0, 1} : /\ Len(g) = Len(h) + 1 - k
                          /\ \A i \in 1..(Len(h) - k) : g[i] = h[i + k]
  BY PushRows
<1>2. Len(g) \in Nat \ {0} /\ g[Len(g)] = row /\ Len(h) \in Nat
  <2>1. Len(g) \in 1..MaxUndo /\ g[Len(g)] = row
    BY PushRows
  <2> QED
    BY <2>1, DesignAssumption
<1>3. \A i \in 1..(Len(g) - 1) : i + k \in 1..Len(h) /\ g[i] = h[i + k]
  BY <1>1, <1>2
<1>4. \A i \in 1..Len(h) : h[i] \in Row /\ Made(given, h[i]) = Made(receipts, h[i])
  BY LineGiven
<1>5. Made(given, row) = n.content
  <2>1. given[id].inputs = v
    BY DEF Given, Receipts
  <2> QED
    BY <2>1 DEF Made
<1> HIDE DEF given, g
<1>6. \A i \in 1..(Len(g) - 1) : g[i + 1].before.content = Made(given, g[i])
  <2> TAKE i \in 1..(Len(g) - 1)
  <2>1. i + k \in 1..Len(h) /\ g[i] = h[i + k]
    BY <1>3
  <2>2. CASE i = Len(g) - 1
    <3>1. i + k = Len(h) /\ g[i + 1] = row
      BY <1>1, <1>2, <2>2
    <3>2. m.content = Made(receipts, h[i + k])
      BY <2>1, <3>1 DEF LeadTo
    <3> QED
      BY <1>4, <2>1, <3>1, <3>2
  <2>3. CASE i # Len(g) - 1
    <3>1. i + 1 \in 1..(Len(g) - 1) /\ i + k \in 1..(Len(h) - 1) /\ i + 1 + k = i + k + 1
      BY <1>1, <1>2, <2>3
    <3>2. g[i + 1] = h[i + k + 1]
      BY <1>3, <3>1
    <3>3. h[i + k + 1].before.content = Made(receipts, h[i + k])
      BY <3>1 DEF LeadTo
    <3> QED
      BY <1>4, <2>1, <3>2, <3>3
  <2> QED
    BY <2>2, <2>3
<1>7. LeadTo(given, g, n)
  BY <1>2, <1>5, <1>6 DEF LeadTo
<1>8. OfPage(g, p)
  <2> SUFFICES ASSUME NEW i \in 1..Len(g) PROVE g[i].page = p
    BY DEF OfPage
  <2>1. CASE i = Len(g)
    BY <1>2, <2>1
  <2>2. CASE i # Len(g)
    <3>1. i \in 1..(Len(g) - 1)
      BY <1>2, <2>2
    <3> QED
      BY <1>3, <3>1 DEF OfPage
  <2> QED
    BY <2>1, <2>2
<1> QED
  BY <1>7, <1>8 DEF given, g

\* Taking the page from the rows, or giving them one, leaves the line.
LEMMA LinePaged ==
  ASSUME NEW receipts, NEW r \in Seq(Row), NEW m, page \in Pages
  PROVE  /\ LeadTo(receipts, r, m) => LeadTo(receipts, strip(r), m) /\ LeadTo(receipts, bind(r), m)
         /\ LeadOn(receipts, r, m) => LeadOn(receipts, strip(r), m) /\ LeadOn(receipts, bind(r), m)
         /\ OfPage(bind(r), page)
<1> DEFINE s == strip(r)  b == bind(r)
<1>1. \A i \in 1..Len(r) : /\ s[i].id = r[i].id /\ s[i].before = r[i].before
                           /\ s[i].after = r[i].after /\ s[i].mark = r[i].mark
                           /\ b[i].id = r[i].id /\ b[i].before = r[i].before
                           /\ b[i].after = r[i].after /\ b[i].mark = r[i].mark
                           /\ b[i].page = page
  <2> TAKE i \in 1..Len(r)
  <2>1. r[i] \in Row
    BY ElementOfSeq
  <2>2. s[i] = [r[i] EXCEPT !.page = None] /\ b[i] = [r[i] EXCEPT !.page = page]
    BY DEF strip, bind
  <2> QED
    BY <2>1, <2>2 DEF Row
<1>2. Len(s) = Len(r) /\ Len(b) = Len(r)
  BY PageRows
<1> HIDE DEF s, b
<1>3. \A i \in 1..Len(r) : /\ Made(receipts, s[i]) = Made(receipts, r[i])
                           /\ Made(receipts, b[i]) = Made(receipts, r[i])
  BY <1>1 DEF Made
<1>4. /\ LeadTo(receipts, r, m) => LeadTo(receipts, s, m)
      /\ LeadOn(receipts, r, m) => LeadOn(receipts, s, m)
  BY <1>1, <1>2, <1>3, SameLine
<1>5. /\ LeadTo(receipts, r, m) => LeadTo(receipts, b, m)
      /\ LeadOn(receipts, r, m) => LeadOn(receipts, b, m)
  BY <1>1, <1>2, <1>3, SameLine
<1>6. OfPage(b, page)
  BY <1>1, <1>2 DEF OfPage
<1> QED
  BY <1>4, <1>5, <1>6 DEF s, b
-----------------------------------------------------------------------------
(* Every step keeps the line. *)

\* What the invariant says of the rows.
LEMMA RowsNow ==
  ASSUME IInv
  PROVE  /\ requests \in Receipts /\ history \in Seq(Row) /\ future \in Seq(Row)
         /\ Side(requests, history, FALSE) /\ Side(requests, future, TRUE)
         /\ Redoable(future) /\ Len(history) \in Nat /\ Len(history) <= MaxUndo
         /\ page \in Pages /\ current \in Model /\ TypeOK
<1>1. /\ requests \in Receipts /\ history \in Seq(Row) /\ future \in Seq(Row)
      /\ page \in Pages /\ current \in Model /\ TypeOK
  BY DEF IInv, TypeOK, current
<1>2. /\ Side(requests, history, FALSE) /\ Side(requests, future, TRUE)
      /\ Redoable(future) /\ Len(history) + Len(future) <= MaxUndo
  BY DEF IInv, Kept
<1>3. Len(history) \in Nat /\ Len(future) \in Nat
  BY <1>1
<1>4. MaxUndo \in Nat
  BY DesignAssumption
<1>5. Len(history) <= MaxUndo
  BY <1>2, <1>3, <1>4
<1> QED
  BY <1>1, <1>2, <1>3, <1>5

\* What others may change leaves a line without rows.
LEMMA NobodyElse ==
  ASSUME LineSaved, UNCHANGED <<saved, service>>, history = <<>>, future = <<>>
  PROVE  LineNow' /\ LineSaved'
<1>1. history' = <<>> /\ future' = <<>> /\ saved' = saved
  BY DEF service
<1>2. LineNow'
  BY <1>1, NoLine DEF LineNow
<1> QED
  BY <1>1, <1>2 DEF LineSaved

\* Applying a request ends the line with it and forgets what was undone.
LEMMA applyLine ==
  ASSUME IInv, LineNow, LineSaved, NEW plan \in ToSet(plans), apply(plan)
  PROVE  LineNow' /\ LineSaved'
<1> DEFINE next == prepareCommit(current, Stage(current, plan.inputs))
           row == [page |-> page, id |-> plan.id, before |-> current, after |-> None, mark |-> next]
<1>0. /\ requests \in Receipts /\ history \in Seq(Row) /\ future \in Seq(Row)
      /\ Side(requests, history, FALSE) /\ Side(requests, future, TRUE)
      /\ Len(history) <= MaxUndo
      /\ page \in Pages /\ current \in Model /\ TypeOK
  BY RowsNow
<1>1. plan \in Plan
  BY <1>0, PlanKept
<1>2. /\ plan.id \in Ids /\ plan.inputs \in Inputs /\ requests[plan.id] = None
      /\ requests' = Given(requests, plan.id, plan.inputs)
      /\ page' = page /\ saved' = saved
  BY <1>1 DEF apply, Fresh, Known, KnownIn, Plan, Given
<1>3. /\ LeadTo(requests, history, current) /\ LeadOn(requests, future, current)
      /\ OfPage(history, page) /\ OfPage(future, page)
  BY DEF LineNow
<1>4. LineSaved'
  BY <1>2 DEF LineSaved
<1>5. CASE plan.inputs = current.content.inputs
  <2>1. models' = models /\ history' = history /\ future' = future
    BY <1>5 DEF apply
  <2>2. LeadTo(requests', history, current) /\ LeadOn(requests', future, current)
    <3> DEFINE given == Given(requests, plan.id, plan.inputs)
    <3>1. LeadTo(given, history, current)
      BY <1>0, <1>2, <1>3, LineGiven, Zenon
    <3>2. LeadOn(given, future, current)
      BY <1>0, <1>2, <1>3, LineGiven, Zenon
    <3> QED
      BY <1>2, <3>1, <3>2
  <2>3. current' = current
    BY <1>2, <2>1 DEF current
  <2> QED
    BY <1>2, <1>3, <1>4, <2>1, <2>2, <2>3 DEF LineNow
<1>6. CASE plan.inputs # current.content.inputs
  <2>1. /\ Bounded /\ models' = [models EXCEPT ![page] = next]
        /\ future' = <<>> /\ history' = Push(history, row)
    BY <1>6 DEF apply
  <2>2. next \in Model /\ Stage(current, plan.inputs) \in Model
    BY <1>0, <1>2, <2>1, Commits
  <2>3. next.content = Stage(current, plan.inputs).content
    BY <1>0, <2>2, ContentKept
  <2> HIDE DEF next
  <2>4. current' = next
    BY <1>0, <1>2, <2>1, <2>2 DEF TypeOK, current
  <2>5. /\ row \in Row /\ row.id = plan.id /\ row.before = current /\ row.page = page
        /\ row.mark = next
    BY <1>0, <1>2, <2>2 DEF Row
  <2> HIDE DEF row
  <2>6. LeadTo(requests', history', next) /\ OfPage(history', page)
    BY <1>0, <1>2, <1>3, <2>1, <2>2, <2>3, <2>5, LineDone
  <2>7. LeadOn(requests', future', next) /\ OfPage(future', page)
    BY <2>1, NoLine
  <2> QED
    BY <1>2, <1>4, <2>4, <2>6, <2>7 DEF LineNow
<1> QED
  BY <1>5, <1>6

\* Undo moves the model one request back on the line.
LEMMA undoLine ==
  ASSUME IInv, LineNow, LineSaved, undo
  PROVE  LineNow' /\ LineSaved'
<1> DEFINE row == Last(history)
           next == prepareCommit(current, row.before)
           undone == [row EXCEPT !.after = current, !.mark = next]
<1>0. /\ requests \in Receipts /\ history \in Seq(Row) /\ future \in Seq(Row)
      /\ Side(requests, history, FALSE) /\ Side(requests, future, TRUE)
      /\ page \in Pages /\ current \in Model /\ TypeOK
  BY RowsNow
<1>1. /\ LeadTo(requests, history, current) /\ LeadOn(requests, future, current)
      /\ OfPage(history, page) /\ OfPage(future, page)
  BY DEF LineNow
<1>2. /\ history # <<>> /\ Bounded
      /\ models' = [models EXCEPT ![page] = next]
      /\ history' = Rebind(Front(history), next) /\ future' = Append(future, undone)
      /\ requests' = [requests EXCEPT ![row.id].undone = TRUE]
      /\ page' = page /\ saved' = saved
  BY DEF undo
<1>3. row \in Row
  BY <1>0, <1>2, FrontRows
<1>4. row.before \in Model /\ next \in Model
  BY <1>0, <1>2, <1>3, Commits DEF Row
<1>5. next.content = Last(history).before.content
  BY <1>0, <1>4, ContentKept
<1> HIDE DEF next
<1>6. current' = next
  BY <1>0, <1>2, <1>4 DEF TypeOK, current
<1>7. undone \in Row /\ undone.id = row.id
  BY <1>0, <1>3, <1>4, RowFields
<1>8. /\ undone.before = Last(history).before /\ undone.page = Last(history).page
      /\ undone.after = current /\ undone.mark = next
  BY <1>3 DEF Row
<1>9. requests' = Told(requests, undone.id, TRUE)
  BY <1>2, <1>7 DEF Told
<1> HIDE DEF undone
<1>10. /\ LeadTo(Told(requests, undone.id, TRUE), Rebind(Front(history), next), next)
       /\ LeadOn(Told(requests, undone.id, TRUE), Append(future, undone), next)
       /\ OfPage(Rebind(Front(history), next), page) /\ OfPage(Append(future, undone), page)
  BY <1>0, <1>1, <1>2, <1>4, <1>5, <1>7, <1>8, LineUndone
<1> QED
  BY <1>2, <1>6, <1>9, <1>10 DEF LineNow, LineSaved

\* Redo moves it one request on.
LEMMA redoLine ==
  ASSUME IInv, LineNow, LineSaved, redo
  PROVE  LineNow' /\ LineSaved'
<1> DEFINE row == Last(future)
           next == prepareCommit(current, row.after)
           done == [row EXCEPT !.before = current, !.after = None, !.mark = next]
<1>0. /\ requests \in Receipts /\ history \in Seq(Row) /\ future \in Seq(Row)
      /\ Side(requests, history, FALSE) /\ Side(requests, future, TRUE)
      /\ Redoable(future)
      /\ page \in Pages /\ current \in Model /\ TypeOK
  BY RowsNow
<1>1. /\ LeadTo(requests, history, current) /\ LeadOn(requests, future, current)
      /\ OfPage(history, page) /\ OfPage(future, page)
  BY DEF LineNow
<1>2. /\ future # <<>> /\ Bounded
      /\ models' = [models EXCEPT ![page] = next]
      /\ future' = Rebind(Front(future), next) /\ history' = Append(history, done)
      /\ requests' = [requests EXCEPT ![row.id].undone = FALSE]
      /\ page' = page /\ saved' = saved
  BY DEF redo
<1>3. row \in Row
  BY <1>0, <1>2, FrontRows
<1>4. row.after \in Model /\ next \in Model
  <2>1. row.after \in Model
    BY <1>0, <1>2, RedoableRows
  <2> QED
    BY <1>0, <1>2, <2>1, Commits
<1>5. next.content = Last(future).after.content
  BY <1>0, <1>4, ContentKept
<1> HIDE DEF next
<1>6. current' = next
  BY <1>0, <1>2, <1>4 DEF TypeOK, current
<1>7. done \in Row /\ done.id = row.id
  BY <1>0, <1>3, <1>4, RowFields
<1>8. done.before = current /\ done.page = Last(future).page /\ done.mark = next
  BY <1>3 DEF Row
<1>9. requests' = Told(requests, done.id, FALSE)
  BY <1>2, <1>7 DEF Told
<1> HIDE DEF done
<1>10. /\ LeadTo(Told(requests, done.id, FALSE), Append(history, done), next)
       /\ LeadOn(Told(requests, done.id, FALSE), Rebind(Front(future), next), next)
       /\ OfPage(Append(history, done), page) /\ OfPage(Rebind(Front(future), next), page)
  BY <1>0, <1>1, <1>2, <1>4, <1>5, <1>7, <1>8, LineRedone
<1> QED
  BY <1>2, <1>6, <1>9, <1>10 DEF LineNow, LineSaved

\* The checkpoint saves the line without its page.
LEMMA saveLine ==
  ASSUME IInv, LineNow, LineSaved, saveWorkflowCheckpoint
  PROVE  LineNow' /\ LineSaved'
<1>0. history \in Seq(Row) /\ future \in Seq(Row) /\ page \in Pages
  BY RowsNow
<1>1. /\ saved' = [model |-> current, requests |-> requests, epoch |-> epoch,
                   history |-> strip(history), future |-> strip(future)]
      /\ requests' = requests /\ history' = history /\ future' = future
      /\ models' = models /\ page' = page
  BY DEF saveWorkflowCheckpoint, service
<1>2. LeadTo(requests, strip(history), current) /\ LeadOn(requests, strip(future), current)
  BY <1>0, LinePaged DEF LineNow
<1>3. LineNow'
  BY <1>1 DEF LineNow, current
<1>4. LineSaved'
  BY <1>1, <1>2 DEF LineSaved
<1> QED
  BY <1>3, <1>4

\* A restore brings the line back for the page that is shown.
LEMMA RestoreDoneLine ==
  ASSUME IInv, LineNow, LineSaved, RestoreDone
  PROVE  LineNow' /\ LineSaved'
<1>0. page \in Pages /\ saved \in Checkpoints /\ saved # None
  BY DEF IInv, TypeOK, RestoreDone
<1>1. /\ models'[page] = saved.model /\ requests' = saved.requests
      /\ history' = bind(saved.history) /\ future' = bind(saved.future)
      /\ page' = page /\ saved' = saved
  BY DEF RestoreDone
<1>2. saved.history \in Seq(Row) /\ saved.future \in Seq(Row)
  BY <1>0 DEF Checkpoints
<1>3. /\ LeadTo(saved.requests, saved.history, saved.model)
      /\ LeadOn(saved.requests, saved.future, saved.model)
  BY <1>0 DEF LineSaved
<1>4. /\ LeadTo(saved.requests, bind(saved.history), saved.model)
      /\ LeadOn(saved.requests, bind(saved.future), saved.model)
      /\ OfPage(bind(saved.history), page) /\ OfPage(bind(saved.future), page)
  BY <1>0, <1>2, <1>3, LinePaged
<1>5. current' = saved.model
  BY <1>1 DEF current
<1>6. LineNow'
  BY <1>1, <1>4, <1>5 DEF LineNow
<1> QED
  BY <1>1, <1>6 DEF LineSaved

\* A cleared service has no line, and the checkpoint keeps its own.
LEMMA ClearLine ==
  ASSUME LineSaved, RestoreFailed \/ disposeRuntime
  PROVE  LineNow' /\ LineSaved'
<1>1. history' = <<>> /\ future' = <<>> /\ saved' = saved
  BY DEF RestoreFailed, disposeRuntime, Clear
<1>2. LineNow'
  BY <1>1, NoLine DEF LineNow
<1> QED
  BY <1>1, <1>2 DEF LineSaved

\* Init has no line, and every step keeps it.
LEMMA InitLine == Init => LineOK
<1> SUFFICES ASSUME Init PROVE LineOK
  OBVIOUS
<1>1. history = <<>> /\ future = <<>> /\ saved = None
  BY DEF Init, Empty
<1> QED
  BY <1>1, NoLine DEF LineOK, LineNow, LineSaved

LEMMA StepLine == IInv /\ LineOK /\ [Next]_vars => LineOK'
<1> SUFFICES ASSUME IInv, LineOK, [Next]_vars, turns' PROVE LineNow' /\ LineSaved'
  BY DEF LineOK
<1>0. turns' = turns
  BY DEF Next, vars, preview, apply, undo, redo, saveWorkflowCheckpoint,
         restoreWorkflowCheckpoint, RestoreDone, RestoreFailed, disposeRuntime,
         EditByOthers, ShowPage
<1>1. LineNow /\ LineSaved /\ turns
  BY <1>0 DEF LineOK
<1>2. ASSUME UNCHANGED <<models, page, service, saved>>
      PROVE  LineNow' /\ LineSaved'
  BY <1>1, <1>2 DEF service, LineNow, LineSaved, current
<1>3. CASE UNCHANGED vars
  BY <1>2, <1>3 DEF vars
<1>4. ASSUME NEW id \in Ids, NEW inputs \in Inputs, preview(id, inputs)
      PROVE  LineNow' /\ LineSaved'
  BY <1>1, <1>4 DEF preview, LineNow, LineSaved, current
<1>5. ASSUME NEW plan \in ToSet(plans), apply(plan)
      PROVE  LineNow' /\ LineSaved'
  BY <1>1, <1>5, applyLine
<1>6. CASE undo
  BY <1>1, <1>6, undoLine
<1>7. CASE redo
  BY <1>1, <1>7, redoLine
<1>8. CASE saveWorkflowCheckpoint
  BY <1>1, <1>8, saveLine
<1>9. CASE restoreWorkflowCheckpoint
  BY <1>2, <1>9 DEF restoreWorkflowCheckpoint
<1>10. CASE RestoreDone
  BY <1>1, <1>10, RestoreDoneLine
<1>11. CASE RestoreFailed \/ disposeRuntime
  BY <1>1, <1>11, ClearLine
<1>12. ASSUME NEW c \in Contents, EditByOthers(c)
       PROVE  LineNow' /\ LineSaved'
  BY <1>1, <1>12, NobodyElse DEF EditByOthers
<1>13. ASSUME NEW p \in Pages, ShowPage(p)
       PROVE  LineNow' /\ LineSaved'
  BY <1>1, <1>13, NobodyElse DEF ShowPage
<1> QED
  BY <1>3, <1>4, <1>5, <1>6, <1>7, <1>8, <1>9, <1>10, <1>11, <1>12, <1>13 DEF Next

\* The history and, backwards, the undone requests are one sequence of models.
LEMMA OneLine ==
  ASSUME IInv, LineNow
  PROVE  LET line == history \o Reverse(future)
         IN \A i \in 1..(Len(line) - 1) : line[i + 1].before.content = Result(line[i])
<1> DEFINE n == Len(history)  k == Len(future)  line == history \o Reverse(future)
<1>1. history \in Seq(Row) /\ future \in Seq(Row) /\ n \in Nat /\ k \in Nat
  BY RowsNow
<1>2. \A row : Result(row) = Made(requests, row)
  BY DEF Result, Made
<1>3. Reverse(future) \in Seq(Row) /\ Len(Reverse(future)) = k
  <2>1. \A i \in 1..k : k - i + 1 \in 1..k
    BY <1>1
  <2>2. \A i \in 1..k : future[k - i + 1] \in Row
    BY <1>1, <2>1, ElementOfSeq
  <2>3. Reverse(future) \in [1..k -> Row]
    BY <2>2 DEF Reverse
  <2> QED
    BY <1>1, <2>3, FunctionSeq
<1>4. \A i \in 1..k : Reverse(future)[i] = future[k - i + 1]
  BY DEF Reverse
<1>5. /\ Len(line) = n + k
      /\ \A i \in 1..(n + k) : line[i] = IF i <= n THEN history[i] ELSE Reverse(future)[i - n]
  <2> DEFINE back == Reverse(future)
  <2>1. back \in Seq(Row) /\ Len(back) = k
    BY <1>3
  <2> HIDE DEF back
  <2>2. /\ Len(history \o back) = n + k
        /\ \A i \in 1..(n + k) :
              (history \o back)[i] = IF i <= n THEN history[i] ELSE back[i - n]
    BY <1>1, <2>1
  <2> QED
    BY <2>2 DEF back
<1>6. /\ \A i \in 1..n : line[i] = history[i]
      /\ \A i \in 1..k : line[n + i] = future[k - i + 1]
  <2>1. \A i \in 1..n : i \in 1..(n + k) /\ i <= n
    BY <1>1
  <2>2. \A i \in 1..k : /\ n + i \in 1..(n + k) /\ ~(n + i <= n) /\ n + i - n = i
    BY <1>1
  <2> QED
    BY <1>4, <1>5, <2>1, <2>2
<1> HIDE DEF n, k, line
<1>7. /\ \A i \in 1..(n - 1) : history[i + 1].before.content = Made(requests, history[i])
      /\ n > 0 => current.content = Made(requests, history[n])
      /\ \A i \in 1..(k - 1) : future[i].before.content = Made(requests, future[i + 1])
      /\ k > 0 => current.content = future[k].before.content
  BY DEF LineNow, LeadTo, LeadOn, n, k
<1>8. ASSUME NEW i \in 1..(Len(line) - 1)
      PROVE  line[i + 1].before.content = Made(requests, line[i])
  <2>0. i \in 1..(n + k - 1)
    BY <1>1, <1>5 DEF n, k
  <2>1. CASE i < n
    <3>1. i \in 1..n /\ i + 1 \in 1..n /\ i \in 1..(n - 1)
      BY <1>1, <2>0, <2>1 DEF n
    <3> QED
      BY <1>6, <1>7, <3>1
  <2>2. CASE i = n
    <3>1. i \in 1..n /\ 1 \in 1..k /\ k - 1 + 1 = k /\ n > 0 /\ k > 0
      BY <1>1, <2>0, <2>2 DEF n, k
    <3>2. line[i] = history[n] /\ line[i + 1] = future[k]
      BY <1>6, <2>2, <3>1
    <3> QED
      BY <1>7, <3>1, <3>2
  <2>3. CASE i > n
    <3> DEFINE j == i - n
    <3>1. /\ j \in 1..k /\ j + 1 \in 1..k /\ k - j \in 1..(k - 1)
          /\ k - (j + 1) + 1 = k - j /\ n + j = i /\ n + (j + 1) = i + 1
      BY <1>1, <2>0, <2>3 DEF n, k
    <3>2. line[i] = future[k - j + 1] /\ line[i + 1] = future[k - j]
      BY <1>6, <3>1
    <3> QED
      BY <1>7, <3>1, <3>2
  <2> QED
    BY <1>1, <2>0, <2>1, <2>2, <2>3 DEF n
<1> QED
  BY <1>2, <1>8 DEF line
-----------------------------------------------------------------------------
\* Every variable holds what its part of the program may hold, and neither the
\* previews nor the receipts grow past their limits (designInputService.js:49,97).
THEOREM TypeCorrect == Spec => []TypeOK
<1>1. IInv => TypeOK
  BY DEF IInv
<1> QED
  BY <1>1, InitInv, StepInv, PTL DEF Spec

\* A row that was undone holds the model to redo, also in a saved checkpoint, whatever
\* was applied, undone, redone, saved and restored, and whoever edits in between
\* (undo and redo, designInputService.js:116-151; exportState, line 152).
THEOREM UndoneRedoable ==
  Spec => [](Redoable(future) /\ (saved # None => Redoable(saved.future)))
<1>1. IInv => Redoable(future) /\ (saved # None => Redoable(saved.future))
  BY DEF IInv, SavedKept, Kept
<1> QED
  BY <1>1, InitInv, StepInv, PTL DEF Spec

\* Whoever edits in between, a checkpoint that is saved is one that a restore
\* accepts: few enough rows, no request twice, each row with its receipt.
THEOREM CheckpointsRestorable == Spec => []Restorable
<1>1. IInv => Restorable
  BY KeptAccepted, DesignAssumption DEF IInv, SavedKept, TypeOK, Restorable
<1> QED
  BY <1>1, InitInv, StepInv, PTL DEF Spec

\* A receipt tells whether its request stands undone, also after the histories
\* were saved and restored.
THEOREM ReceiptsTell == Spec => []ReceiptsTrue
<1>1. IInv => ReceiptsTrue
  <2> SUFFICES ASSUME IInv PROVE ReceiptsTrue
    OBVIOUS
  <2>1. /\ \A i \in 1..Len(history) : requests[history[i].id].undone = FALSE
        /\ \A i \in 1..Len(future) : requests[future[i].id].undone = TRUE
    BY DEF IInv, Kept, Side
  <2> QED
    BY <2>1, Zenon DEF ReceiptsTrue
<1> QED
  BY <1>1, InitInv, StepInv, PTL DEF Spec

\* While nobody else edits, requests that were done and undone stay one line of
\* models, each the result of the one before, with the model between the two:
\* also after histories were cut, saved and restored.
THEOREM StacksStayAgreed == Spec => []StacksAgree
<1>1. IInv /\ LineOK => StacksAgree
  <2> SUFFICES ASSUME IInv, LineOK, turns PROVE StacksAgree
    BY DEF StacksAgree
  <2>0. LineNow
    BY DEF LineOK
  <2>1. history \in Seq(Row) /\ future \in Seq(Row)
    BY RowsNow
  <2>2. \A row : Result(row) = Made(requests, row)
    BY DEF Result, Made
  <2>3. history # <<>> => current.content = Result(Last(history))
    <3>1. history # <<>> => Len(history) > 0
      BY <2>1, NotEmpty
    <3> QED
      BY <2>0, <2>2, <3>1 DEF LineNow, LeadTo, Last
  <2>4. future # <<>> => current.content = Last(future).before.content
    <3>1. future # <<>> => Len(future) > 0
      BY <2>1, NotEmpty
    <3> QED
      BY <2>0, <3>1 DEF LineNow, LeadOn, Last
  <2>5. \A i \in 1..Len(future) : future[i].after.content = Result(future[i])
    BY <2>0, <2>2 DEF LineNow, LeadOn
  <2> QED
    BY <2>0, <2>3, <2>4, <2>5, OneLine DEF StacksAgree
<1> QED
  BY <1>1, InitInv, StepInv, InitLine, StepLine, PTL DEF Spec

\* While nobody else edits, undo and redo are never refused as stale: the top
\* rows are of the page that is shown and expect the model as it is.
THEOREM TopsStayBound == Spec => []NeverStale
<1>1. IInv /\ LineOK => NeverStale
  <2> SUFFICES ASSUME IInv, LineOK, turns PROVE NeverStale
    BY DEF NeverStale
  <2>0. LineNow
    BY DEF LineOK
  <2>1. history \in Seq(Row) /\ future \in Seq(Row)
    BY RowsNow
  <2>2. ASSUME history # <<>>
        PROVE  Last(history).page = page /\ Last(history).mark = current
    <3>1. Len(history) > 0 /\ Len(history) \in 1..Len(history)
      BY <2>1, <2>2, NotEmpty
    <3> QED
      BY <2>0, <3>1 DEF LineNow, LeadTo, OfPage, Last
  <2>3. ASSUME future # <<>>
        PROVE  Last(future).page = page /\ Last(future).mark = current
    <3>1. Len(future) > 0 /\ Len(future) \in 1..Len(future)
      BY <2>1, <2>3, NotEmpty
    <3> QED
      BY <2>0, <3>1 DEF LineNow, LeadOn, OfPage, Last
  <2> QED
    BY <2>2, <2>3 DEF NeverStale
<1> QED
  BY <1>1, InitInv, StepInv, InitLine, StepLine, PTL DEF Spec
=============================================================================
