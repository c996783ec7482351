------------------------ MODULE MessageSequenceProofs ------------------------
(***************************************************************************)
(* Theorems about MessageSequence, for any sets of conversations, messages, *)
(* transactions, clients and locks, any assignment of locks to              *)
(* conversations, and any page size.                                       *)
(***************************************************************************)
EXTENDS MessageSequence, FiniteSetTheorems, WellFoundedInduction, TLAPS

(* --------------------------- Initial segments -------------------------- *)

\* The number the trigger gives when what it sees is numbered 1, ..., n.
LEMMA LastOfSegment ==
    ASSUME NEW n \in Nat
    PROVE  Max({0} \cup 1..n) = n
  <1>1. n \in {0} \cup 1..n /\ \A y \in {0} \cup 1..n : n >= y
    OBVIOUS
  <1>2. \A x \in {0} \cup 1..n : (\A y \in {0} \cup 1..n : x >= y) => x = n
    OBVIOUS
  <1>3. QED
    BY <1>1, <1>2, Zenon DEF Max

\* After 1..n the trigger gives n + 1.
LEMMA NextOfSegment ==
    ASSUME NEW rows \in SUBSET Row, Initial(Seqs(rows))
    PROVE  \E n \in Nat : Seqs(rows) = 1..n /\ NextSeq(rows) = n + 1
  <1>1. Seqs(rows) \subseteq Nat
    BY DEF Seqs, Row
  <1>2. PICK n \in Nat : Seqs(rows) = 1..n
    BY <1>1 DEF Initial
  <1>3. QED
    BY <1>2, LastOfSegment DEF NextSeq, LastSeq

\* 1..n is a segment that begins at the beginning.
LEMMA SegmentInitial ==
    ASSUME NEW n \in Nat
    PROVE  Initial(1..n)
  <1>1. CASE n = 0
    BY <1>1 DEF Initial
  <1>2. CASE n # 0
    <2>1. n \in 1..n
      BY <1>2
    <2>2. QED
      BY <2>1 DEF Initial
  <1>3. QED
    BY <1>1, <1>2

\* A nonempty finite set of rows has a last one.
LEMMA LastExists ==
    ASSUME NEW rows \in SUBSET Row, IsFiniteSet(rows), rows # {}
    PROVE  /\ LastOf(rows) \in rows
           /\ \A k \in rows : k.seq <= LastOf(rows).seq
  <1> DEFINE Above(m) == {k \in rows : m.seq < k.seq}
             T == {Above(m) : m \in rows}
  <1>1. IsWellFoundedOn(StrictSubsetOrdering(rows), FiniteSubsetsOf(rows))
    BY FS_StrictSubsetOrderingWellFounded
  <1>2. T \subseteq FiniteSubsetsOf(rows)
    BY FS_Subset DEF FiniteSubsetsOf
  <1>3. T # {}
    OBVIOUS
  <1>4. PICK S \in T : \A U \in T : ~(<<U, S>> \in StrictSubsetOrdering(rows))
    <2> HIDE DEF T
    <2> QED BY <1>1, <1>2, <1>3, WFMin
  <1>5. PICK m \in rows : S = Above(m)
    OBVIOUS
  <1>6. ASSUME NEW k \in rows, ~(k.seq <= m.seq)
        PROVE  FALSE
    <2>1. k.seq \in Nat /\ m.seq \in Nat /\ m.seq < k.seq
      BY <1>6 DEF Row
    <2>2. Above(k) \subseteq Above(m)
      BY <2>1 DEF Row
    <2>3. k \in Above(m) /\ k \notin Above(k)
      BY <2>1
    <2>4. <<Above(k), Above(m)>> \in StrictSubsetOrdering(rows)
      BY <2>2, <2>3 DEF StrictSubsetOrdering
    <2>5. QED
      BY <1>4, <1>5, <2>4
  <1>7. QED
    BY <1>6 DEF LastOf

\* It has a first one, too.
LEMMA LeastExists ==
    ASSUME NEW rows \in SUBSET Row, IsFiniteSet(rows), rows # {}
    PROVE  \E m \in rows : \A k \in rows : m.seq <= k.seq
  <1> DEFINE T == {Before(m, rows) : m \in rows}
  <1>1. IsWellFoundedOn(StrictSubsetOrdering(rows), FiniteSubsetsOf(rows))
    BY FS_StrictSubsetOrderingWellFounded
  <1>2. T \subseteq FiniteSubsetsOf(rows)
    BY FS_Subset DEF FiniteSubsetsOf, Before
  <1>3. PICK S \in T : \A U \in T : ~(<<U, S>> \in StrictSubsetOrdering(rows))
    <2>1. T # {}
      OBVIOUS
    <2> HIDE DEF T
    <2>2. QED
      BY <1>1, <1>2, <2>1, WFMin
  <1>4. PICK m \in rows : S = Before(m, rows)
    OBVIOUS
  <1>5. ASSUME NEW k \in rows, ~(m.seq <= k.seq)
        PROVE  FALSE
    <2>1. k.seq \in Nat /\ m.seq \in Nat /\ k.seq < m.seq
      BY <1>5 DEF Row
    <2>2. Before(k, rows) \subseteq Before(m, rows)
      BY <2>1 DEF Row, Before
    <2>3. k \in Before(m, rows) /\ k \notin Before(k, rows)
      BY <2>1 DEF Before
    <2>4. <<Before(k, rows), Before(m, rows)>> \in StrictSubsetOrdering(rows)
      BY <2>2, <2>3 DEF StrictSubsetOrdering, Before
    <2>5. QED
      BY <1>3, <1>4, <2>4
  <1>6. QED
    BY <1>5

\* Of rows in order, the first n are closed downwards.
LEMMA FirstClosed ==
    ASSUME NEW rows \in SUBSET Row, IsFiniteSet(rows), NEW n \in Nat,
           NEW m \in First(n, rows), NEW k \in rows, k.seq <= m.seq
    PROVE  k \in First(n, rows)
  <1>1. Before(k, rows) \subseteq Before(m, rows)
    BY DEF Before, First, Row
  <1>2. IsFiniteSet(Before(m, rows))
    BY FS_Subset DEF Before
  <1>3. /\ Cardinality(Before(k, rows)) <= Cardinality(Before(m, rows))
        /\ Cardinality(Before(k, rows)) \in Nat
        /\ Cardinality(Before(m, rows)) \in Nat
    BY <1>1, <1>2, FS_Subset, FS_CardinalityType
  <1>4. QED
    BY <1>3 DEF First

(* --------------------------- Type correctness -------------------------- *)

\* What the program counter of a transaction says about its other fields.
LEMMA TxFields ==
    ASSUME TypeOK, NEW w \in Writer
    PROVE  /\ tx[w] \in Tx
           /\ tx[w].rows \in SUBSET Row
           /\ tx[w].keys \in SUBSET Key
           /\ tx[w].pc \in {"lock", "number"} => tx[w].conv \in Conv /\ tx[w].msg \in Msg
           /\ At(w, "insert") => tx[w].new \in Row
  <1>1. tx[w] \in Tx
    BY DEF TypeOK
  <1>2. QED
    BY <1>1 DEF Tx, At

\* A transaction that moves to a well-typed record keeps the types.
LEMMA StepType ==
    ASSUME TypeOK, NEW w \in Writer, NEW t \in Tx, Step(w, t), messages' \subseteq Row
    PROVE  TypeOK'
  BY DEF TypeOK, Step

\* A transaction that begins is well typed.
LEMMA BegunType == Begun \in Tx
  BY DEF Begun, Tx

\* A transaction sees, and is given, proper numbers.
LEMMA VisibleType ==
    ASSUME TypeOK, NEW w \in Writer, NEW c \in Conv
    PROVE  Visible(w, c) \in SUBSET Row
  BY TxFields DEF Visible, Of, TypeOK

\* The row a number was given to is a proper row.
LEMMA NumberType ==
    ASSUME TypeOK, Contiguous, NEW w \in Writer, tx[w].pc = "number"
    PROVE  [conv |-> tx[w].conv, seq |-> NextSeq(Visible(w, tx[w].conv)),
            msg |-> tx[w].msg] \in Row
  <1>1. tx[w].conv \in Conv /\ tx[w].msg \in Msg
    BY TxFields
  <1>2. NextSeq(Visible(w, tx[w].conv)) \in Nat \ {0}
    BY <1>1, VisibleType, NextOfSegment DEF Contiguous
  <1>3. QED
    BY <1>1, <1>2 DEF Row

\* The rows of a page are rows of the conversation.
LEMMA PageRows ==
    ASSUME TypeOK, Finite, NEW r \in Reader
    PROVE  /\ After(r) \in SUBSET Row
           /\ After(r) \subseteq Of(messages, reader[r].conv)
           /\ IsFiniteSet(After(r))
           /\ Fetched(r) \subseteq After(r)
           /\ Fetched(r) \in SUBSET Row
           /\ IsFiniteSet(Fetched(r))
           /\ First(Limit, Fetched(r)) \subseteq Fetched(r)
           /\ First(Limit, Fetched(r)) \in SUBSET Row
           /\ IsFiniteSet(First(Limit, Fetched(r)))
  <1>1. After(r) \subseteq messages
    BY DEF After, Of
  <1>2. /\ Fetched(r) \subseteq After(r)
        /\ First(Limit, Fetched(r)) \subseteq Fetched(r)
    BY DEF Fetched, First
  <1>3. QED
    BY <1>1, <1>2, FS_Subset DEF Finite, TypeOK, After

\* If there is more than a page, the page is not empty and has a last row.
LEMMA PageNotEmpty ==
    ASSUME TypeOK, Finite, NEW r \in Reader, Cardinality(Fetched(r)) > Limit
    PROVE  /\ LastOf(First(Limit, Fetched(r))) \in First(Limit, Fetched(r))
           /\ \A k \in First(Limit, Fetched(r)) :
                 k.seq <= LastOf(First(Limit, Fetched(r))).seq
  <1> DEFINE rows == Fetched(r)
  <1>1. rows \in SUBSET Row /\ IsFiniteSet(rows)
    BY PageRows
  <1>2. rows # {}
    BY FS_EmptySet, LimitAssumption
  <1>3. PICK m \in rows : \A k \in rows : m.seq <= k.seq
    BY <1>1, <1>2, LeastExists
  <1>4. Before(m, rows) = {}
    BY <1>1, <1>3 DEF Before, Row
  <1>5. m \in First(Limit, rows)
    BY <1>4, FS_EmptySet, LimitAssumption DEF First
  <1>6. QED
    BY <1>5, PageRows, LastExists

\* A page that was read keeps the types.
LEMMA ReadType ==
    ASSUME TypeOK, Finite, NEW r \in Reader, ReadPage(r)
    PROVE  TypeOK'
  <1> DEFINE rows == Fetched(r)
             hasMore == Cardinality(rows) > Limit
             seen == reader[r].seen \cup (IF hasMore THEN First(Limit, rows) ELSE rows)
             cursor == IF hasMore THEN NextCursor(rows) ELSE 0
  <1>1. reader[r] \in Page
    BY DEF TypeOK
  <1>2. seen \in SUBSET Row
    BY <1>1, PageRows DEF Page
  <1>3. cursor \in Nat
    <2>1. hasMore => NextCursor(rows) \in Nat
      BY PageNotEmpty, PageRows DEF NextCursor, Row
    <2>2. QED
      BY <2>1
  <1>4. reader' = [reader EXCEPT ![r] =
            [reader[r] EXCEPT !.seen = seen, !.cursor = cursor, !.done = ~hasMore]]
    BY DEF ReadPage, TypeOK, Page
  <1>5. [reader[r] EXCEPT !.seen = seen, !.cursor = cursor, !.done = ~hasMore] \in Page
    BY <1>1, <1>2, <1>3 DEF Page
  <1>6. reader' \in [Reader -> Page]
    BY <1>4, <1>5 DEF TypeOK
  <1>7. QED
    BY <1>6 DEF TypeOK, ReadPage

\* Every step keeps the types.
LEMMA TypeStep ==
    ASSUME IInv, [Next]_vars
    PROVE  TypeOK'
  <1> USE DEF IInv
  <1>1. ASSUME NEW w \in Writer, NEW c \in Conv, NEW msg \in Msg, Insert(w, c, msg)
        PROVE  TypeOK'
    BY <1>1, TxFields, StepType DEF Insert, Tx, TypeOK
  <1>2. ASSUME NEW w \in Writer, Lock(w)
        PROVE  TypeOK'
    <2>1. tx[w].keys \cup {LockKey[tx[w].conv]} \in SUBSET Key
      BY <1>2, TxFields, KeyAssumption DEF Lock, At
    <2>2. [tx[w] EXCEPT !.pc = "number", !.keys = @ \cup {LockKey[tx[w].conv]}] \in Tx
      BY <1>2, <2>1, TxFields DEF Lock, At, Tx
    <2>3. QED
      BY <1>2, <2>2, StepType DEF Lock, TypeOK
  <1>3. ASSUME NEW w \in Writer, Number(w)
        PROVE  TypeOK'
    <2>1. [pc |-> "insert", rows |-> tx[w].rows, keys |-> tx[w].keys,
           new |-> [conv |-> tx[w].conv, seq |-> NextSeq(Visible(w, tx[w].conv)),
                    msg |-> tx[w].msg]] \in Tx
      BY <1>3, NumberType, TxFields DEF Number, At, Tx
    <2>2. QED
      BY <1>3, <2>1, StepType DEF Number, TypeOK
  <1>4. ASSUME NEW w \in Writer, InsertRow(w)
        PROVE  TypeOK'
    <2>1. [pc |-> "ready", rows |-> tx[w].rows \cup {tx[w].new}, keys |-> tx[w].keys] \in Tx
      BY <1>4, TxFields DEF InsertRow, Tx
    <2>2. QED
      BY <1>4, <2>1, StepType DEF InsertRow, Store, TypeOK
  <1>5. ASSUME NEW w \in Writer, UniqueViolation(w) \/ Rollback(w)
        PROVE  TypeOK'
    BY <1>5, BegunType, StepType DEF UniqueViolation, Rollback, TypeOK
  <1>6. ASSUME NEW w \in Writer, Commit(w)
        PROVE  TypeOK'
    BY <1>6, BegunType, StepType, TxFields DEF Commit, TypeOK
  <1>7. CASE Up \/ Down
    BY <1>7 DEF Up, Down, Migrate, TypeOK
  <1>8. ASSUME NEW r \in Reader, ReadPage(r)
        PROVE  TypeOK'
    BY <1>8, ReadType
  <1>9. CASE UNCHANGED vars
    BY <1>9 DEF vars, TypeOK
  <1>10. QED
    BY <1>1, <1>2, <1>3, <1>4, <1>5, <1>6, <1>7, <1>8, <1>9 DEF Next

(* ------------------------------ Numbering ------------------------------ *)

Rows == Finite /\ Contiguous /\ Apart

\* A step that gives a transaction new fields leaves the others alone.
LEMMA OthersKeep ==
    ASSUME TypeOK, NEW w \in Writer, NEW t, Step(w, t)
    PROVE  tx'[w] = t /\ \A v \in Writer \ {w} : tx'[v] = tx[v]
  BY DEF TypeOK, Step

\* All that Lock changes of its transaction.
LEMMA LockFields ==
    ASSUME TypeOK, NEW w \in Writer, Lock(w)
    PROVE  /\ tx'[w].pc = "number"
           /\ tx'[w].rows = tx[w].rows
           /\ tx'[w].keys = tx[w].keys \cup {LockKey[tx[w].conv]}
           /\ tx'[w].conv = tx[w].conv
           /\ \A v \in Writer \ {w} : tx'[v] = tx[v]
  <1>1. tx[w] \in [pc: {"lock", "number"}, rows: SUBSET Row, keys: SUBSET Key,
                   conv: Conv, msg: Msg]
    BY TxFields DEF Lock, At, Tx
  <1>2. tx'[w] = [tx[w] EXCEPT !.pc = "number", !.keys = @ \cup {LockKey[tx[w].conv]}]
    BY OthersKeep DEF Lock
  <1>3. \A v \in Writer \ {w} : tx'[v] = tx[v]
    BY OthersKeep DEF Lock
  <1>4. QED
    BY <1>1, <1>2, <1>3

\* Nothing is written, or rows are given up.
LEMMA RowsKept ==
    ASSUME TypeOK, Rows, messages' = messages,
           \A v \in Writer : tx'[v].rows \in {tx[v].rows, {}}
    PROVE  Rows'
  <1> USE DEF Rows
  <1>1. Finite'
    BY FS_EmptySet DEF Finite
  <1>2. Contiguous'
    <2>1. \A v \in Writer, c \in Conv : Visible(v, c)' \in {Visible(v, c), Of(messages, c)}
      BY DEF Visible, Of
    <2>2. \A c \in Conv : Of(messages, c)' = Of(messages, c)
      BY DEF Of
    <2>3. QED
      BY <2>1, <2>2 DEF Contiguous, Initial, Seqs
  <1>3. Apart'
    BY DEF Apart, Taken
  <1>4. QED
    BY <1>1, <1>2, <1>3

\* Where w is about to insert and the number is neither stored nor pending, it is
\* the next one, and nobody else has rows pending in the conversation.
LEMMA InsertNext ==
    ASSUME TypeOK, Rows, SkipsNone, NEW w \in Writer, InsertRow(w)
    PROVE  /\ tx[w].new \in Row
           /\ Seqs(Visible(w, tx[w].new.conv)) = 1..(tx[w].new.seq - 1)
           /\ \A v \in Writer \ {w} : \A m \in tx[v].rows : m.conv # tx[w].new.conv
  <1> DEFINE new == tx[w].new
             c   == new.conv
  <1>1. new \in Row /\ c \in Conv /\ new.seq \in Nat /\ new.seq # 0
    BY TxFields DEF InsertRow, Row
  <1>2. Visible(w, c) \in SUBSET Row
    BY <1>1, VisibleType
  <1>3. Seqs(Visible(w, c)) \subseteq Nat
    BY <1>2 DEF Seqs, Row
  <1>4. PICK n \in Nat : Seqs(Visible(w, c)) = 1..n
    BY <1>1, <1>3 DEF Rows, Contiguous, Initial
  <1>5. new.seq \notin Seqs(Visible(w, c))
    BY DEF InsertRow, Taken, SamePlace, Seqs, Visible, Of
  <1>6. 1..(new.seq - 1) \subseteq 1..n
    BY <1>4 DEF SkipsNone, InsertRow
  <1>7. new.seq - 1 = n
    <2>1. ~(new.seq \in 1..n)
      BY <1>4, <1>5
    <2>2. new.seq > n
      BY <1>1, <2>1
    <2>3. new.seq - 1 >= 1 => new.seq - 1 <= n
      <3>1. new.seq - 1 >= 1 => new.seq - 1 \in 1..(new.seq - 1)
        BY <1>1
      <3>2. QED
        BY <1>1, <1>6, <3>1
    <2>4. QED
      BY <1>1, <2>2, <2>3
  <1>8. ASSUME NEW v \in Writer \ {w}, NEW m \in tx[v].rows, m.conv = c
        PROVE  FALSE
    <2>1. \A k \in tx[w].rows : k.conv # c
      BY <1>8 DEF Rows, Apart
    <2>2. Visible(w, c) = Of(messages, c)
      BY <2>1 DEF Visible, Of
    <2>3. m \in Row /\ m.seq \in Nat /\ m.seq # 0
      BY <1>8, TxFields DEF Row
    <2>4. m.seq \notin 1..n
      BY <1>8, <2>2, <1>4 DEF Rows, Apart, Taken, SamePlace, Of, Seqs
    <2>5. m.seq > n
      BY <2>3, <2>4
    <2>6. Visible(v, c) \in SUBSET Row /\ Seqs(Visible(v, c)) \subseteq Nat
      BY <1>1, <1>8, VisibleType DEF Seqs, Row
    <2>7. PICK k \in Nat : Seqs(Visible(v, c)) = 1..k
      BY <1>1, <1>8, <2>6 DEF Rows, Contiguous, Initial
    <2>8. m.seq \in 1..k
      BY <1>8, <2>7 DEF Visible, Of, Seqs
    <2>9. new.seq \in 1..k
      BY <2>5, <2>8, <1>7, <1>1
    <2>10. PICK x \in Visible(v, c) : x.seq = new.seq
      BY <2>7, <2>9 DEF Seqs
    <2>11. x \in messages \/ x \in tx[v].rows
      BY <2>10 DEF Visible, Of
    <2>12. x.conv = c
      BY <2>10 DEF Visible, Of
    <2>13. SamePlace(x, new)
      BY <2>10, <2>12 DEF SamePlace
    <2>14. QED
      BY <1>8, <2>11, <2>13 DEF InsertRow, Taken, Awaited
  <1>9. QED
    BY <1>1, <1>4, <1>7, <1>8

\* An insertion that passes the unique constraint keeps the rows in order.
LEMMA RowsInsert ==
    ASSUME TypeOK, Rows, SkipsNone, NEW w \in Writer, InsertRow(w)
    PROVE  Rows'
  <1> DEFINE new == tx[w].new
  <1>1. /\ messages' = messages
        /\ tx'[w].rows = tx[w].rows \cup {new}
        /\ \A v \in Writer \ {w} : tx'[v].rows = tx[v].rows
    BY OthersKeep DEF InsertRow, Store
  <1>2. new \in Row /\ new.seq \in Nat /\ new.seq # 0
    BY InsertNext DEF Row
  <1>3. Finite'
    BY <1>1, FS_AddElement DEF Finite, Rows
  <1>4. Contiguous'
    <2>1. ASSUME NEW v \in Writer, NEW c \in Conv
          PROVE  Initial(Seqs(Visible(v, c)))'
      <3>1. CASE v # w \/ c # new.conv
        <4>1. Visible(v, c)' = Visible(v, c)
          BY <1>1, <3>1 DEF Visible, Of
        <4>2. QED
          BY <4>1 DEF Rows, Contiguous, Initial, Seqs
      <3>2. CASE v = w /\ c = new.conv
        <4>1. Visible(v, c)' = Visible(w, c) \cup {new}
          BY <1>1, <3>2 DEF Visible, Of
        <4>2. Seqs(Visible(v, c)') = Seqs(Visible(w, c)) \cup {new.seq}
          BY <4>1 DEF Seqs
        <4>3. Seqs(Visible(w, c)) = 1..(new.seq - 1)
          BY <3>2, InsertNext
        <4>4. 1..(new.seq - 1) \cup {new.seq} = 1..new.seq
          BY <1>2
        <4>5. QED
          BY <4>2, <4>3, <4>4, <1>2, SegmentInitial DEF Initial, Seqs
      <3>3. QED
        BY <3>1, <3>2
    <2>2. \A c \in Conv : Of(messages, c)' = Of(messages, c)
      BY <1>1 DEF Of
    <2>3. QED
      BY <2>1, <2>2 DEF Rows, Contiguous, Initial, Seqs
  <1>5. Apart'
    <2>1. ~Taken(messages \cup tx[w].rows, new)
      BY DEF InsertRow
    <2>2. \A v \in Writer \ {w} : \A m \in tx[v].rows : m.conv # new.conv
      BY InsertNext
    <2>3. (\A m, n \in messages : SamePlace(m, n) => m = n)'
      BY <1>1 DEF Rows, Apart, SamePlace
    <2>4. (\A v \in Writer : \A m, n \in tx[v].rows : SamePlace(m, n) => m = n)'
      BY <1>1, <2>1 DEF Rows, Apart, SamePlace, Taken
    <2>5. (\A v \in Writer : \A m \in tx[v].rows : ~Taken(messages, m))'
      BY <1>1, <2>1 DEF Rows, Apart, SamePlace, Taken
    <2>6. (\A v, u \in Writer : \A m \in tx[v].rows, n \in tx[u].rows :
              m.conv = n.conv => v = u)'
      BY <1>1, <2>2 DEF Rows, Apart
    <2>7. QED
      BY <2>3, <2>4, <2>5, <2>6 DEF Apart
  <1>6. QED
    BY <1>3, <1>4, <1>5 DEF Rows

\* A commit keeps the rows in order.
LEMMA RowsCommit ==
    ASSUME TypeOK, Rows, NEW w \in Writer, Commit(w)
    PROVE  Rows'
  <1>1. /\ messages' = messages \cup tx[w].rows
        /\ tx'[w].rows = {}
        /\ \A v \in Writer \ {w} : tx'[v].rows = tx[v].rows
    BY OthersKeep DEF Commit, Begun
  <1>2. Finite'
    BY <1>1, FS_Union, FS_EmptySet DEF Finite, Rows
  <1>3. Contiguous'
    <2>1. \A c \in Conv : Of(messages, c)' = Visible(w, c)
      BY <1>1 DEF Visible, Of
    <2>2. ASSUME NEW v \in Writer, NEW c \in Conv
          PROVE  Visible(v, c)' \in {Visible(w, c), Visible(v, c)}
      <3>1. CASE v = w
        BY <1>1, <3>1 DEF Visible, Of
      <3>2. CASE v # w /\ \A m \in tx[w].rows : m.conv # c
        BY <1>1, <3>2 DEF Visible, Of
      <3>3. CASE v # w /\ \E m \in tx[w].rows : m.conv = c
        <4>1. \A m \in tx[v].rows : m.conv # c
          BY <3>3 DEF Rows, Apart
        <4>2. QED
          BY <1>1, <3>3, <4>1 DEF Visible, Of
      <3>4. QED
        BY <3>1, <3>2, <3>3
    <2>3. QED
      BY <2>1, <2>2 DEF Rows, Contiguous, Initial, Seqs
  <1>4. Apart'
    <2>1. (\A m, n \in messages : SamePlace(m, n) => m = n)'
      BY <1>1 DEF Rows, Apart, SamePlace, Taken
    <2>2. (\A v \in Writer : \A m, n \in tx[v].rows : SamePlace(m, n) => m = n)'
      BY <1>1 DEF Rows, Apart, SamePlace
    <2>3. (\A v \in Writer : \A m \in tx[v].rows : ~Taken(messages, m))'
      BY <1>1 DEF Rows, Apart, SamePlace, Taken
    <2>4. (\A v, u \in Writer : \A m \in tx[v].rows, n \in tx[u].rows :
              m.conv = n.conv => v = u)'
      BY <1>1 DEF Rows, Apart
    <2>5. QED
      BY <2>1, <2>2, <2>3, <2>4 DEF Apart
  <1>5. QED
    BY <1>2, <1>3, <1>4 DEF Rows

\* What a step of each kind does to the rows.
LEMMA RowsStep ==
    ASSUME TypeOK, Rows, SkipsNone, [Next]_vars
    PROVE  Rows'
  <1>1. ASSUME NEW w \in Writer, NEW c \in Conv, NEW msg \in Msg, Insert(w, c, msg)
        PROVE  Rows'
    BY <1>1, OthersKeep, RowsKept DEF Insert
  <1>2. ASSUME NEW w \in Writer, Lock(w)
        PROVE  Rows'
    BY <1>2, LockFields, RowsKept DEF Lock
  <1>3. ASSUME NEW w \in Writer, Number(w)
        PROVE  Rows'
    BY <1>3, OthersKeep, RowsKept DEF Number
  <1>4. ASSUME NEW w \in Writer, InsertRow(w)
        PROVE  Rows'
    BY <1>4, RowsInsert
  <1>5. ASSUME NEW w \in Writer, UniqueViolation(w) \/ Rollback(w)
        PROVE  Rows'
    BY <1>5, OthersKeep, RowsKept DEF UniqueViolation, Rollback, Begun
  <1>6. ASSUME NEW w \in Writer, Commit(w)
        PROVE  Rows'
    BY <1>6, RowsCommit
  <1>7. CASE Up \/ Down \/ UNCHANGED vars
    BY <1>7, RowsKept DEF Up, Down, Migrate, vars
  <1>8. ASSUME NEW r \in Reader, ReadPage(r)
        PROVE  Rows'
    BY <1>8, RowsKept DEF ReadPage
  <1>9. QED
    BY <1>1, <1>2, <1>3, <1>4, <1>5, <1>6, <1>7, <1>8 DEF Next

\* What a transaction sees only grows while it waits to insert.
LEMMA SeesMore ==
    ASSUME NEW v \in Writer, tx'[v] = tx[v], messages \subseteq messages', NEW c
    PROVE  Seqs(Visible(v, c)) \subseteq Seqs(Visible(v, c))'
  BY DEF Seqs, Visible, Of

\* A number given out may get old, but never skips one.
LEMMA SkipsStep ==
    ASSUME TypeOK, Rows, SkipsNone, [Next]_vars
    PROVE  SkipsNone'
  <1>1. messages \subseteq messages'
    BY DEF Next, vars, Insert, Lock, Number, InsertRow, Store, UniqueViolation,
           Commit, Rollback, Up, Down, Migrate, ReadPage
  <1> SUFFICES ASSUME NEW v \in Writer, At(v, "insert")'
               PROVE  (1..(tx[v].new.seq - 1) \subseteq Seqs(Visible(v, tx[v].new.conv)))'
    BY DEF SkipsNone
  <1>2. CASE tx'[v] = tx[v]
    BY <1>1, <1>2, SeesMore DEF SkipsNone, At
  <1>3. CASE Number(v)
    <2>1. PICK c \in Conv : c = tx[v].conv
      BY <1>3, TxFields DEF Number, At
    <2>2. PICK n \in Nat : /\ Seqs(Visible(v, c)) = 1..n
                           /\ NextSeq(Visible(v, c)) = n + 1
      BY VisibleType, NextOfSegment DEF Rows, Contiguous
    <2>3. /\ tx'[v].rows = tx[v].rows
          /\ tx'[v].new.conv = c
          /\ tx'[v].new.seq = n + 1
          /\ messages' = messages
      BY <1>3, <2>1, <2>2, OthersKeep DEF Number
    <2>4. Seqs(Visible(v, tx[v].new.conv))' = 1..n
      BY <2>2, <2>3 DEF Visible, Of, Seqs
    <2>5. (1..(tx[v].new.seq - 1))' = 1..n
      BY <2>3
    <2>6. QED
      BY <2>4, <2>5
  <1>4. CASE tx'[v] # tx[v] /\ ~Number(v)
    <2>1. ASSUME NEW c \in Conv, NEW msg \in Msg, Insert(v, c, msg)
          PROVE  FALSE
      BY <2>1, OthersKeep DEF Insert, At
    <2>2. CASE Lock(v)
      BY <2>2, LockFields DEF At
    <2>3. CASE InsertRow(v) \/ UniqueViolation(v) \/ Commit(v) \/ Rollback(v)
      BY <2>3, OthersKeep DEF InsertRow, Store, UniqueViolation, Commit, Rollback, Begun, At
    <2>4. CASE Up \/ Down \/ UNCHANGED vars \/ \E r \in Reader : ReadPage(r)
      BY <1>4, <2>4 DEF Up, Down, Migrate, vars, ReadPage
    <2>5. ASSUME NEW w \in Writer \ {v},
                 \/ \E c \in Conv, msg \in Msg : Insert(w, c, msg)
                 \/ Lock(w) \/ Number(w) \/ InsertRow(w) \/ UniqueViolation(w)
                 \/ Commit(w) \/ Rollback(w)
          PROVE  tx'[v] = tx[v]
      BY <2>5, OthersKeep DEF Insert, Lock, Number, InsertRow, Store, UniqueViolation,
                              Commit, Rollback
    <2>6. QED
      BY <1>4, <2>1, <2>2, <2>3, <2>4, <2>5 DEF Next
  <1>5. QED
    BY <1>2, <1>3, <1>4

(* ------------------------------- Paging -------------------------------- *)

Clients == UpToCursor /\ NothingMissed

\* What is committed is numbered after what was there.
LEMMA CommittedLater ==
    ASSUME TypeOK, Rows, NEW w \in Writer,
           NEW m \in messages, NEW k \in tx[w].rows, k.conv = m.conv
    PROVE  ~(k.seq <= m.seq)
  <1>1. /\ m \in Row /\ m.seq \in Nat /\ m.conv \in Conv
        /\ k \in Row /\ k.seq \in Nat \ {0}
    BY TxFields DEF TypeOK, Row
  <1>2. Seqs(Of(messages, m.conv)) \subseteq Nat
    BY <1>1 DEF Seqs, Of, TypeOK, Row
  <1>3. PICK n \in Nat : Seqs(Of(messages, m.conv)) = 1..n
    BY <1>1, <1>2 DEF Rows, Contiguous, Initial
  <1>4. m.seq \in 1..n
    BY <1>3 DEF Seqs, Of
  <1>5. k.seq \notin 1..n
    BY <1>3 DEF Seqs, Of, Rows, Apart, Taken, SamePlace
  <1>6. QED
    BY <1>1, <1>4, <1>5

\* A commit puts nothing behind a client's cursor.
LEMMA ClientsCommit ==
    ASSUME TypeOK, Rows, Clients, NEW w \in Writer, Commit(w)
    PROVE  Clients'
  <1>1. reader' = reader /\ messages' = messages \cup tx[w].rows
    BY DEF Commit, Step
  <1>2. NothingMissed'
    BY <1>1, CommittedLater DEF Clients, NothingMissed, Of
  <1>3. UpToCursor'
    <2> SUFFICES ASSUME NEW r \in Reader, ~reader[r].done
                 PROVE  {m \in Of(messages', reader[r].conv) : m.seq <= reader[r].cursor}
                            \subseteq reader[r].seen
      BY <1>1 DEF Clients, UpToCursor, Of
    <2> SUFFICES ASSUME NEW m \in tx[w].rows, m.conv = reader[r].conv,
                        m.seq <= reader[r].cursor
                 PROVE  FALSE
      BY <1>1 DEF Clients, UpToCursor, Of
    <2>1. m.seq \in Nat \ {0}
      BY TxFields DEF Row
    <2>2. CASE reader[r].cursor = 0
      BY <2>1, <2>2
    <2>3. CASE reader[r].cursor \in Seqs(reader[r].seen)
      <3>1. PICK k \in reader[r].seen : k.seq = reader[r].cursor
        BY <2>3 DEF Seqs
      <3>2. k \in messages /\ k.conv = reader[r].conv
        BY <3>1 DEF Clients, UpToCursor, Of
      <3>3. QED
        BY <3>1, <3>2, CommittedLater
    <2>4. QED
      BY <2>2, <2>3 DEF Clients, UpToCursor
  <1>4. QED
    BY <1>2, <1>3 DEF Clients

\* A page is all there is between the cursor and the last row of the page.
LEMMA PageClosed ==
    ASSUME TypeOK, Finite, NEW r \in Reader, NEW k \in After(r)
    PROVE  /\ \A m \in Fetched(r) : k.seq <= m.seq => k \in Fetched(r)
           /\ \A m \in First(Limit, Fetched(r)) :
                 k.seq <= m.seq => k \in First(Limit, Fetched(r))
  <1>1. Limit \in Nat /\ Limit + 1 \in Nat
    BY LimitAssumption
  <1>2. \A m \in Fetched(r) : k.seq <= m.seq => k \in Fetched(r)
    BY <1>1, PageRows, FirstClosed DEF Fetched
  <1>3. \A m \in First(Limit, Fetched(r)) :
            k.seq <= m.seq => k \in First(Limit, Fetched(r))
    BY <1>1, <1>2, PageRows, FirstClosed
  <1>4. QED
    BY <1>2, <1>3

\* A page goes on where the one before ended.
LEMMA ClientsRead ==
    ASSUME TypeOK, Finite, Clients, NEW r \in Reader, ReadPage(r)
    PROVE  Clients'
  <1> DEFINE rows == Fetched(r)
             hasMore == Cardinality(rows) > Limit
             page == IF hasMore THEN First(Limit, rows) ELSE rows
             stored == Of(messages, reader[r].conv)
  <1>1. /\ messages' = messages
        /\ \A q \in Reader \ {r} : reader'[q] = reader[q]
        /\ ~reader[r].done
        /\ reader'[r].conv = reader[r].conv
        /\ reader'[r].seen = reader[r].seen \cup page
        /\ reader'[r].cursor = IF hasMore THEN NextCursor(rows) ELSE 0
        /\ reader'[r].done = ~hasMore
    BY DEF ReadPage, TypeOK, Page
  <1>2. /\ reader[r].seen = {m \in stored : m.seq <= reader[r].cursor}
        /\ reader[r].cursor \in Nat
    BY <1>1 DEF Clients, UpToCursor, TypeOK, Page
  <1>3. /\ page \subseteq After(r)
        /\ After(r) \subseteq stored
    BY PageRows
  <1>4. \A m \in stored : m.seq \in Nat
    BY DEF Of, TypeOK, Row
  <1>5. \A m \in page, k \in After(r) : k.seq <= m.seq => k \in page
    BY PageClosed
  <1>6. \A k \in stored : k \in reader[r].seen \/ k \in After(r)
    BY <1>2, <1>4 DEF After
  <1>7. reader'[r].seen \subseteq stored
    BY <1>1, <1>2, <1>3
  <1>8. \A m \in reader'[r].seen, k \in stored : k.seq <= m.seq => k \in reader'[r].seen
    <2> SUFFICES ASSUME NEW m \in reader'[r].seen, NEW k \in stored, k.seq <= m.seq,
                        k \notin reader[r].seen
                 PROVE  k \in page
      BY <1>1
    <2>1. k \in After(r) /\ k.seq > reader[r].cursor
      BY <1>6 DEF After
    <2>2. m \notin reader[r].seen
      BY <1>2, <1>4, <1>7, <2>1
    <2>3. QED
      BY <1>1, <1>5, <2>1, <2>2
  <1>9. ASSUME hasMore
        PROVE  /\ reader'[r].seen = {m \in stored : m.seq <= reader'[r].cursor}
               /\ reader'[r].cursor \in Seqs(reader'[r].seen)
    <2> DEFINE last == LastOf(First(Limit, rows))
    <2>1. last \in page /\ \A k \in page : k.seq <= last.seq
      BY <1>9, PageNotEmpty
    <2>2. reader'[r].cursor = last.seq
      BY <1>1, <1>9 DEF NextCursor
    <2>3. last \in stored /\ last.seq > reader[r].cursor
      BY <1>3, <2>1 DEF After
    <2>4. \A m \in reader'[r].seen : m.seq <= last.seq
      BY <1>1, <1>2, <1>4, <2>1, <2>3
    <2>5. \A k \in stored : k.seq <= last.seq => k \in reader'[r].seen
      BY <1>1, <1>8, <2>1
    <2>6. QED
      BY <1>1, <1>7, <2>1, <2>2, <2>4, <2>5 DEF Seqs
  <1>10. NothingMissed'
    BY <1>1, <1>7, <1>8 DEF Clients, NothingMissed, Of
  <1>11. UpToCursor'
    <2> SUFFICES ASSUME NEW q \in Reader, ~reader'[q].done
                 PROVE  /\ reader'[q].seen = {m \in Of(messages', reader'[q].conv) :
                                                m.seq <= reader'[q].cursor}
                        /\ reader'[q].cursor \in {0} \cup Seqs(reader'[q].seen)
      BY DEF UpToCursor, Of, Seqs
    <2>1. CASE q = r
      BY <1>1, <1>9, <2>1
    <2>2. CASE q # r
      BY <1>1, <2>2 DEF Clients, UpToCursor, Of
    <2>3. QED
      BY <2>1, <2>2
  <1>12. QED
    BY <1>10, <1>11 DEF Clients

\* Every step keeps what clients were shown a beginning.
LEMMA ClientsStep ==
    ASSUME TypeOK, Rows, Clients, [Next]_vars
    PROVE  Clients'
  <1>1. CASE messages' = messages /\ reader' = reader
    BY <1>1 DEF Clients, UpToCursor, NothingMissed, Of, Seqs
  <1>2. ASSUME NEW w \in Writer, Commit(w)
        PROVE  Clients'
    BY <1>2, ClientsCommit
  <1>3. ASSUME NEW r \in Reader, ReadPage(r)
        PROVE  Clients'
    BY <1>3, ClientsRead DEF Rows
  <1>4. QED
    BY <1>1, <1>2, <1>3
    DEF Next, vars, Insert, Lock, Number, InsertRow, Store, UniqueViolation, Rollback,
        Up, Down, Migrate, Step

(* ------------------------------ Theorems ------------------------------- *)

\* IInv holds of the empty tables.
LEMMA InductiveInit == Init => IInv
  <1> SUFFICES ASSUME Init
               PROVE  IInv
    OBVIOUS
  <1>1. TypeOK
    <2>1. \A c \in Conv : Opened(c) \in Page
      BY DEF Opened, Page
    <2>2. reader \in [Reader -> Page]
      BY <2>1 DEF Init
    <2>3. QED
      BY <2>2, BegunType DEF Init, TypeOK
  <1>2. /\ messages = {}
        /\ \A w \in Writer : tx[w] = Begun /\ tx[w].rows = {}
        /\ \A r \in Reader : reader[r].seen = {} /\ reader[r].cursor = 0
    BY DEF Init, Begun, Opened
  <1>3. Finite
    BY <1>2, FS_EmptySet DEF Finite
  <1>4. Contiguous
    BY <1>2 DEF Contiguous, Initial, Seqs, Visible, Of
  <1>5. Apart /\ SkipsNone
    BY <1>2 DEF Apart, SkipsNone, At, Begun
  <1>6. UpToCursor /\ NothingMissed
    BY <1>2 DEF UpToCursor, NothingMissed, Of
  <1>7. QED
    BY <1>1, <1>3, <1>4, <1>5, <1>6 DEF IInv

\* IInv is inductive.
LEMMA InductiveStep ==
    ASSUME IInv, [Next]_vars
    PROVE  IInv'
  <1>1. TypeOK'
    BY TypeStep
  <1>2. Rows'
    BY RowsStep DEF IInv, Rows
  <1>3. SkipsNone'
    BY SkipsStep DEF IInv, Rows
  <1>4. Clients'
    BY ClientsStep DEF IInv, Rows, Clients
  <1>5. QED
    BY <1>1, <1>2, <1>3, <1>4 DEF IInv, Rows, Clients

\* IInv always holds.
LEMMA Inductive == Spec => []IInv
  BY InductiveInit, InductiveStep, PTL DEF Spec

\* Rows that form a segment, each number once, are numbered without gap.
LEMMA SegmentsNumbered ==
    ASSUME TypeOK, Rows
    PROVE  Gapless
  <1>1. \A m, n \in messages : SamePlace(m, n) => m = n
    BY DEF Rows, Apart
  <1>2. ASSUME NEW m \in messages, NEW k \in 1..m.seq
        PROVE  \E n \in messages : n.conv = m.conv /\ n.seq = k
    <2>1. m.conv \in Conv /\ m.seq \in Nat
      BY DEF TypeOK, Row
    <2>2. Seqs(Of(messages, m.conv)) \subseteq Nat
      BY DEF Seqs, Of, TypeOK, Row
    <2>3. PICK n \in Nat : Seqs(Of(messages, m.conv)) = 1..n
      BY <2>1, <2>2 DEF Rows, Contiguous, Initial
    <2>4. m.seq \in 1..n
      BY <2>3 DEF Seqs, Of
    <2>5. k \in Seqs(Of(messages, m.conv))
      BY <2>1, <2>3, <2>4
    <2>6. QED
      BY <2>5 DEF Seqs, Of
  <1>3. QED
    BY <1>1, <1>2 DEF Gapless, Numbered

\* Every state of the trigger, the transactions and the clients is well typed:
\* in particular a number given out is a positive integer.
THEOREM TypeCorrect == Spec => []TypeOK
  BY Inductive, PTL DEF IInv

\* The trigger with its unique constraint numbers each conversation 1, 2, 3, ...,
\* under either migration, however the transactions overlap.
THEOREM MessagesGapless == Spec => []Gapless
  <1>1. IInv => Gapless
    BY SegmentsNumbered DEF IInv, Rows
  <1>2. QED
    BY <1>1, Inductive, PTL

\* getMessages: a client never misses a message below one it was shown.
THEOREM NeverMissed == Spec => []NothingMissed
  BY Inductive, PTL DEF IInv

\* Fewer than n rows among the first n are all the rows.
LEMMA FewerAreAll ==
    ASSUME NEW rows \in SUBSET Row, IsFiniteSet(rows), NEW n \in Nat,
           ~(Cardinality(First(n + 1, rows)) > n)
    PROVE  First(n + 1, rows) = rows
  <1> SUFFICES ASSUME rows \ First(n + 1, rows) # {}
               PROVE  FALSE
    BY DEF First
  <1>1. PICK m \in rows \ First(n + 1, rows) :
            \A k \in rows \ First(n + 1, rows) : m.seq <= k.seq
    <2>1. /\ IsFiniteSet(rows \ First(n + 1, rows))
          /\ rows \ First(n + 1, rows) \in SUBSET Row
      BY FS_Subset
    <2>2. QED
      BY <2>1, LeastExists
  <1>2. Before(m, rows) \subseteq First(n + 1, rows)
    BY <1>1 DEF Before, Row
  <1>3. /\ IsFiniteSet(First(n + 1, rows))
        /\ IsFiniteSet(Before(m, rows))
    BY FS_Subset DEF First, Before
  <1>4. /\ Cardinality(Before(m, rows)) \in Nat
        /\ Cardinality(First(n + 1, rows)) \in Nat
        /\ Cardinality(Before(m, rows)) <= Cardinality(First(n + 1, rows))
    BY <1>2, <1>3, FS_Subset, FS_CardinalityType
  <1>5. ~(Cardinality(Before(m, rows)) < n + 1)
    BY <1>1 DEF First
  <1>6. QED
    BY <1>4, <1>5

\* getMessages: without a next cursor the client has the whole conversation.
THEOREM NoPageAfterLast == Spec => LastPageIsLast
  <1> DEFINE Told == \A r \in Reader : reader'[r].done /\ ~reader[r].done =>
                        reader'[r].seen = Of(messages, reader[r].conv)
  <1>1. ASSUME IInv, [Next]_vars
        PROVE  Told
    <2> SUFFICES ASSUME NEW r \in Reader, reader'[r].done, ~reader[r].done
                 PROVE  reader'[r].seen = Of(messages, reader[r].conv)
      OBVIOUS
    <2>1. PICK q \in Reader : ReadPage(q)
      BY <1>1 DEF Next, vars, Insert, Lock, Number, InsertRow, Store, UniqueViolation,
                  Commit, Rollback, Up, Down, Migrate, Step
    <2>2. q = r
      BY <1>1, <2>1 DEF ReadPage, IInv, TypeOK
    <2>3. /\ ~(Cardinality(Fetched(r)) > Limit)
          /\ reader'[r].seen = reader[r].seen \cup Fetched(r)
      BY <1>1, <2>1, <2>2 DEF ReadPage, IInv, TypeOK, Page
    <2>4. Fetched(r) = After(r)
      BY <1>1, <2>3, PageRows, FewerAreAll, LimitAssumption DEF Fetched, IInv
    <2>5. /\ reader[r].seen = {m \in Of(messages, reader[r].conv) :
                                  m.seq <= reader[r].cursor}
          /\ reader[r].cursor \in Nat
          /\ \A m \in Of(messages, reader[r].conv) : m.seq \in Nat
      BY <1>1 DEF IInv, UpToCursor, TypeOK, Page, Of, Row
    <2>6. QED
      BY <2>3, <2>4, <2>5 DEF After
  <1>2. QED
    BY <1>1, Inductive, PTL DEF Spec, LastPageIsLast

(* ------------------------------- The lock ------------------------------ *)

\* Nobody holds a lock in the beginning.
LEMMA LockInit == Init => LockInv
  BY DEF Init, LockInv, Begun, At

\* With the locking body, LockInv is inductive.
LEMMA LockStep ==
    ASSUME IInv, LockInv, body = "locking", [Next]_vars
    PROVE  LockInv'
  <1> USE DEF IInv
  <1>1. ASSUME NEW w \in Writer, NEW c \in Conv, NEW msg \in Msg, Insert(w, c, msg)
        PROVE  LockInv'
    BY <1>1, OthersKeep DEF Insert, LockInv, At, Visible
  <1>2. ASSUME NEW w \in Writer, Lock(w)
        PROVE  LockInv'
    <2>1. \A v \in Writer \ {w} : LockKey[tx[w].conv] \notin tx[v].keys
      BY <1>2 DEF Lock
    <2>2. messages' = messages
      BY <1>2 DEF Lock
    <2>3. QED
      BY <1>2, <2>1, <2>2, LockFields DEF LockInv, At, Visible
  <1>3. ASSUME NEW w \in Writer, Number(w)
        PROVE  LockInv'
    <2>1. PICK c \in Conv : c = tx[w].conv
      BY <1>3, TxFields DEF Number, At
    <2>2. PICK n \in Nat : /\ Seqs(Visible(w, c)) = 1..n
                           /\ NextSeq(Visible(w, c)) = n + 1
      BY VisibleType, NextOfSegment DEF Contiguous
    <2>3. /\ messages' = messages
          /\ tx'[w].rows = tx[w].rows
          /\ tx'[w].keys = tx[w].keys
          /\ tx'[w].pc = "insert"
          /\ tx'[w].new.conv = c
          /\ tx'[w].new.seq = n + 1
          /\ \A v \in Writer \ {w} : tx'[v] = tx[v]
      BY <1>3, <2>1, <2>2, OthersKeep DEF Number
    <2>4. LockKey[c] \in tx[w].keys
      BY <1>3, <2>1 DEF LockInv, Number
    <2>5. (tx[w].new.seq \notin Seqs(Visible(w, tx[w].new.conv)))'
      <3>1. Seqs(Visible(w, tx[w].new.conv))' = 1..n
        BY <2>2, <2>3 DEF Visible, Of, Seqs
      <3>2. QED
        BY <2>3, <3>1
    <2>6. ASSUME NEW v \in Writer \ {w}, At(v, "insert")'
          PROVE  (/\ LockKey[tx[v].new.conv] \in tx[v].keys
                  /\ tx[v].new.seq \notin Seqs(Visible(v, tx[v].new.conv)))'
      BY <2>3, <2>6 DEF LockInv, At, Visible, Of, Seqs
    <2>7. QED
      BY <2>3, <2>4, <2>5, <2>6 DEF LockInv, At
  <1>4. ASSUME NEW w \in Writer, InsertRow(w)
        PROVE  LockInv'
    <2>1. /\ messages' = messages
          /\ tx'[w] = [pc |-> "ready", rows |-> tx[w].rows \cup {tx[w].new},
                       keys |-> tx[w].keys]
          /\ \A v \in Writer \ {w} : tx'[v] = tx[v]
      BY <1>4, OthersKeep DEF InsertRow, Store
    <2>2. LockKey[tx[w].new.conv] \in tx[w].keys
      BY <1>4 DEF InsertRow, LockInv
    <2>3. QED
      BY <2>1, <2>2 DEF LockInv, At, Visible, Of, Seqs
  <1>5. ASSUME NEW w \in Writer, UniqueViolation(w) \/ Rollback(w)
        PROVE  LockInv'
    <2>1. /\ messages' = messages
          /\ tx'[w] = Begun
          /\ \A v \in Writer \ {w} : tx'[v] = tx[v]
      BY <1>5, OthersKeep DEF UniqueViolation, Rollback
    <2>2. QED
      BY <2>1 DEF LockInv, At, Visible, Of, Seqs, Begun
  <1>6. ASSUME NEW w \in Writer, Commit(w)
        PROVE  LockInv'
    <2>1. /\ messages' = messages \cup tx[w].rows
          /\ tx'[w] = Begun
          /\ \A v \in Writer \ {w} : tx'[v] = tx[v]
      BY <1>6, OthersKeep DEF Commit
    <2>2. ASSUME NEW v \in Writer \ {w}, At(v, "insert")
          PROVE  Visible(v, tx[v].new.conv)' = Visible(v, tx[v].new.conv)
      <3>1. \A m \in tx[w].rows : m.conv # tx[v].new.conv
        BY <2>2 DEF LockInv
      <3>2. QED
        BY <2>1, <3>1 DEF Visible, Of
    <2>3. ASSUME NEW v \in Writer, At(v, "insert")'
          PROVE  (/\ LockKey[tx[v].new.conv] \in tx[v].keys
                  /\ tx[v].new.seq \notin Seqs(Visible(v, tx[v].new.conv)))'
      <3>1. v # w /\ At(v, "insert")
        BY <2>1, <2>3 DEF At, Begun
      <3>2. QED
        BY <2>1, <2>2, <3>1 DEF LockInv, Seqs
    <2>4. QED
      BY <2>1, <2>3 DEF LockInv, At, Begun
  <1>7. CASE Up \/ Down \/ UNCHANGED vars \/ \E r \in Reader : ReadPage(r)
    <2>1. tx' = tx /\ messages' = messages
      BY <1>7 DEF Up, Down, Migrate, vars, ReadPage
    <2>2. QED
      BY <2>1 DEF LockInv, At, Visible
  <1>8. QED
    BY <1>1, <1>2, <1>3, <1>4, <1>5, <1>6, <1>7 DEF Next

\* Who holds the lock of a conversation meets no other there.
LEMMA LockNoConflict ==
    ASSUME TypeOK, LockInv
    PROVE  \A w \in Writer : ~Conflict(w)
  <1> SUFFICES ASSUME NEW w \in Writer, At(w, "insert")
               PROVE  ~Awaited(w) /\ ~Taken(messages \cup tx[w].rows, tx[w].new)
    BY DEF Conflict
  <1>1. ~Awaited(w)
    BY DEF LockInv, Awaited, Taken, SamePlace
  <1>2. ~Taken(messages \cup tx[w].rows, tx[w].new)
    BY DEF LockInv, Taken, SamePlace, Visible, Of, Seqs
  <1>3. QED
    BY <1>1, <1>2

\* AddLockToSequence: while the trigger takes the lock, no insertion meets the
\* number of another message, stored or pending.
THEOREM LockSuffices == Spec => LockPrevents
  <1>1. Init => LockInv
    BY LockInit
  <1>2. IInv /\ LockInv /\ body = "locking" /\ [Next]_vars => LockInv'
    BY LockStep
  <1>3. IInv /\ LockInv => \A w \in Writer : ~Conflict(w)
    BY LockNoConflict DEF IInv
  <1>4. QED
    BY <1>1, <1>2, <1>3, Inductive, PTL DEF Spec, LockPrevents

(* ------------------ MessageSequence implements MessageLog --------------- *)

\* Rows of one conversation with the numbers 1, ..., n.
Segment(rows, n) ==
    /\ rows \in SUBSET Row
    /\ IsFiniteSet(rows)
    /\ \A m, k \in rows : m.seq = k.seq => m = k
    /\ Seqs(rows) = 1..n

\* It has n rows.
LEMMA SegmentSize ==
    ASSUME NEW n \in Nat, NEW rows, Segment(rows, n)
    PROVE  Cardinality(rows) = n
  <1> DEFINE number == [m \in rows |-> m.seq]
  <1>1. number \in Surjection(rows, 1..n)
    <2>1. number \in [rows -> 1..n]
      BY DEF Segment, Seqs
    <2>2. \A k \in 1..n : \E m \in rows : number[m] = k
      BY DEF Segment, Seqs
    <2>3. QED
      BY <2>1, <2>2 DEF Surjection
  <1>2. number \in Injection(rows, 1..n)
    <2>1. number \in [rows -> 1..n]
      BY <1>1 DEF Surjection
    <2>2. \A m, k \in rows : number[m] = number[k] => m = k
      BY DEF Segment
    <2>3. QED
      BY <2>1, <2>2 DEF Injection, IsInjective
  <1>3. Cardinality(1..n) = Cardinality(rows)
    <2> HIDE DEF number
    <2> QED BY <1>1, <1>2, FS_Surjection DEF Segment
  <1>4. Cardinality(1..n) = n
    BY FS_Interval
  <1>5. QED
    BY <1>3, <1>4

\* Among its rows, the one with number k is the k-th.
LEMMA SegmentRank ==
    ASSUME NEW n \in Nat, NEW rows, Segment(rows, n), NEW m \in rows
    PROVE  /\ m.seq \in 1..n
           /\ Cardinality(Before(m, rows)) = m.seq - 1
           /\ Cardinality(UpTo(m, rows)) = m.seq
  <1>1. m.seq \in 1..n
    BY DEF Segment, Seqs
  <1>2. Segment(Before(m, rows), m.seq - 1)
    <2>1. IsFiniteSet(Before(m, rows))
      BY FS_Subset DEF Segment, Before
    <2>2. Seqs(Before(m, rows)) = 1..(m.seq - 1)
      BY <1>1 DEF Segment, Before, Seqs
    <2>3. QED
      BY <2>1, <2>2 DEF Segment, Before
  <1>3. Segment(UpTo(m, rows), m.seq)
    <2>1. IsFiniteSet(UpTo(m, rows))
      BY FS_Subset DEF Segment, UpTo
    <2>2. Seqs(UpTo(m, rows)) = 1..m.seq
      BY <1>1 DEF Segment, UpTo, Seqs
    <2>3. QED
      BY <2>1, <2>2 DEF Segment, UpTo
  <1>4. m.seq \in Nat /\ m.seq - 1 \in Nat
    BY <1>1
  <1>5. QED
    BY <1>1, <1>2, <1>3, <1>4, SegmentSize

\* In order, the i-th row is the one with number i.
LEMMA SegmentIth ==
    ASSUME NEW n \in Nat, NEW rows, Segment(rows, n), NEW i \in 1..n
    PROVE  Ith(rows, i) \in rows /\ Ith(rows, i).seq = i
  <1> DEFINE Here(m) == /\ Cardinality(Before(m, rows)) < i
                        /\ i <= Cardinality(UpTo(m, rows))
  <1>1. PICK m \in rows : m.seq = i
    BY DEF Segment, Seqs
  <1>2. Here(m)
    BY <1>1, SegmentRank
  <1>3. ASSUME NEW k \in rows, Here(k)
        PROVE  k.seq = i
    BY <1>3, SegmentRank
  <1>4. Ith(rows, i) = CHOOSE k \in rows : Here(k)
    BY DEF Ith
  <1>5. Ith(rows, i) \in rows /\ Here(Ith(rows, i))
    <2> HIDE DEF Here
    <2> QED BY <1>2, <1>4
  <1>6. QED
    BY <1>3, <1>5

\* Its messages in order are a sequence.
LEMMA SegmentInOrder ==
    ASSUME NEW n \in Nat, NEW rows, Segment(rows, n)
    PROVE  /\ InOrder(rows) \in Seq(Msg)
           /\ Len(InOrder(rows)) = n
           /\ \A i \in 1..n : InOrder(rows)[i] = Ith(rows, i).msg
  <1>1. InOrder(rows) = [i \in 1..n |-> Ith(rows, i).msg]
    BY SegmentSize DEF InOrder
  <1>2. \A i \in 1..n : Ith(rows, i).msg \in Msg
    BY SegmentIth DEF Segment, Row
  <1>3. QED
    BY <1>1, <1>2

\* Where rows are added to a segment, its messages stay, and in front.
LEMMA SegmentPrefix ==
    ASSUME NEW n \in Nat, NEW k \in Nat, NEW some, NEW rows, some \subseteq rows,
           Segment(some, k), Segment(rows, n)
    PROVE  IsPrefix(InOrder(some), InOrder(rows))
  <1>1. k <= n
    <2>1. CASE k = 0
      BY <2>1
    <2>2. CASE k # 0
      <3>1. k \in Seqs(some)
        BY <2>2 DEF Segment
      <3>2. k \in 1..n
        BY <3>1 DEF Segment, Seqs
      <3>3. QED
        BY <3>2
    <2>3. QED
      BY <2>1, <2>2
  <1>2. ASSUME NEW i \in 1..k
        PROVE  InOrder(some)[i] = InOrder(rows)[i]
    <2>1. i \in 1..n
      BY <1>1
    <2>2. Ith(some, i) = Ith(rows, i)
      <3>1. Ith(some, i) \in rows /\ Ith(some, i).seq = i
        BY SegmentIth
      <3>2. Ith(rows, i) \in rows /\ Ith(rows, i).seq = i
        BY <2>1, SegmentIth
      <3>3. QED
        BY <3>1, <3>2 DEF Segment
    <2>3. QED
      BY <2>1, <2>2, SegmentInOrder
  <1>3. /\ InOrder(some) \in Seq(Msg) /\ Len(InOrder(some)) = k
        /\ InOrder(rows) \in Seq(Msg) /\ Len(InOrder(rows)) = n
    BY SegmentInOrder
  <1> HIDE DEF InOrder
  <1>4. SubSeq(InOrder(some), 1, k) = SubSeq(InOrder(rows), 1, k)
    BY <1>1, <1>2, <1>3
  <1>5. QED
    BY <1>1, <1>3, <1>4 DEF IsPrefix

\* A conversation is a segment.
LEMMA ConversationSegment ==
    ASSUME IInv, NEW c \in Conv
    PROVE  \E n \in Nat : Segment(Of(messages, c), n)
  <1>1. Of(messages, c) \in SUBSET Row
    BY DEF IInv, TypeOK, Of
  <1>2. IsFiniteSet(Of(messages, c))
    BY FS_Subset DEF IInv, Finite, Of
  <1>3. PICK n \in Nat : Seqs(Of(messages, c)) = 1..n
    <2>1. Seqs(Of(messages, c)) \subseteq Nat
      BY <1>1 DEF Seqs, Row
    <2>2. QED
      BY <2>1 DEF IInv, Contiguous, Initial
  <1>4. \A m, k \in Of(messages, c) : m.seq = k.seq => m = k
    BY DEF IInv, Apart, SamePlace, Of
  <1>5. QED
    BY <1>1, <1>2, <1>3, <1>4 DEF Segment

\* What a client has been shown is a segment, too.
LEMMA SeenSegment ==
    ASSUME IInv, NEW r \in Reader
    PROVE  \E n \in Nat : Segment(reader[r].seen, n)
  <1> DEFINE all == Of(messages, reader[r].conv)
             seen == reader[r].seen
  <1>1. reader[r].conv \in Conv /\ seen \subseteq all
    BY DEF IInv, TypeOK, Page, NothingMissed
  <1>2. PICK n \in Nat : Segment(all, n)
    BY <1>1, ConversationSegment
  <1> HIDE DEF all, seen
  <1>3. /\ seen \in SUBSET Row
        /\ IsFiniteSet(seen)
        /\ \A m, k \in seen : m.seq = k.seq => m = k
    BY <1>1, <1>2, FS_Subset DEF Segment
  <1>4. CASE seen = {}
    <2>1. Seqs(seen) = 1..0
      BY <1>4 DEF Seqs
    <2>2. Segment(seen, 0)
      BY <1>3, <2>1 DEF Segment
    <2>3. QED
      BY <2>2 DEF seen
  <1>5. CASE seen # {}
    <2>1. /\ LastOf(seen) \in seen
          /\ \A k \in seen : k.seq <= LastOf(seen).seq
      BY <1>3, <1>5, LastExists
    <2>2. PICK last \in seen : \A k \in seen : k.seq <= last.seq
      BY <2>1
    <2>3. last.seq \in 1..n
      BY <1>1, <1>2, <2>2 DEF Segment, Seqs
    <2>4. \A m \in seen, k \in all : k.seq <= m.seq => k \in seen
      BY DEF IInv, NothingMissed, seen, all
    <2>5. Seqs(seen) \subseteq 1..last.seq
      BY <1>1, <1>2, <2>2, <2>3 DEF Segment, Seqs
    <2>6. ASSUME NEW i \in 1..last.seq
          PROVE  i \in Seqs(seen)
      <3>1. PICK k \in all : k.seq = i
        BY <1>2, <2>3 DEF Segment, Seqs
      <3>2. k \in seen
        BY <2>4, <3>1
      <3>3. QED
        BY <3>1, <3>2 DEF Seqs
    <2>7. Seqs(seen) = 1..last.seq
      BY <2>5, <2>6
    <2>8. Segment(seen, last.seq) /\ last.seq \in Nat
      BY <1>3, <2>3, <2>7 DEF Segment
    <2>9. QED
      BY <2>8 DEF seen
  <1>6. QED
    BY <1>4, <1>5

\* What the refinement mapping puts in order are segments.
Segmented ==
    /\ \A c \in Conv : \E n \in Nat : Segment(Of(messages, c), n)
    /\ \A r \in Reader : \E n \in Nat : Segment(reader[r].seen, n)

\* IsPrefix is the same in both modules.
LEMMA SamePrefix ==
    ASSUME NEW s, NEW t, IsPrefix(s, t)
    PROVE  AbstractLog!IsPrefix(s, t)
  BY DEF IsPrefix, AbstractLog!IsPrefix

\* A commit lets the conversations grow, each at its end.
LEMMA CommitGrows ==
    ASSUME Segmented, Segmented', NEW w \in Writer, Commit(w)
    PROVE  AbstractLog!Grow
  <1>1. messages \subseteq messages' /\ reader' = reader
    BY DEF Commit, Step
  <1>2. ASSUME NEW c \in Conv
        PROVE  /\ Log'[c] \in Seq(Msg)
               /\ IsPrefix(Log[c], Log'[c])
    <2>1. PICK k \in Nat : Segment(Of(messages, c), k)
      BY DEF Segmented
    <2>2. PICK n \in Nat : Segment(Of(messages', c), n)
      BY DEF Segmented
    <2>3. Of(messages, c) \subseteq Of(messages', c)
      BY <1>1 DEF Of
    <2>4. Log[c] = InOrder(Of(messages, c)) /\ Log'[c] = InOrder(Of(messages', c))
      BY DEF Log
    <2>5. QED
      BY <2>1, <2>2, <2>3, <2>4, SegmentPrefix, SegmentInOrder
  <1>3. Log' \in [Conv -> Seq(Msg)]
    BY <1>2 DEF Log
  <1>4. View' = View
    BY <1>1 DEF View
  <1>5. \A c \in Conv : AbstractLog!IsPrefix(Log[c], Log'[c])
    BY <1>2, SamePrefix
  <1>6. QED
    BY <1>3, <1>4, <1>5 DEF AbstractLog!Grow

\* A page shows its client more of the beginning of the conversation.
LEMMA ReadShows ==
    ASSUME IInv, NothingMissed', Segmented, Segmented', NEW r \in Reader, ReadPage(r)
    PROVE  AbstractLog!Show
  <1>1. /\ messages' = messages
        /\ \A q \in Reader \ {r} : reader'[q] = reader[q]
        /\ reader[r].seen \subseteq reader'[r].seen
        /\ reader'[r].conv = reader[r].conv
        /\ reader[r].conv \in Conv
    BY DEF ReadPage, IInv, TypeOK, Page
  <1>2. \A q \in Reader : View[q] = InOrder(reader[q].seen)
                             /\ View'[q] = InOrder(reader'[q].seen)
    BY DEF View
  <1>3. \A q \in Reader : \E n \in Nat : Segment(reader'[q].seen, n)
    BY DEF Segmented
  <1>4. View' \in [Reader -> Seq(Msg)]
    BY <1>2, <1>3, SegmentInOrder DEF View
  <1>5. IsPrefix(View[r], View'[r])
    <2>1. PICK k \in Nat : Segment(reader[r].seen, k)
      BY DEF Segmented
    <2>2. PICK n \in Nat : Segment(reader'[r].seen, n)
      BY <1>3
    <2>3. QED
      BY <1>1, <1>2, <2>1, <2>2, SegmentPrefix
  <1>6. IsPrefix(View'[r], Log[reader[r].conv])
    <2>1. PICK k \in Nat : Segment(reader'[r].seen, k)
      BY <1>3
    <2>2. PICK n \in Nat : Segment(Of(messages, reader[r].conv), n)
      BY <1>1 DEF Segmented
    <2>3. reader'[r].seen \subseteq Of(messages, reader[r].conv)
      <3>1. reader'[r].seen \subseteq Of(messages', reader'[r].conv)
        BY DEF NothingMissed
      <3>2. QED
        BY <1>1, <3>1
    <2>4. Log[reader[r].conv] = InOrder(Of(messages, reader[r].conv))
      BY <1>1 DEF Log
    <2>5. QED
      BY <1>2, <2>1, <2>2, <2>3, <2>4, SegmentPrefix
  <1>7. \A q \in Reader : View'[q] # View[q] => q = r
    BY <1>1, <1>2
  <1>8. Log' = Log
    BY <1>1 DEF Log
  <1>9. \A q \in Reader : View'[q] # View[q] =>
           /\ AbstractLog!IsPrefix(View[q], View'[q])
           /\ \E c \in Conv : AbstractLog!IsPrefix(View'[q], Log[c])
    BY <1>1, <1>5, <1>6, <1>7, SamePrefix
  <1>10. QED
    BY <1>4, <1>8, <1>9 DEF AbstractLog!Show

\* Each step is one of MessageLog's, or shows nothing there.
LEMMA LogStep ==
    ASSUME IInv, NothingMissed', Segmented, Segmented', [Next]_vars
    PROVE  AbstractLog!Next \/ UNCHANGED <<Log, View>>
  <1>1. CASE \E w \in Writer : Commit(w)
    BY <1>1, CommitGrows DEF AbstractLog!Next
  <1>2. CASE \E r \in Reader : ReadPage(r)
    BY <1>2, ReadShows DEF AbstractLog!Next
  <1>3. CASE messages' = messages /\ reader' = reader
    BY <1>3 DEF Log, View
  <1>4. QED
    BY <1>1, <1>2, <1>3
       DEF Next, vars, Insert, Lock, Number, InsertRow, Store, UniqueViolation,
           Rollback, Up, Down, Migrate, Step

\* The trigger and the pages implement a log that grows at its end, of which
\* each client is shown a beginning.
THEOREM Implementation == Spec => ImplementsLog
  <1>1. Init => AbstractLog!Init
    <2> SUFFICES ASSUME Init
                 PROVE  AbstractLog!Init
      OBVIOUS
    <2>1. InOrder({}) = <<>>
      BY FS_EmptySet DEF InOrder
    <2>2. /\ \A c \in Conv : Of(messages, c) = {}
          /\ \A r \in Reader : reader[r].seen = {}
      BY DEF Init, Of, Opened
    <2>3. QED
      BY <2>1, <2>2 DEF AbstractLog!Init, Log, View
  <1>2. IInv => NothingMissed /\ Segmented
    BY ConversationSegment, SeenSegment DEF IInv, Segmented
  <1>3. IInv /\ NothingMissed' /\ Segmented /\ Segmented' /\ [Next]_vars =>
           [AbstractLog!Next]_<<Log, View>>
    BY LogStep
  <1>4. QED
    BY <1>1, <1>2, <1>3, Inductive, PTL DEF Spec, ImplementsLog, AbstractLog!Spec
=============================================================================
