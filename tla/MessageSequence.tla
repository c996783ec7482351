--------------------------- MODULE MessageSequence ---------------------------
(***************************************************************************)
(* The numbering of messages.  agent-core, another service, writes them in  *)
(* transactions of its own; a trigger of the messages table gives each the  *)
(* next number of its conversation; this service reads them page by page.   *)
(* The transactions are READ COMMITTED: each statement, also within the     *)
(* trigger, sees what is committed when it starts, and the transaction's    *)
(* own rows.  A conversation is not deleted while it is written or read.    *)
(***************************************************************************)
EXTENDS Naturals, FiniteSets, SequencesExt

CONSTANTS
    Conv,
    Msg,        \* each is stored at most once: the bound on the table
    Writer,     \* transactions of agent-core that may be open at a time
    Reader,     \* clients paging through a conversation
    Key,        \* advisory locks
    LockKey,    \* hashtext of a conversation's id: two may share a lock
    Limit       \* messages to a page

ASSUME KeyAssumption   == LockKey \in [Conv -> Key]
ASSUME LimitAssumption == Limit \in Nat \ {0}

VARIABLES
    body,       \* of the trigger's function, as the migrations left it
    messages,   \* the committed rows
    tx,         \* each transaction: where it is, its own rows, the locks it holds
    reader      \* each client: its cursor, what it was shown, nothing more to come

vars == <<body, messages, tx, reader>>

Row  == [conv: Conv, seq: Nat \ {0}, msg: Msg]
Tx   == [pc: {"ready"}, rows: SUBSET Row, keys: SUBSET Key]
        \cup [pc: {"lock", "number"}, rows: SUBSET Row, keys: SUBSET Key,
              conv: Conv, msg: Msg]
        \cup [pc: {"insert"}, rows: SUBSET Row, keys: SUBSET Key, new: Row]
Page == [conv: Conv, cursor: Nat, seen: SUBSET Row, done: BOOLEAN]

Opened(c) == [conv |-> c, cursor |-> 0, seen |-> {}, done |-> FALSE]
Begun     == [pc |-> "ready", rows |-> {}, keys |-> {}]
At(w, l)  == tx[w].pc = l
Step(w, t) == /\ tx' = [tx EXCEPT ![w] = t]
              /\ UNCHANGED <<body, reader>>

Of(rows, c) == {m \in rows : m.conv = c}
Seqs(rows)  == {m.seq : m \in rows}

\* What w's statements see of a conversation.
Visible(w, c) == Of(messages \cup tx[w].rows, c)

Init ==
    /\ body \in {"plain", "locking"}
    /\ messages = {}
    /\ tx = [w \in Writer |-> Begun]
    /\ \E c \in [Reader -> Conv] : reader = [r \in Reader |-> Opened(c[r])]

-----------------------------------------------------------------------------
(* agent-core and the trigger.                                             *)

Stored(msg) ==
    \/ \E m \in messages : m.msg = msg
    \/ \E w \in Writer : \/ \E m \in tx[w].rows : m.msg = msg
                         \/ tx[w].pc \in {"lock", "number"} /\ tx[w].msg = msg
                         \/ At(w, "insert") /\ tx[w].new.msg = msg

\* INSERT INTO messages: the trigger starts, in the body that is installed now.
Insert(w, c, msg) ==
    /\ At(w, "ready")
    /\ ~Stored(msg)
    /\ Step(w, [pc |-> IF body = "locking" THEN "lock" ELSE "number",
                rows |-> tx[w].rows, keys |-> tx[w].keys, conv |-> c, msg |-> msg])
    /\ UNCHANGED messages

\* pg_advisory_xact_lock: waits while another transaction has the lock, and
\* gives it back when the transaction ends.
Lock(w) ==
    /\ At(w, "lock")
    /\ \A v \in Writer \ {w} : LockKey[tx[w].conv] \notin tx[v].keys
    /\ Step(w, [tx[w] EXCEPT !.pc = "number", !.keys = @ \cup {LockKey[tx[w].conv]}])
    /\ UNCHANGED messages

\* COALESCE(MAX(sequence_number), 0) + 1.
\* Mutant of NextSeq: the last number once more.
LastSeq(rows) == Max({0} \cup Seqs(rows))
NextSeq(rows) == LastSeq(rows) + 1
Number(w) ==
    /\ At(w, "number")
    /\ Step(w, [pc |-> "insert", rows |-> tx[w].rows, keys |-> tx[w].keys,
                new |-> [conv |-> tx[w].conv, seq |-> NextSeq(Visible(w, tx[w].conv)),
                         msg |-> tx[w].msg]])
    /\ UNCHANGED messages

SamePlace(m, n)  == m.conv = n.conv /\ m.seq = n.seq
Taken(rows, new) == \E m \in rows : SamePlace(m, new)
Awaited(w)       == \E v \in Writer \ {w} : Taken(tx[v].rows, tx[w].new)

\* The statement ends; keys are the locks the transaction goes on holding.
Store(w, keys) ==
    /\ Step(w, [pc |-> "ready", rows |-> tx[w].rows \cup {tx[w].new}, keys |-> keys])
    /\ UNCHANGED messages

\* Mutant of InsertRow: no unique constraint.
InsertUnchecked(w) == At(w, "insert") /\ Store(w, tx[w].keys)

\* Mutant of InsertRow: the locks end with the statement.
InsertUnlocking(w) ==
    /\ At(w, "insert")
    /\ ~Awaited(w)
    /\ ~Taken(messages \cup tx[w].rows, tx[w].new)
    /\ Store(w, {})

\* @Unique(conversationId, sequenceNumber): the insertion waits for a transaction
\* that has the same number pending, and fails when the number is stored.
InsertRow(w) ==
    /\ At(w, "insert")
    /\ ~Awaited(w)
    /\ ~Taken(messages \cup tx[w].rows, tx[w].new)
    /\ Store(w, tx[w].keys)

UniqueViolation(w) ==
    /\ At(w, "insert")
    /\ ~Awaited(w)
    /\ Taken(messages \cup tx[w].rows, tx[w].new)
    /\ Step(w, Begun)
    /\ UNCHANGED messages

Commit(w) ==
    /\ At(w, "ready") /\ tx[w].rows # {}
    /\ messages' = messages \cup tx[w].rows
    /\ Step(w, Begun)

\* agent-core gives up or dies, or Postgres ends a deadlock.
Rollback(w) ==
    /\ tx[w] # Begun
    /\ Step(w, Begun)
    /\ UNCHANGED messages

-----------------------------------------------------------------------------
(* The migrations.  CREATE OR REPLACE FUNCTION waits for no transaction.   *)

Migrate(from, to) ==
    /\ body = from
    /\ body' = to
    /\ UNCHANGED <<messages, tx, reader>>
Up   == Migrate("plain", "locking")
Down == Migrate("locking", "plain")

-----------------------------------------------------------------------------
(* getMessages and getSessionMessages.                                     *)

\* ORDER BY sequence_number ASC, the first n.
Before(m, rows) == {k \in rows : k.seq < m.seq}
First(n, rows)  == {m \in rows : Cardinality(Before(m, rows)) < n}
LastOf(rows)    == CHOOSE m \in rows : \A k \in rows : k.seq <= m.seq

After(r) == {m \in Of(messages, reader[r].conv) : m.seq > reader[r].cursor}

\* Mutant of Fetched: take(limit).
WithoutExtra(r)     == First(Limit, After(r))
Fetched(r)          == First(Limit + 1, After(r))
\* Mutant of NextCursor: of all rows that were fetched.
CursorOfExtra(rows) == LastOf(rows).seq
NextCursor(rows)    == LastOf(First(Limit, rows)).seq

ReadPage(r) ==
    /\ ~reader[r].done
    /\ LET rows    == Fetched(r)
           hasMore == Cardinality(rows) > Limit
       IN reader' = [reader EXCEPT
              ![r].seen   = @ \cup (IF hasMore THEN First(Limit, rows) ELSE rows),
              ![r].cursor = IF hasMore THEN NextCursor(rows) ELSE 0,
              ![r].done   = ~hasMore]
    /\ UNCHANGED <<body, messages, tx>>

Next ==
    \/ \E w \in Writer :
          \/ \E c \in Conv, msg \in Msg : Insert(w, c, msg)
          \/ Lock(w) \/ Number(w) \/ InsertRow(w) \/ UniqueViolation(w)
          \/ Commit(w) \/ Rollback(w)
    \/ Up \/ Down
    \/ \E r \in Reader : ReadPage(r)

Spec == Init /\ [][Next]_vars

-----------------------------------------------------------------------------
\* The table, the transactions and the clients are well typed; numbers are
\* positive.
TypeOK ==
    /\ body \in {"plain", "locking"}
    /\ messages \subseteq Row
    /\ tx \in [Writer -> Tx]
    /\ reader \in [Reader -> Page]

Numbered(rows) ==
    /\ \A m, n \in rows : SamePlace(m, n) => m = n
    /\ \A m \in rows : \A k \in 1..m.seq : \E n \in rows : n.conv = m.conv /\ n.seq = k

\* "Per-conversation monotonic counter": a conversation's messages are numbered
\* 1, 2, 3, ... without gap or repetition, whichever body the trigger had,
\* however transactions overlap and whether or not they roll back.
Gapless == Numbered(messages)

\* "Pass cursor = last seen sequence_number for next page": a client never
\* misses a message below one it was shown, though messages are committed
\* between its pages (no message ever turns up behind a cursor).
NothingMissed ==
    \A r \in Reader :
        /\ reader[r].seen \subseteq Of(messages, reader[r].conv)
        /\ \A m \in reader[r].seen, k \in Of(messages, reader[r].conv) :
              k.seq <= m.seq => k \in reader[r].seen

\* "Fetch one extra to detect if there's a next page": a client is told that
\* there is no next page only when it has everything.
LastPageIsLast ==
    [][\A r \in Reader : reader'[r].done /\ ~reader[r].done =>
          reader'[r].seen = Of(messages, reader[r].conv)]_vars

Conflict(w) == At(w, "insert") /\ (Awaited(w) \/ Taken(messages \cup tx[w].rows, tx[w].new))

\* AddLockToSequence: "This queues concurrent inserts for the same
\* conversation".  With the lock in place throughout, no insertion meets the
\* number of another transaction.
LockPrevents == [](body = "locking") => [](\A w \in Writer : ~Conflict(w))

\* The refinement mapping: rows in the order of their numbers.
UpTo(m, rows) == {k \in rows : k.seq <= m.seq}
Ith(rows, i)  == CHOOSE m \in rows : /\ Cardinality(Before(m, rows)) < i
                                    /\ i <= Cardinality(UpTo(m, rows))
InOrder(rows) == [i \in 1..Cardinality(rows) |-> Ith(rows, i).msg]
Log  == [c \in Conv |-> InOrder(Of(messages, c))]
View == [r \in Reader |-> InOrder(reader[r].seen)]
AbstractLog == INSTANCE MessageLog WITH log <- Log, view <- View

\* Read in order (getMessages), the rows are the conversation: a log that grows
\* at its end, of which each client sees a beginning.
ImplementsLog == AbstractLog!Spec

-----------------------------------------------------------------------------
(* The inductive invariants.                                               *)

\* What is visible to a transaction is numbered without a gap, a conversation
\* has at most one transaction with rows pending, and a number given out may be
\* old but never skips one.
Initial(seqs) == \E n \in {0} \cup seqs : seqs = 1..n

Finite == IsFiniteSet(messages) /\ \A w \in Writer : IsFiniteSet(tx[w].rows)

Contiguous ==
    /\ \A c \in Conv : Initial(Seqs(Of(messages, c)))
    /\ \A w \in Writer, c \in Conv : Initial(Seqs(Visible(w, c)))

Apart ==
    /\ \A m, n \in messages : SamePlace(m, n) => m = n
    /\ \A w \in Writer : \A m, n \in tx[w].rows : SamePlace(m, n) => m = n
    /\ \A w \in Writer : \A m \in tx[w].rows : ~Taken(messages, m)
    /\ \A v, w \in Writer : \A m \in tx[v].rows, n \in tx[w].rows :
          m.conv = n.conv => v = w

SkipsNone ==
    \A w \in Writer : At(w, "insert") =>
        1..(tx[w].new.seq - 1) \subseteq Seqs(Visible(w, tx[w].new.conv))

\* A client that goes on has been shown all there is up to its cursor, which is
\* the number of a message it was shown.
UpToCursor ==
    \A r \in Reader : ~reader[r].done =>
        /\ reader[r].seen = {m \in Of(messages, reader[r].conv) : m.seq <= reader[r].cursor}
        /\ reader[r].cursor \in {0} \cup Seqs(reader[r].seen)

IInv == TypeOK /\ Finite /\ Contiguous /\ Apart /\ SkipsNone /\ UpToCursor /\ NothingMissed

\* With the lock in place, who has rows pending in a conversation, or a number
\* for it, holds its lock, and the number is still the next one.
LockInv ==
    /\ \A v, w \in Writer : v # w => tx[v].keys \cap tx[w].keys = {}
    /\ \A w \in Writer : \A m \in tx[w].rows : LockKey[m.conv] \in tx[w].keys
    /\ \A w \in Writer : At(w, "number") => LockKey[tx[w].conv] \in tx[w].keys
    /\ \A w \in Writer : At(w, "insert") =>
          /\ LockKey[tx[w].new.conv] \in tx[w].keys
          /\ tx[w].new.seq \notin Seqs(Visible(w, tx[w].new.conv))
=============================================================================
