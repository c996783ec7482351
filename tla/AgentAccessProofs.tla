------------------------- MODULE AgentAccessProofs -------------------------
(***************************************************************************)
(* Theorems about AgentAccess, for any sets of members, agents and slots.   *)
(***************************************************************************)
EXTENDS AgentAccess, TLAPS

(* ------------------------- Locks and transactions ------------------------ *)

LEMMA OnUnion ==
    ASSUME NEW locks, NEW more, NEW mode
    PROVE  On(locks \cup more, mode) = On(locks, mode) \cup On(more, mode)
  BY DEF On

LEMMA OnLocks ==
    ASSUME NEW things, NEW mode
    PROVE  /\ On(Locks(mode, things), mode) = things
           /\ \A other : other # mode => On(Locks(mode, things), other) = {}
  <1>1. \A l \in Locks(mode, things) : l.mode = mode /\ l.on \in things
    BY DEF Locks
  <1>2. ASSUME NEW x \in things
        PROVE  x \in On(Locks(mode, things), mode)
    <2>1. [mode |-> mode, on |-> x] \in Locks(mode, things)
      BY DEF Locks
    <2>2. QED
      BY <2>1 DEF On
  <1>3. QED
    BY <1>1, <1>2 DEF On

LEMMA OnSubset ==
    ASSUME NEW locks, NEW more, locks \subseteq more, NEW mode
    PROVE  On(locks, mode) \subseteq On(more, mode)
  BY DEF On

\* A lock, told from its mode and what it is on.
LEMMA OnMember ==
    ASSUME NEW locks, locks \subseteq Lock, NEW mode, NEW x
    PROVE  x \in On(locks, mode) <=> [mode |-> mode, on |-> x] \in locks
  <1>1. \A l \in locks : l = [mode |-> l.mode, on |-> l.on]
    BY DEF Lock
  <1>2. QED
    BY <1>1 DEF On

\* The fields of a transaction.
LEMMA Fields ==
    ASSUME NEW t \in Transaction
    PROVE  /\ t.pc \in {"deleteRows", "selectRows", "refer", "cascade", "commit"}
           /\ t.kind \in {"update", "removeMember", "remove"}
           /\ t.of \in Member \cup Agent
           /\ t.ids \in AgentIds
           /\ t.left \subseteq Lock /\ t.held \subseteq Lock
           /\ t.found \subseteq AccessRow /\ t.late \subseteq AccessRow
  BY DEF Transaction

LEMMA Under ==
    ASSUME TypeOK, NEW r \in Req
    PROVE  /\ ~At(r, "idle") => tx[r] \in Transaction
           /\ At(r, "idle") => tx[r] = Idle
           /\ tx[r].left \subseteq Lock /\ tx[r].held \subseteq Lock
  <1>1. tx[r] \in {Idle} \cup Transaction
    BY DEF TypeOK
  <1>2. CASE tx[r] = Idle
    BY <1>2 DEF Idle, At
  <1>3. CASE tx[r] \in Transaction
    BY <1>3, Fields DEF At
  <1>4. QED
    BY <1>1, <1>2, <1>3

\* What a transaction asked for, and the rows it sees.
LEMMA AskedRows ==
    ASSUME NEW t \in Transaction, t.of \in Member
    PROVE  /\ Asked(t) \subseteq AccessRow
           /\ \A row \in Asked(t) : row.user = t.of
  <1>1. t.ids \in AgentIds
    BY Fields
  <1>2. UNION t.ids \subseteq Agent
    BY <1>1 DEF AgentIds
  <1>3. QED
    BY <1>2 DEF Asked, AccessRow

\* The rows of a member are its own, those of an agent the agent's.
LEMMA RowsOfOne ==
    ASSUME TypeOK, NEW x
    PROVE  /\ RowsOf(x) \subseteq AccessRow
           /\ \A row \in RowsOf(x) : x \in {row.user, row.agent}
           /\ x \in Member => \A row \in RowsOf(x) : row.user = x
           /\ x \in Agent => \A row \in RowsOf(x) : row.agent = x
  <1>1. \A row \in access : row \in AccessRow /\ row.user \in Member /\ row.agent \in Agent
    BY DEF TypeOK, AccessRow
  <1>2. QED
    BY <1>1, IdAssumption DEF RowsOf

(* ----------------------------- One slot steps ---------------------------- *)

\* A step of one slot that writes no table keeps types, what is in the tables, and
\* what is said of the other slots.
LEMMA OneSlot ==
    ASSUME IInv, NEW r \in Req, NEW t \in {Idle} \cup Transaction,
           tx' = [tx EXCEPT ![r] = t], UNCHANGED <<members, agents, access>>,
           \A q \in Req \ {r} : \A h \in t.held, g \in tx[q].held : ~Conflict(h, g),
           t # Idle => OwnDeletes(t) /\ OwnInserts(t) /\ Covered(t) /\ Valid(t)
    PROVE  IInv'
  <1>1. /\ tx'[r] = t
        /\ \A q \in Req \ {r} : tx'[q] = tx[q]
        /\ tx' \in [Req -> {Idle} \cup Transaction]
    BY DEF IInv, TypeOK
  <1>2. TypeOK'
    <2>1. ASSUME NEW p \in Req, NEW q \in Req, p # q,
                 NEW h \in tx'[p].held, NEW g \in tx'[q].held
          PROVE  ~Conflict(h, g)
      <3>1. CASE p = r
        BY <1>1, <2>1, <3>1
      <3>2. CASE q = r
        BY <1>1, <2>1, <3>2 DEF Conflict
      <3>3. CASE p # r /\ q # r
        BY <1>1, <2>1, <3>3 DEF IInv, TypeOK
      <3>4. QED
        BY <3>1, <3>2, <3>3
    <2>2. QED
      BY <1>1, <2>1 DEF IInv, TypeOK
  <1>3. NoneDangling'
    BY DEF IInv, NoneDangling
  <1>4. ASSUME NEW q \in Req, ~At(q, "idle")'
        PROVE  (OwnDeletes(tx[q]) /\ OwnInserts(tx[q]) /\ Covered(tx[q]) /\ Valid(tx[q]))'
    <2>1. CASE q = r
      <3>1. t # Idle
        BY <1>1, <1>4, <2>1 DEF At, Idle
      <3>2. OwnDeletes(t) /\ OwnInserts(t) /\ Covered(t)' /\ Valid(t)'
        BY <3>1 DEF Covered, Valid, RowsOf
      <3>3. QED
        BY <1>1, <2>1, <3>2 DEF OwnDeletes, OwnInserts, Covered, Valid
    <2>2. CASE q # r
      <3>1. tx'[q] = tx[q]
        BY <1>1, <2>2
      <3>2. ~At(q, "idle")
        BY <1>4, <3>1 DEF At
      <3>3. OwnDeletes(tx[q]) /\ OwnInserts(tx[q]) /\ Covered(tx[q]) /\ Valid(tx[q])
        BY <3>2 DEF IInv
      <3>4. Covered(tx[q])' /\ Valid(tx[q])'
        <4>1. \A x : RowsOf(x)' = RowsOf(x)
          BY DEF RowsOf
        <4>2. Covered(tx[q])'
          BY <3>1, <3>3, <4>1 DEF Covered
        <4>3. Valid(tx[q])'
          BY <3>1, <3>3 DEF Valid
        <4>4. QED
          BY <4>2, <4>3
      <3>5. OwnDeletes(tx[q])' /\ OwnInserts(tx[q])'
        <4>1. PICK u : u = tx[q]
          OBVIOUS
        <4>2. OwnDeletes(u) /\ OwnInserts(u) /\ tx'[q] = u
          BY <3>1, <3>3, <4>1
        <4>3. OwnDeletes(tx[q])'
          BY <4>2 DEF OwnDeletes
        <4>4. OwnInserts(tx[q])'
          BY <4>2 DEF OwnInserts
        <4>5. QED
          BY <4>3, <4>4
      <3>6. QED
        BY <3>4, <3>5
    <2>3. QED
      BY <2>1, <2>2
  <1>5. QED
    BY <1>2, <1>3, <1>4 DEF IInv

\* A transaction as it is granted a lock.
LEMMA TakeType ==
    ASSUME NEW t \in Transaction, NEW l \in t.left
    PROVE  LET u == [t EXCEPT !.left = @ \ {l}, !.held = @ \cup {l}]
           IN /\ u \in Transaction
              /\ u.left = t.left \ {l} /\ u.held = t.held \cup {l}
              /\ u.pc = t.pc /\ u.kind = t.kind /\ u.of = t.of /\ u.ids = t.ids
              /\ u.found = t.found /\ u.late = t.late
  <1>1. t.left \subseteq Lock /\ t.held \subseteq Lock
    BY Fields
  <1>2. QED
    BY <1>1 DEF Transaction

\* What a transaction that has all its locks is about.
LEMMA ReadyIs ==
    ASSUME NEW r \in Req, TypeOK, NEW pc, pc # "idle", Ready(r, pc)
    PROVE  /\ tx[r] \in Transaction /\ tx[r].pc = pc /\ tx[r].left = {}
           /\ Pending(tx[r]) = tx[r].held
           /\ Rows(tx[r]) = Writes(tx[r], "delete")
           /\ New(tx[r]) = Writes(tx[r], "insert")
  <1>1. tx[r] \in Transaction /\ tx[r].pc = pc /\ tx[r].left = {}
    BY Under DEF Ready, At
  <1>2. Pending(tx[r]) = tx[r].held
    BY <1>1 DEF Pending
  <1>3. QED
    BY <1>1, <1>2 DEF Rows, New, Writes

LEMMA RolledBack ==
    ASSUME IInv, NEW r \in Req, Rollback(r)
    PROVE  IInv'
  <1>1. Idle.held = {}
    BY DEF Idle
  <1>2. QED
    BY <1>1, OneSlot DEF Rollback

LEMMA BeginSteps ==
    ASSUME IInv, NEW r \in Req, Call(r)
    PROVE  IInv'
  <1>0. TypeOK
    BY DEF IInv
  <1>1. ASSUME NEW m \in members, NEW ids \in AgentIds,
               Begin(r, "deleteRows", "update", m, ids, {})
        PROVE  IInv'
    <2> DEFINE t == [pc |-> "deleteRows", kind |-> "update", of |-> m, ids |-> ids,
                     left |-> {}, held |-> {}, found |-> {}, late |-> {}]
    <2>1. t \in Transaction /\ m \in Member
      BY <1>0 DEF Transaction, TypeOK
    <2>2. Rows(t) = {} /\ New(t) = {}
      BY DEF Rows, New, Pending, On
    <2>3. OwnDeletes(t) /\ OwnInserts(t) /\ Covered(t)
      BY <2>1, <2>2 DEF OwnDeletes, OwnInserts, Covered
    <2>4. Valid(t)
      BY DEF Valid, On
    <2>5. tx' = [tx EXCEPT ![r] = t] /\ UNCHANGED <<members, agents, access>>
      BY <1>1 DEF Begin
    <2>6. t.held = {}
      OBVIOUS
    <2> HIDE DEF t
    <2>7. QED
      BY <2>1, <2>3, <2>4, <2>5, <2>6, OneSlot
  <1>2. ASSUME NEW x, NEW kind \in {"removeMember", "remove"},
               x \in (IF kind = "remove" THEN Agent ELSE Member),
               Begin(r, "cascade", kind, x, {}, Locks("delete", {x}))
        PROVE  IInv'
    <2> DEFINE t == [pc |-> "cascade", kind |-> kind, of |-> x, ids |-> {},
                     left |-> Locks("delete", {x}), held |-> {}, found |-> {}, late |-> {}]
    <2>1. Locks("delete", {x}) \subseteq Lock /\ x \in Member \cup Agent
      BY <1>2 DEF Locks, Lock
    <2>2. t \in Transaction
      BY <2>1 DEF Transaction, AgentIds
    <2>3. Pending(t) = Locks("delete", {x})
      BY DEF Pending
    <2>4. Rows(t) = {x} /\ New(t) = {} /\ [mode |-> "delete", on |-> x] \in Pending(t)
      <3>1. On(Pending(t), "delete") = {x} /\ On(Pending(t), "insert") = {}
        <4>1. /\ On(Locks("delete", {x}), "delete") = {x}
              /\ On(Locks("delete", {x}), "insert") = {}
          BY OnLocks
        <4> HIDE DEF t
        <4>2. QED
          BY <2>3, <4>1
      <3>2. [mode |-> "delete", on |-> x] \in Pending(t)
        BY <2>3 DEF Locks
      <3>3. QED
        BY <3>1, <3>2 DEF Rows, New
    <2>5. OwnDeletes(t)
      BY <1>2, <2>4 DEF OwnDeletes
    <2>6. OwnInserts(t) /\ Covered(t)
      BY <1>2, <2>4 DEF OwnInserts, Covered
    <2>7. Valid(t)
      BY DEF Valid, On
    <2>8. tx' = [tx EXCEPT ![r] = t] /\ UNCHANGED <<members, agents, access>>
      BY <1>2 DEF Begin
    <2>9. t.held = {}
      OBVIOUS
    <2> HIDE DEF t
    <2>10. QED
      BY <2>2, <2>5, <2>6, <2>7, <2>8, <2>9, OneSlot
  <1>3. CASE UpdateAgentAccess(r)
    BY <1>1, <1>3 DEF UpdateAgentAccess
  <1>4. CASE RemoveMember(r)
    BY <1>0, <1>2, <1>4 DEF RemoveMember, TypeOK
  <1>5. CASE RemoveAgent(r)
    BY <1>0, <1>2, <1>5 DEF RemoveAgent, TypeOK
  <1>6. QED
    BY <1>3, <1>4, <1>5 DEF Call

(* ---------------------------- One by one: locks -------------------------- *)

LEMMA Taken ==
    ASSUME IInv, NEW r \in Req, Take(r)
    PROVE  IInv'
  <1>0. TypeOK
    BY DEF IInv
  <1>1. PICK l \in tx[r].left :
            /\ Granted(r, l)
            /\ IF Refused(r, l) THEN Rollback(r)
               ELSE /\ tx' = [tx EXCEPT ![r].left = @ \ {l}, ![r].held = @ \cup {l}]
                    /\ UNCHANGED <<members, agents, access>>
    BY DEF Take
  <1>2. CASE Refused(r, l)
    BY <1>1, <1>2, RolledBack
  <1>3. CASE ~Refused(r, l)
    <2> DEFINE t == tx[r]
               u == [t EXCEPT !.left = @ \ {l}, !.held = @ \cup {l}]
    <2>1. ~At(r, "idle") /\ t \in Transaction
      BY <1>0, <1>1, Under DEF Idle
    <2>2. /\ OwnDeletes(t) /\ OwnInserts(t) /\ Covered(t) /\ Valid(t)
      BY <2>1 DEF IInv
    <2>3. tx' = [tx EXCEPT ![r] = u] /\ UNCHANGED <<members, agents, access>>
      BY <1>0, <1>1, <1>3 DEF TypeOK
    <2>4. /\ u \in Transaction
          /\ u.left = t.left \ {l} /\ u.held = t.held \cup {l}
          /\ u.pc = t.pc /\ u.kind = t.kind /\ u.of = t.of /\ u.ids = t.ids
          /\ u.found = t.found /\ u.late = t.late
      BY <2>1, TakeType
    <2>5. l \in Lock
      BY <2>1, Fields
    <2> HIDE DEF t, u
    <2>6. Pending(u) = Pending(t)
      BY <1>1, <2>4 DEF Pending, t
    <2>7. Rows(u) = Rows(t) /\ New(u) = New(t) /\ Asked(u) = Asked(t)
      BY <2>4, <2>6 DEF Rows, New, Asked
    <2>8. OwnDeletes(u)
      BY <2>2, <2>4, <2>6, <2>7 DEF OwnDeletes
    <2>9. OwnInserts(u)
      <3>1. On(u.left, "insert") \subseteq On(t.left, "insert")
        BY <2>4, OnSubset
      <3>2. QED
        BY <2>2, <2>4, <2>6, <2>7, <3>1 DEF OwnInserts
    <2>10. Covered(u)
      BY <2>2, <2>4, <2>7 DEF Covered
    <2>11. Valid(u)
      <3>1. \A mode : On(u.held, mode) = On(t.held, mode) \cup On({l}, mode)
        BY <2>4, OnUnion
      <3>2. \A mode : On({l}, mode) = IF l.mode = mode THEN {l.on} ELSE {}
        BY DEF On
      <3>3. On({l}, "share") \subseteq members \cup agents
        BY <1>3, <3>2 DEF Refused
      <3>4. Writes(t, "delete") \subseteq Writes(u, "delete")
        BY <3>1 DEF Writes
      <3>5. On({l}, "insert") \cap (access \ Writes(t, "delete")) = {}
        BY <1>3, <3>2 DEF Refused, t
      <3>6. QED
        BY <2>2, <3>1, <3>3, <3>4, <3>5 DEF Valid
    <2>12. \A q \in Req \ {r} : \A h \in u.held, g \in tx[q].held : ~Conflict(h, g)
      <3>1. ASSUME NEW q \in Req \ {r}, NEW h \in u.held, NEW g \in tx[q].held
            PROVE  ~Conflict(h, g)
        <4>1. CASE h \in t.held
          BY <1>0, <3>1, <4>1 DEF TypeOK, t
        <4>2. CASE h = l
          BY <1>1, <3>1, <4>2 DEF Granted, Conflict
        <4>3. QED
          BY <2>4, <3>1, <4>1, <4>2
      <3>2. QED
        BY <3>1
    <2>13. QED
      BY <2>3, <2>4, <2>8, <2>9, <2>10, <2>11, <2>12, OneSlot
  <1>4. QED
    BY <1>2, <1>3

(* ------------------------------- Statements ------------------------------ *)

\* A statement of a transaction that has its locks, and holds no more for it.
LEMMA Stated ==
    ASSUME IInv, NEW r \in Req, NEW u \in Transaction, ~At(r, "idle"),
           u.held = tx[r].held,
           tx' = [tx EXCEPT ![r] = u], UNCHANGED <<members, agents, access>>,
           OwnDeletes(u), OwnInserts(u), Covered(u)
    PROVE  IInv'
  <1>1. Valid(u)
    BY DEF IInv, Valid, Writes
  <1>2. \A q \in Req \ {r} : \A h \in u.held, g \in tx[q].held : ~Conflict(h, g)
    BY DEF IInv, TypeOK
  <1>3. QED
    BY <1>1, <1>2, OneSlot

LEMMA GoStep ==
    ASSUME TypeOK, NEW r \in Req, tx[r] \in Transaction, NEW left \in SUBSET Lock,
           NEW pc \in {"deleteRows", "selectRows", "refer", "cascade", "commit"},
           Go(r, pc, left)
    PROVE  \E u \in Transaction :
              /\ tx' = [tx EXCEPT ![r] = u]
              /\ u.pc = pc /\ u.left = left
              /\ u.kind = tx[r].kind /\ u.of = tx[r].of /\ u.ids = tx[r].ids
              /\ u.held = tx[r].held /\ u.found = tx[r].found /\ u.late = tx[r].late
  <1> DEFINE u == [tx[r] EXCEPT !.pc = pc, !.left = left]
  <1>1. tx' = [tx EXCEPT ![r] = u]
    BY DEF TypeOK, Go
  <1>2. /\ u \in Transaction
        /\ u.pc = pc /\ u.left = left
        /\ u.kind = tx[r].kind /\ u.of = tx[r].of /\ u.ids = tx[r].ids
        /\ u.held = tx[r].held /\ u.found = tx[r].found /\ u.late = tx[r].late
    BY DEF Transaction
  <1> HIDE DEF u
  <1>3. QED
    BY <1>1, <1>2

\* What is pending in a transaction that holds what it held and goes on to take
\* locks of one mode.
LEMMA PendingAfter ==
    ASSUME NEW t, NEW u, NEW mode, NEW things,
           Pending(t) = t.held, u.held = t.held, u.left = Locks(mode, things)
    PROVE  /\ Pending(u) = t.held \cup Locks(mode, things)
           /\ mode = "delete" => Rows(u) = Rows(t) \cup things /\ New(u) = New(t)
           /\ mode = "insert" => Rows(u) = Rows(t) /\ New(u) = New(t) \cup things
  <1>1. Pending(u) = t.held \cup Locks(mode, things)
    BY DEF Pending
  <1>2. \A m : On(Pending(u), m) = On(Pending(t), m) \cup On(Locks(mode, things), m)
    BY <1>1, OnUnion
  <1>3. /\ On(Locks(mode, things), mode) = things
        /\ \A m : m # mode => On(Locks(mode, things), m) = {}
    BY OnLocks
  <1>4. On(Pending(u), mode) = On(Pending(t), mode) \cup things
    BY <1>2, <1>3
  <1>5. \A m : m # mode => On(Pending(u), m) = On(Pending(t), m)
    BY <1>2, <1>3
  <1>6. QED
    BY <1>1, <1>4, <1>5 DEF Rows, New

LEMMA LocksType ==
    /\ \A rows \in SUBSET AccessRow : /\ Locks("delete", rows) \subseteq Lock
                                      /\ Locks("insert", rows) \subseteq Lock
    /\ \A ids \in SUBSET (Member \cup Agent) : Locks("share", ids) \subseteq Lock
  BY DEF Locks, Lock

LEMMA DeleteRowsKeeps ==
    ASSUME IInv, NEW r \in Req, DeleteRows(r)
    PROVE  IInv'
  <1> DEFINE t == tx[r]
             rows == RowsOf(t.of)
  <1>0. TypeOK
    BY DEF IInv
  <1>1. /\ t \in Transaction /\ t.pc = "deleteRows" /\ t.left = {}
        /\ Pending(t) = t.held
    BY <1>0, ReadyIs DEF DeleteRows
  <1>2. OwnDeletes(t) /\ OwnInserts(t) /\ Covered(t) /\ ~At(r, "idle")
    BY <1>1 DEF IInv, At
  <1>3. t.kind = "update" /\ t.of \in Member
    BY <1>1, <1>2 DEF OwnDeletes
  <1>4. rows \subseteq AccessRow /\ \A row \in rows : row.user = t.of
    BY <1>0, <1>3, RowsOfOne
  <1>5. PICK u \in Transaction :
            /\ tx' = [tx EXCEPT ![r] = u]
            /\ u.pc = "selectRows" /\ u.left = Locks("delete", rows)
            /\ u.kind = t.kind /\ u.of = t.of /\ u.ids = t.ids
            /\ u.held = t.held /\ u.found = t.found /\ u.late = t.late
    BY <1>0, <1>1, <1>4, LocksType, GoStep DEF DeleteRows
  <1> HIDE DEF t, rows
  <1>6. Rows(u) = Rows(t) \cup rows /\ New(u) = New(t)
    BY <1>1, <1>5, PendingAfter
  <1>7. OwnDeletes(u)
    BY <1>2, <1>3, <1>4, <1>5, <1>6 DEF OwnDeletes
  <1>8. OwnInserts(u)
    BY <1>1, <1>2, <1>5, <1>6 DEF OwnInserts
  <1>9. Covered(u)
    BY <1>2, <1>3, <1>5, <1>6 DEF Covered, rows
  <1>10. UNCHANGED <<members, agents, access>>
    BY DEF DeleteRows
  <1>11. QED
    BY <1>2, <1>5, <1>7, <1>8, <1>9, <1>10, Stated DEF t

LEMMA SelectRowsKeeps ==
    ASSUME IInv, NEW r \in Req, SelectRows(r)
    PROVE  IInv'
  <1> DEFINE t == tx[r]
             found == Asked(t) \cap Visible(t)
             new == Asked(t) \ found
             u == [t EXCEPT !.pc = AfterSelect(new), !.found = found,
                            !.left = Locks("insert", new)]
  <1>0. TypeOK
    BY DEF IInv
  <1>1. /\ t \in Transaction /\ t.pc = "selectRows" /\ t.left = {}
        /\ Pending(t) = t.held /\ Rows(t) = Writes(t, "delete")
    BY <1>0, ReadyIs DEF SelectRows
  <1>2. OwnDeletes(t) /\ OwnInserts(t) /\ Covered(t) /\ ~At(r, "idle")
    BY <1>1 DEF IInv, At
  <1>3. t.kind = "update" /\ t.of \in Member
    BY <1>1, <1>2 DEF OwnDeletes
  <1>4. Asked(t) \subseteq AccessRow /\ \A row \in Asked(t) : row.user = t.of
    BY <1>1, <1>3, AskedRows
  <1>5. tx' = [tx EXCEPT ![r] = u] /\ UNCHANGED <<members, agents, access>>
    BY <1>0 DEF SelectRows, TypeOK
  <1>6. /\ u \in Transaction
        /\ u.pc = AfterSelect(new) /\ u.left = Locks("insert", new) /\ u.found = found
        /\ u.kind = t.kind /\ u.of = t.of /\ u.ids = t.ids
        /\ u.held = t.held /\ u.late = t.late
    <2>1. Locks("insert", new) \subseteq Lock /\ found \subseteq AccessRow
      BY <1>4, LocksType
    <2>2. AfterSelect(new) \in {"refer", "commit"}
      BY DEF AfterSelect
    <2> HIDE DEF new, found
    <2>3. QED
      BY <1>1, <2>1, <2>2 DEF Transaction
  <1>7. found \subseteq t.late
    <2>1. RowsOf(t.of) \subseteq Rows(t) \cup t.late
      BY <1>1, <1>2, <1>3 DEF Covered
    <2>2. found \subseteq RowsOf(t.of) \ Rows(t)
      BY <1>1, <1>4 DEF RowsOf, Visible
    <2>3. QED
      BY <2>1, <2>2
  <1> HIDE DEF u, t
  <1>8. Rows(u) = Rows(t) /\ New(u) = New(t) \cup new /\ Asked(u) = Asked(t)
    <2>1. Asked(u) = Asked(t)
      BY <1>6 DEF Asked
    <2> HIDE DEF new
    <2>2. Rows(u) = Rows(t) /\ New(u) = New(t) \cup new
      BY <1>1, <1>6, PendingAfter
    <2>3. QED
      BY <2>1, <2>2
  <1>9. OwnDeletes(u)
    <2>1. u.pc # "cascade"
      BY <1>6 DEF AfterSelect
    <2>2. QED
      BY <1>2, <1>3, <1>6, <1>8, <2>1 DEF OwnDeletes
  <1>10. OwnInserts(u)
    <2>1. New(t) = {}
      BY <1>1, <1>2 DEF OwnInserts
    <2>2. u.pc = "commit" => new = {} /\ On(u.left, "insert") = {}
      BY <1>6, OnLocks DEF AfterSelect
    <2>3. u.pc \in {"refer", "commit"} /\ u.kind = "update"
      BY <1>3, <1>6 DEF AfterSelect
    <2>4. New(u) = Asked(u) \ u.found
      BY <1>6, <1>8, <2>1
    <2>5. u.pc = "commit" => New(u) = {}
      BY <1>8, <2>1, <2>2
    <2>6. QED
      BY <2>2, <2>3, <2>4, <2>5 DEF OwnInserts
  <1>11. Covered(u)
    BY <1>1, <1>2, <1>3, <1>6, <1>7, <1>8 DEF Covered
  <1>12. QED
    BY <1>2, <1>5, <1>6, <1>9, <1>10, <1>11, Stated DEF t

LEMMA ReferKeeps ==
    ASSUME IInv, NEW r \in Req, Refer(r)
    PROVE  IInv'
  <1> DEFINE t == tx[r]
             keys == UNION {KeysOf(row) : row \in Writes(t, "insert")}
  <1>0. TypeOK
    BY DEF IInv
  <1>1. /\ t \in Transaction /\ t.pc = "refer" /\ t.left = {}
        /\ Pending(t) = t.held /\ New(t) = Writes(t, "insert")
    BY <1>0, ReadyIs DEF Refer
  <1>2. OwnDeletes(t) /\ OwnInserts(t) /\ Covered(t) /\ ~At(r, "idle")
    BY <1>1 DEF IInv, At
  <1>3. t.kind = "update" /\ t.of \in Member
    BY <1>1, <1>2 DEF OwnDeletes
  <1>4. keys \subseteq Member \cup Agent
    <2>1. New(t) \subseteq AccessRow
      BY <1>1, <1>2, <1>3, AskedRows DEF OwnInserts
    <2>2. QED
      BY <1>1, <2>1 DEF AccessRow, KeysOf
  <1>5. PICK u \in Transaction :
            /\ tx' = [tx EXCEPT ![r] = u]
            /\ u.pc = "commit" /\ u.left = Locks("share", keys)
            /\ u.kind = t.kind /\ u.of = t.of /\ u.ids = t.ids
            /\ u.held = t.held /\ u.found = t.found /\ u.late = t.late
    <2>1. Go(r, "commit", Locks("share", keys))
      BY DEF Refer
    <2> HIDE DEF keys
    <2>2. Locks("share", keys) \subseteq Lock
      BY <1>4, LocksType
    <2>3. QED
      BY <1>0, <1>1, <2>1, <2>2, GoStep
  <1>6. \A row \in Writes(t, "insert") : Locks("share", KeysOf(row)) \subseteq Locks("share", keys)
    BY DEF Locks
  <1> HIDE DEF t, keys
  <1>7. /\ Rows(u) = Rows(t) /\ New(u) = New(t) /\ Asked(u) = Asked(t)
        /\ Pending(u) = t.held \cup Locks("share", keys)
    <2>1. Asked(u) = Asked(t)
      BY <1>5 DEF Asked
    <2>2. Pending(u) = t.held \cup Locks("share", keys)
      BY <1>5 DEF Pending
    <2>3. \A mode : mode # "share" => On(Pending(u), mode) = On(Pending(t), mode)
      <3>1. ASSUME NEW mode, mode # "share"
            PROVE  On(Pending(u), mode) = On(Pending(t), mode)
        <4>1. On(Pending(u), mode) = On(t.held, mode) \cup On(Locks("share", keys), mode)
          BY <2>2, OnUnion
        <4>2. On(Locks("share", keys), mode) = {}
          BY <3>1, OnLocks
        <4>3. QED
          BY <1>1, <4>1, <4>2
      <3>2. QED
        BY <3>1
    <2>4. QED
      BY <2>1, <2>2, <2>3 DEF Rows, New
  <1>8. OwnDeletes(u)
    BY <1>2, <1>3, <1>5, <1>7 DEF OwnDeletes
  <1>9. OwnInserts(u)
    <2>1. On(u.left, "insert") = {}
      BY <1>5, OnLocks
    <2>2. \A row \in New(u) : Locks("share", KeysOf(row)) \subseteq Pending(u)
      BY <1>1, <1>6, <1>7
    <2>3. New(u) = Asked(u) \ u.found
      BY <1>1, <1>2, <1>3, <1>5, <1>7 DEF OwnInserts
    <2>4. QED
      BY <1>3, <1>5, <2>1, <2>2, <2>3 DEF OwnInserts
  <1>10. Covered(u)
    BY <1>1, <1>2, <1>3, <1>5, <1>7 DEF Covered
  <1>11. UNCHANGED <<members, agents, access>>
    BY DEF Refer
  <1>12. QED
    BY <1>2, <1>5, <1>8, <1>9, <1>10, <1>11, Stated DEF t

LEMMA CascadeKeeps ==
    ASSUME IInv, NEW r \in Req, Cascade(r)
    PROVE  IInv'
  <1> DEFINE t == tx[r]
             rows == RowsOf(t.of)
  <1>0. TypeOK
    BY DEF IInv
  <1>1. /\ t \in Transaction /\ t.pc = "cascade" /\ t.left = {}
        /\ Pending(t) = t.held
    BY <1>0, ReadyIs DEF Cascade
  <1>2. OwnDeletes(t) /\ OwnInserts(t) /\ Covered(t) /\ ~At(r, "idle")
    BY <1>1 DEF IInv, At
  <1>3. t.kind # "update" /\ t.of \in (IF t.kind = "remove" THEN Agent ELSE Member)
    BY <1>1, <1>2 DEF OwnDeletes
  <1>4. rows \subseteq AccessRow /\ \A row \in rows : t.of \in {row.user, row.agent}
    BY <1>0, RowsOfOne
  <1>5. PICK u \in Transaction :
            /\ tx' = [tx EXCEPT ![r] = u]
            /\ u.pc = "commit" /\ u.left = Locks("delete", rows)
            /\ u.kind = t.kind /\ u.of = t.of /\ u.ids = t.ids
            /\ u.held = t.held /\ u.found = t.found /\ u.late = t.late
    BY <1>0, <1>1, <1>4, LocksType, GoStep DEF Cascade
  <1> HIDE DEF t, rows
  <1>6. Rows(u) = Rows(t) \cup rows /\ New(u) = New(t)
    <2>1. Pending(t) = t.held /\ u.held = t.held /\ u.left = Locks("delete", rows)
      BY <1>1, <1>5
    <2>2. QED
      BY <2>1, PendingAfter
  <1>7. OwnDeletes(u)
    <2>1. [mode |-> "delete", on |-> t.of] \in u.held
      BY <1>1, <1>2, <1>3, <1>5 DEF OwnDeletes
    <2>2. \A x \in Rows(u) \ {t.of} : x \in AccessRow /\ t.of \in {x.user, x.agent}
      BY <1>1, <1>2, <1>3, <1>4, <1>6 DEF OwnDeletes
    <2>3. QED
      BY <1>3, <1>5, <2>1, <2>2 DEF OwnDeletes
  <1>8. OwnInserts(u)
    <2>1. New(u) = {}
      BY <1>2, <1>3, <1>6 DEF OwnInserts
    <2>2. On(u.left, "insert") = {}
      BY <1>5, OnLocks
    <2>3. QED
      BY <1>3, <1>5, <2>1, <2>2 DEF OwnInserts
  <1>9. Covered(u)
    BY <1>3, <1>5, <1>6 DEF Covered, rows
  <1>10. UNCHANGED <<members, agents, access>>
    BY DEF Cascade
  <1>11. QED
    BY <1>2, <1>5, <1>7, <1>8, <1>9, <1>10, Stated DEF t

(* --------------------------------- Commit -------------------------------- *)

\* The transaction that commits.
LEMMA Committing ==
    ASSUME IInv, NEW r \in Req, Commit(r)
    PROVE  /\ tx[r] \in Transaction /\ tx[r].pc = "commit" /\ tx[r].left = {}
           /\ Pending(tx[r]) = tx[r].held
           /\ Rows(tx[r]) = Writes(tx[r], "delete") /\ New(tx[r]) = Writes(tx[r], "insert")
           /\ tx[r].held \subseteq Lock
           /\ OwnDeletes(tx[r]) /\ OwnInserts(tx[r]) /\ Covered(tx[r]) /\ Valid(tx[r])
           /\ members' = members \ Rows(tx[r]) /\ agents' = agents \ Rows(tx[r])
           /\ access' = (access \ Rows(tx[r])) \cup New(tx[r])
  <1>1. /\ tx[r] \in Transaction /\ tx[r].pc = "commit" /\ tx[r].left = {}
        /\ Pending(tx[r]) = tx[r].held
        /\ Rows(tx[r]) = Writes(tx[r], "delete") /\ New(tx[r]) = Writes(tx[r], "insert")
    BY ReadyIs DEF Commit, IInv
  <1>2. OwnDeletes(tx[r]) /\ OwnInserts(tx[r]) /\ Covered(tx[r]) /\ Valid(tx[r])
    BY <1>1 DEF IInv, At
  <1>3. /\ members' = members \ Rows(tx[r]) /\ agents' = agents \ Rows(tx[r])
        /\ access' = (access \ Rows(tx[r])) \cup New(tx[r])
    BY <1>1 DEF Commit
  <1>4. QED
    BY <1>1, <1>2, <1>3, Fields

\* An update deletes and inserts rows of its member, whose keys are there.
LEMMA CommitUpdate ==
    ASSUME IInv, NEW r \in Req, Commit(r), tx[r].kind = "update"
    PROVE  /\ members' = members /\ agents' = agents
           /\ tx[r].of \in Member
           /\ \A x \in Rows(tx[r]) : x \in AccessRow /\ x.user = tx[r].of
           /\ New(tx[r]) = Asked(tx[r]) \ tx[r].found
           /\ \A x \in New(tx[r]) : /\ x \in AccessRow /\ x.user = tx[r].of
                                    /\ x.user \in members /\ x.agent \in agents
           /\ \A x \in New(tx[r]) : \A key \in {x.user, x.agent} :
                 [mode |-> "share", on |-> key] \in tx[r].held
  <1> DEFINE t == tx[r]
  <1>0. members \subseteq Member /\ agents \subseteq Agent
    BY DEF IInv, TypeOK
  <1>1. /\ t \in Transaction /\ t.pc = "commit" /\ Pending(t) = t.held /\ t.held \subseteq Lock
        /\ OwnDeletes(t) /\ OwnInserts(t) /\ Valid(t)
        /\ members' = members \ Rows(t) /\ agents' = agents \ Rows(t)
    BY Committing
  <1> HIDE DEF t
  <1>2. t.of \in Member /\ \A x \in Rows(t) : x \in AccessRow /\ x.user = t.of
    BY <1>1 DEF OwnDeletes, t
  <1>3. members' = members /\ agents' = agents
    BY <1>0, <1>1, <1>2, IdAssumption
  <1>4. New(t) = Asked(t) \ t.found
    BY <1>1 DEF OwnInserts, t
  <1>5. \A x \in New(t) : x \in AccessRow /\ x.user = t.of
    BY <1>1, <1>2, <1>4, AskedRows
  <1>6. ASSUME NEW x \in New(t), NEW key \in {x.user, x.agent}
        PROVE  [mode |-> "share", on |-> key] \in t.held /\ key \in members \cup agents
    <2>1. Locks("share", KeysOf(x)) \subseteq t.held
      BY <1>1, <1>6 DEF OwnInserts
    <2>2. [mode |-> "share", on |-> key] \in t.held
      BY <1>6, <2>1 DEF Locks, KeysOf
    <2>3. key \in On(t.held, "share")
      BY <1>1, <2>2, OnMember
    <2>4. QED
      BY <1>1, <2>2, <2>3 DEF Valid
  <1>7. ASSUME NEW x \in New(t)
        PROVE  x.user \in members /\ x.agent \in agents
    <2>1. x.user \in Member /\ x.agent \in Agent
      BY <1>5, <1>7 DEF AccessRow
    <2>2. QED
      BY <1>0, <1>6, <1>7, <2>1, IdAssumption
  <1>8. QED
    BY <1>2, <1>3, <1>4, <1>5, <1>6, <1>7 DEF t

\* A removal deletes what it was called for, and all rows of it.
LEMMA CommitRemoval ==
    ASSUME IInv, NEW r \in Req, Commit(r), tx[r].kind # "update"
    PROVE  /\ tx[r].of \in (IF tx[r].kind = "remove" THEN Agent ELSE Member)
           /\ members' = members \ {tx[r].of} /\ agents' = agents \ {tx[r].of}
           /\ access' = access \ RowsOf(tx[r].of)
           /\ New(tx[r]) = {}
  <1> DEFINE t == tx[r]
  <1>0. TypeOK /\ members \subseteq Member /\ agents \subseteq Agent /\ access \subseteq AccessRow
    BY DEF IInv, TypeOK
  <1>1. /\ t \in Transaction /\ t.pc = "commit" /\ Pending(t) = t.held /\ t.held \subseteq Lock
        /\ OwnDeletes(t) /\ OwnInserts(t) /\ Covered(t)
        /\ members' = members \ Rows(t) /\ agents' = agents \ Rows(t)
        /\ access' = (access \ Rows(t)) \cup New(t)
    BY Committing
  <1>2. t.kind # "update"
    OBVIOUS
  <1> HIDE DEF t
  <1>3. /\ t.of \in (IF t.kind = "remove" THEN Agent ELSE Member)
        /\ [mode |-> "delete", on |-> t.of] \in t.held
        /\ \A x \in Rows(t) \ {t.of} : x \in AccessRow /\ t.of \in {x.user, x.agent}
    BY <1>1, <1>2 DEF OwnDeletes
  <1>4. t.of \in Rows(t)
    BY <1>1, <1>3, OnMember DEF Rows
  <1>5. New(t) = {}
    BY <1>1, <1>2 DEF OwnInserts
  <1>6. RowsOf(t.of) \subseteq Rows(t)
    BY <1>1, <1>2 DEF Covered
  <1>7. members' = members \ {t.of} /\ agents' = agents \ {t.of}
    BY <1>0, <1>1, <1>3, <1>4, IdAssumption
  <1>8. access' = access \ RowsOf(t.of)
    <2>1. ASSUME NEW x \in access
          PROVE  x \in Rows(t) <=> x \in RowsOf(t.of)
      BY <1>0, <1>3, <1>6, <2>1, IdAssumption DEF RowsOf
    <2>2. QED
      BY <1>1, <1>5, <2>1
  <1>9. QED
    BY <1>3, <1>5, <1>7, <1>8 DEF t

\* What others that are under way lose and learn by a commit.
Skipped(r) == IF tx[r].kind = "update" THEN Locks("delete", Rows(tx[r])) ELSE {}
LEMMA CommitOthers ==
    ASSUME IInv, NEW r \in Req, Commit(r)
    PROVE  /\ tx'[r] = Idle
           /\ \A q \in Req \ {r} :
                 \/ tx[q].pc \in {"idle", "deleteRows"} /\ tx'[q] = tx[q]
                 \/ /\ tx[q] \in Transaction /\ tx'[q] \in Transaction
                    /\ tx'[q].left = tx[q].left \ Skipped(r)
                    /\ tx'[q].late = tx[q].late \cup New(tx[r])
                    /\ tx'[q].held = tx[q].held /\ tx'[q].found = tx[q].found
                    /\ tx'[q].pc = tx[q].pc /\ tx[q].pc \notin {"idle", "deleteRows"}
                    /\ tx'[q].kind = tx[q].kind /\ tx'[q].of = tx[q].of
                    /\ tx'[q].ids = tx[q].ids
           /\ tx' \in [Req -> {Idle} \cup Transaction]
  <1>0. tx \in [Req -> {Idle} \cup Transaction]
    BY DEF IInv, TypeOK
  <1>1. /\ Rows(tx[r]) = Writes(tx[r], "delete") /\ New(tx[r]) = Writes(tx[r], "insert")
    BY Committing
  <1>2. New(tx[r]) \subseteq AccessRow
    BY CommitUpdate, CommitRemoval
  <1> DEFINE After(q) == [tx[q] EXCEPT !.left = @ \ Skipped(r), !.late = @ \cup New(tx[r])]
  <1>3. tx' = [q \in Req |-> IF q = r THEN Idle
                             ELSE IF tx[q].pc \in {"idle", "deleteRows"} THEN tx[q]
                             ELSE After(q)]
    BY <1>1 DEF Commit, Skipped
  <1>4. ASSUME NEW q \in Req, tx[q].pc \notin {"idle", "deleteRows"}
        PROVE  /\ tx[q] \in Transaction /\ After(q) \in Transaction
               /\ After(q).left = tx[q].left \ Skipped(r)
               /\ After(q).late = tx[q].late \cup New(tx[r])
               /\ After(q).held = tx[q].held /\ After(q).found = tx[q].found
               /\ After(q).pc = tx[q].pc /\ After(q).kind = tx[q].kind
               /\ After(q).of = tx[q].of /\ After(q).ids = tx[q].ids
    <2>1. tx[q] \in Transaction
      BY <1>0, <1>4 DEF Idle
    <2>2. tx[q].left \subseteq Lock /\ tx[q].late \subseteq AccessRow
      BY <2>1, Fields
    <2>3. QED
      BY <1>2, <2>1, <2>2 DEF Transaction
  <1> HIDE DEF After
  <1>5. QED
    BY <1>0, <1>3, <1>4

\* Two transactions hold no locks that conflict; so what one commits leaves alone
\* what another holds.
LEMMA HeldApart ==
    ASSUME IInv, NEW r \in Req, NEW q \in Req \ {r}, NEW x,
           NEW mode, NEW other, ~(mode = "share" /\ other = "share"),
           [mode |-> mode, on |-> x] \in tx[r].held
    PROVE  [mode |-> other, on |-> x] \notin tx[q].held
  BY DEF IInv, TypeOK, Conflict

\* What is said of the others when r commits.
LEMMA CommitLeaves ==
    ASSUME IInv, NEW r \in Req, Commit(r), NEW q \in Req \ {r}, ~At(q, "idle")'
    PROVE  (OwnDeletes(tx[q]) /\ OwnInserts(tx[q]) /\ Covered(tx[q]) /\ Valid(tx[q]))'
  <1>0. TypeOK
    BY DEF IInv
  <1>c. PICK c : c = tx[r]
    OBVIOUS
  <1>t. PICK t : t = tx[q]
    OBVIOUS
  <1>u. PICK u : u = tx'[q]
    OBVIOUS
  <1>1. /\ \/ t.pc = "deleteRows" /\ u = t
           \/ /\ u.left = t.left \ Skipped(r) /\ u.late = t.late \cup New(c)
              /\ u.held = t.held /\ u.found = t.found
              /\ u.pc = t.pc /\ u.kind = t.kind /\ u.of = t.of /\ u.ids = t.ids
        /\ t.pc # "idle" /\ t \in Transaction
    <2>1. t.pc # "idle"
      BY <1>t, CommitOthers DEF At
    <2>2. t \in Transaction
      BY <1>0, <1>t, <2>1, Under DEF At
    <2>3. QED
      BY <1>c, <1>t, <1>u, <2>1, <2>2, CommitOthers
  <1>2. OwnDeletes(t) /\ OwnInserts(t) /\ Covered(t) /\ Valid(t)
    BY <1>t, <1>1 DEF IInv, At
  <1>3. /\ c \in Transaction /\ c.left = {} /\ Pending(c) = c.held
        /\ Rows(c) = Writes(c, "delete") /\ New(c) = Writes(c, "insert") /\ c.held \subseteq Lock
        /\ members' = members \ Rows(c) /\ agents' = agents \ Rows(c)
        /\ access' = (access \ Rows(c)) \cup New(c)
    BY <1>c, Committing
  <1>4. \A x \in Rows(c) : [mode |-> "delete", on |-> x] \in c.held
    BY <1>3, OnMember DEF Writes
  <1>5. \A x \in New(c) : [mode |-> "insert", on |-> x] \in c.held
    BY <1>3, OnMember DEF Writes
  <1>6. t.left \subseteq Lock /\ t.held \subseteq Lock
    BY <1>1, Fields
  <1>7. /\ \/ Skipped(r) = {}
           \/ c.kind = "update" /\ Skipped(r) = Locks("delete", Rows(c))
        /\ c.kind = "update" => \A x \in Rows(c) : x \in AccessRow
    <2>1. c.kind = "update" => Skipped(r) = Locks("delete", Rows(c))
      BY <1>c DEF Skipped
    <2>2. c.kind # "update" => Skipped(r) = {}
      BY <1>c DEF Skipped
    <2>3. ASSUME c.kind = "update"
          PROVE  \A x \in Rows(c) : x \in AccessRow
      BY <1>c, <2>3, CommitUpdate
    <2>4. QED
      BY <2>1, <2>2, <2>3
  <1>8. /\ u.held = t.held /\ u.found = t.found
        /\ u.pc = t.pc /\ u.kind = t.kind /\ u.of = t.of /\ u.ids = t.ids
        /\ u.left \subseteq t.left /\ t.left \ u.left \subseteq Skipped(r)
        /\ t.late \subseteq u.late
        /\ t.pc # "deleteRows" => u.late = t.late \cup New(c)
    BY <1>1
  <1>9. c.kind # "update" => New(c) = {}
    BY <1>c, CommitRemoval
  <1>10. \A x \in New(c) : \A key \in {x.user, x.agent} :
            [mode |-> "share", on |-> key] \in c.held
    BY <1>c, <1>9, CommitUpdate
  <1>11. \A mode, other, x : /\ [mode |-> mode, on |-> x] \in c.held
                             /\ ~(mode = "share" /\ other = "share")
                             => [mode |-> other, on |-> x] \notin t.held
    BY <1>c, <1>t, HeldApart
  <1>12. \A mode : mode # "delete" => On(u.left, mode) = On(t.left, mode)
    <2>1. \A l \in Skipped(r) : l.mode = "delete"
      BY <1>7 DEF Locks
    <2>2. QED
      BY <1>8, <2>1 DEF On
  <1>13. New(u) = New(t) /\ Asked(u) = Asked(t)
    <2>1. New(u) = New(t)
      BY <1>8, <1>12 DEF New, Pending, On
    <2>2. QED
      BY <1>8, <2>1 DEF Asked
  <1>14. Rows(u) \subseteq Rows(t) /\ Rows(t) \ Rows(u) \subseteq Rows(c)
    <2>1. \A l \in Skipped(r) : l.on \in Rows(c)
      BY <1>7 DEF Locks
    <2>2. QED
      BY <1>8, <2>1 DEF Rows, Pending, On
  <1>15. OwnDeletes(u)
    <2>1. CASE t.kind = "update"
      BY <1>2, <1>8, <1>14, <2>1 DEF OwnDeletes
    <2>2. CASE t.kind # "update"
      <3> DEFINE l == [mode |-> "delete", on |-> t.of]
      <3>1. /\ t.of \in Member \cup Agent
            /\ t.of \in (IF t.kind = "remove" THEN Agent ELSE Member)
            /\ t.pc \in {"cascade", "commit"}
            /\ l \in (IF t.pc = "commit" THEN t.held ELSE Pending(t))
            /\ \A x \in Rows(t) \ {t.of} : x \in AccessRow /\ t.of \in {x.user, x.agent}
        BY <1>2, <2>2 DEF OwnDeletes
      <3>2. l \notin Skipped(r)
        <4>1. t.of \notin AccessRow
          BY <3>1, IdAssumption
        <4>2. QED
          BY <1>7, <4>1 DEF Locks
      <3>3. l \in (IF u.pc = "commit" THEN u.held ELSE Pending(u))
        BY <1>8, <3>1, <3>2 DEF Pending
      <3>4. QED
        BY <1>8, <1>14, <2>2, <3>1, <3>3 DEF OwnDeletes
    <2>3. QED
      BY <2>1, <2>2
  <1>16. OwnInserts(u)
    <2>1. ASSUME u.pc = "commit", NEW row \in New(u)
          PROVE  Locks("share", KeysOf(row)) \subseteq Pending(u)
      <3>1. Locks("share", KeysOf(row)) \subseteq Pending(t)
        BY <1>2, <1>8, <1>13, <2>1 DEF OwnInserts
      <3>2. \A l \in Locks("share", KeysOf(row)) : l \notin Skipped(r)
        BY <1>7 DEF Locks
      <3>3. QED
        BY <1>8, <3>1, <3>2 DEF Pending
    <2>2. u.pc = "commit" => On(u.left, "insert") = {}
      BY <1>2, <1>8, <1>12 DEF OwnInserts
    <2>3. New(u) = IF u.kind = "update" /\ u.pc \in {"refer", "commit"}
                   THEN Asked(u) \ u.found ELSE {}
      BY <1>2, <1>8, <1>13 DEF OwnInserts
    <2>4. QED
      BY <2>1, <2>2, <2>3 DEF OwnInserts
  <1>17. RowsOf(t.of)' \subseteq (RowsOf(t.of) \ Rows(c)) \cup New(c)
    BY <1>3 DEF RowsOf
  <1>18. Covered(u)'
    <2>1. CASE t.kind = "update"
      <3>1. t.found \subseteq u.late
        BY <1>2, <1>8, <2>1 DEF Covered
      <3>2. ASSUME t.pc # "deleteRows"
            PROVE  RowsOf(t.of)' \subseteq Rows(u) \cup u.late
        <4>1. RowsOf(t.of) \subseteq Rows(t) \cup t.late
          BY <1>2, <2>1, <3>2 DEF Covered
        <4>2. QED
          BY <1>8, <1>14, <1>17, <3>2, <4>1
      <3>3. QED
        BY <1>8, <2>1, <3>1, <3>2 DEF Covered
    <2>2. CASE t.kind # "update"
      <3>1. ASSUME t.pc = "commit"
            PROVE  RowsOf(t.of)' \subseteq Rows(u)
        <4>1. RowsOf(t.of) \subseteq Rows(t)
          BY <1>2, <2>2, <3>1 DEF Covered
        <4>2. [mode |-> "delete", on |-> t.of] \in t.held
          BY <1>2, <2>2, <3>1 DEF OwnDeletes
        <4>3. \A x \in New(c) : t.of \notin {x.user, x.agent}
          BY <1>10, <1>11, <4>2
        <4>4. \A x \in RowsOf(t.of)' : t.of \in {x.user, x.agent}
          BY DEF RowsOf
        <4>5. QED
          BY <1>14, <1>17, <4>1, <4>3, <4>4
      <3>2. QED
        BY <1>8, <2>2, <3>1 DEF Covered
    <2>3. QED
      BY <2>1, <2>2
  <1>19. Valid(u)'
    <2>1. ASSUME NEW x \in On(t.held, "share")
          PROVE  x \in members' \cup agents'
      <3>1. [mode |-> "share", on |-> x] \in t.held
        BY <1>6, <2>1, OnMember
      <3>2. x \notin Rows(c)
        <4>1. ASSUME [mode |-> "delete", on |-> x] \in c.held
              PROVE  FALSE
          BY <1>c, <1>t, <3>1, <4>1, HeldApart
        <4>2. QED
          BY <1>4, <4>1
      <3>3. x \in members \cup agents
        BY <1>2, <2>1 DEF Valid
      <3>4. QED
        BY <1>3, <3>2, <3>3
    <2>2. ASSUME NEW x \in On(t.held, "insert")
          PROVE  x \notin access' \ Writes(t, "delete")
      <3>1. [mode |-> "insert", on |-> x] \in t.held
        BY <1>6, <2>2, OnMember
      <3>2. x \notin New(c)
        BY <1>5, <1>11, <3>1
      <3>3. x \notin access \ Writes(t, "delete")
        BY <1>2, <2>2 DEF Valid
      <3>4. QED
        BY <1>3, <3>2, <3>3
    <2>3. Writes(u, "delete") = Writes(t, "delete")
      BY <1>8 DEF Writes
    <2>4. QED
      BY <1>8, <2>1, <2>2, <2>3 DEF Valid
  <1>20. QED
    <2>1. (OwnDeletes(tx[q]))'
      BY <1>15, <1>u DEF OwnDeletes
    <2>2. (OwnInserts(tx[q]))'
      BY <1>16, <1>u DEF OwnInserts
    <2>3. (Covered(tx[q]))'
      BY <1>18, <1>u DEF Covered
    <2>4. (Valid(tx[q]))'
      BY <1>19, <1>u DEF Valid
    <2>5. QED
      BY <2>1, <2>2, <2>3, <2>4

LEMMA CommitKeeps ==
    ASSUME IInv, NEW r \in Req, Commit(r)
    PROVE  IInv'
  <1>1. TypeOK'
    <2>1. /\ members' \subseteq Member /\ agents' \subseteq Agent
      BY Committing DEF IInv, TypeOK
    <2>2. access' \subseteq AccessRow
      <3>1. New(tx[r]) \subseteq AccessRow
        BY CommitUpdate, CommitRemoval
      <3>2. QED
        BY <3>1, Committing DEF IInv, TypeOK
    <2>3. /\ tx' \in [Req -> {Idle} \cup Transaction]
          /\ \A q \in Req : tx'[q].held \subseteq tx[q].held
      <3>1. tx'[r].held = {}
        BY CommitOthers DEF Idle
      <3>2. \A q \in Req \ {r} : tx'[q].held = tx[q].held
        BY CommitOthers
      <3>3. QED
        BY <3>1, <3>2, CommitOthers
    <2>4. QED
      BY <2>1, <2>2, <2>3 DEF IInv, TypeOK
  <1>2. NoneDangling'
    <2>1. CASE tx[r].kind = "update"
      BY <2>1, Committing, CommitUpdate DEF IInv, NoneDangling
    <2>2. CASE tx[r].kind # "update"
      <3>1. \A row \in access' : row \in access /\ tx[r].of \notin {row.user, row.agent}
        BY <2>2, CommitRemoval DEF RowsOf
      <3>2. QED
        BY <2>2, <3>1, CommitRemoval DEF IInv, NoneDangling
    <2>3. QED
      BY <2>1, <2>2
  <1>3. ASSUME NEW q \in Req, ~At(q, "idle")'
        PROVE  (OwnDeletes(tx[q]) /\ OwnInserts(tx[q]) /\ Covered(tx[q]) /\ Valid(tx[q]))'
    <2>1. q # r
      BY <1>3, CommitOthers DEF At, Idle
    <2>2. QED
      BY <1>3, <2>1, CommitLeaves
  <1>4. QED
    BY <1>1, <1>2, <1>3 DEF IInv

(* --------------------------- Every reachable state ----------------------- *)

LEMMA InitHolds == Init => IInv
  <1> SUFFICES ASSUME Init
               PROVE  IInv
    OBVIOUS
  <1>1. \A r \in Req : At(r, "idle") /\ tx[r].held = {}
    BY DEF Init, At, Idle
  <1>2. TypeOK
    BY <1>1 DEF Init, TypeOK
  <1>3. NoneDangling
    BY DEF Init, NoneDangling, AccessRow
  <1>4. QED
    BY <1>1, <1>2, <1>3 DEF IInv

\* Every step but a commit leaves the tables alone.
LEMMA StepKeeps == IInv /\ [Next]_vars => IInv'
  <1> SUFFICES ASSUME IInv, [Next]_vars
               PROVE  IInv'
    OBVIOUS
  <1>1. ASSUME NEW r \in Req, Call(r)
        PROVE  IInv'
    BY <1>1, BeginSteps
  <1>2. ASSUME NEW r \in Req, Statement(r)
        PROVE  IInv'
    BY <1>2, DeleteRowsKeeps, SelectRowsKeeps, ReferKeeps, CascadeKeeps, CommitKeeps
       DEF Statement
  <1>3. ASSUME NEW r \in Req, Take(r)
        PROVE  IInv'
    BY <1>3, Taken
  <1>4. ASSUME NEW r \in Req, DeadlockDetected(r) \/ Fail(r)
        PROVE  IInv'
    BY <1>4, RolledBack DEF DeadlockDetected, Fail
  <1>5. CASE UNCHANGED vars
    <2>1. UNCHANGED <<members, agents, access, tx>>
      BY <1>5 DEF vars
    <2>2. TypeOK' /\ NoneDangling'
      BY <2>1 DEF IInv, TypeOK, NoneDangling
    <2>3. ASSUME NEW q \in Req, ~At(q, "idle")'
          PROVE  (OwnDeletes(tx[q]) /\ OwnInserts(tx[q]) /\ Covered(tx[q]) /\ Valid(tx[q]))'
      <3>1. OwnDeletes(tx[q]) /\ OwnInserts(tx[q]) /\ Covered(tx[q]) /\ Valid(tx[q])
        BY <2>1, <2>3 DEF IInv, At
      <3>2. (OwnDeletes(tx[q]))'
        BY <2>1, <3>1 DEF OwnDeletes
      <3>3. (OwnInserts(tx[q]))'
        BY <2>1, <3>1 DEF OwnInserts
      <3>4. (Covered(tx[q]))'
        BY <2>1, <3>1 DEF Covered, RowsOf
      <3>5. (Valid(tx[q]))'
        BY <2>1, <3>1 DEF Valid
      <3>6. QED
        BY <3>2, <3>3, <3>4, <3>5
    <2>4. QED
      BY <2>2, <2>3 DEF IInv
  <1>6. QED
    BY <1>1, <1>2, <1>3, <1>4, <1>5 DEF Next

THEOREM Invariant == Spec => []IInv
  BY InitHolds, StepKeeps, PTL DEF Spec

\* What transactions hold and do is well typed, and their locks do not conflict.
THEOREM TypeCorrect == Spec => []TypeOK
  <1>1. IInv => TypeOK
    BY DEF IInv
  <1>2. QED
    BY <1>1, Invariant, PTL

\* No removal leaves a row behind, and no update inserts one, whose member or agent
\* is gone.
THEOREM NoDangling == Spec => []NoneDangling
  <1>1. IInv => NoneDangling
    BY DEF IInv
  <1>2. QED
    BY <1>1, Invariant, PTL

\* What a commit leaves of the rows of a member.
LEMMA CommitReplaces ==
    ASSUME IInv, NEW r \in Req, NEW m \in Member, Commit(r), Updates(tx[r], m)
    PROVE  LET rows == RowsOf(m)' IN
           (rows \ Asked(tx[r])) \cup (Asked(tx[r]) \ rows) \subseteq tx[r].late
  <1> DEFINE t == tx[r]
  <1>0. TypeOK
    BY DEF IInv
  <1>1. t.kind = "update" /\ t.of = m
    BY DEF Updates
  <1>2. /\ t \in Transaction /\ t.pc = "commit"
        /\ access' = (access \ Rows(t)) \cup New(t) /\ Covered(t)
    BY Committing
  <1>3. New(t) = Asked(t) \ t.found
    BY <1>1, CommitUpdate
  <1>4. \A x \in Asked(t) : x.user = m
    BY <1>1, <1>2, AskedRows
  <1>5. RowsOf(m) \subseteq Rows(t) \cup t.late /\ t.found \subseteq t.late
    BY <1>1, <1>2 DEF Covered
  <1> HIDE DEF t
  <1>6. RowsOf(m)' = (RowsOf(m) \ Rows(t)) \cup New(t)
    BY <1>2, <1>3, <1>4 DEF RowsOf
  <1>7. QED
    BY <1>3, <1>5, <1>6 DEF t

\* Of a member that stays, a removal takes the rows of the removed agent only; that of
\* another member takes none.
LEMMA RemovalTakes ==
    ASSUME IInv, NEW r \in Req, NEW m \in members', Commit(r), RowsOf(m)' # RowsOf(m),
           tx[r].kind # "update"
    PROVE  tx[r].kind = "remove" /\ RowsOf(m)' = RowsOf(m) \ RowsOf(tx[r].of)
  <1>0. TypeOK
    BY DEF IInv
  <1>1. /\ tx[r].of \in (IF tx[r].kind = "remove" THEN Agent ELSE Member)
        /\ members' = members \ {tx[r].of} /\ access' = access \ RowsOf(tx[r].of)
    BY CommitRemoval
  <1>2. m \in Member /\ m # tx[r].of
    BY <1>0, <1>1 DEF TypeOK
  <1>3. RowsOf(m)' = RowsOf(m) \ RowsOf(tx[r].of)
    BY <1>1 DEF RowsOf
  <1>4. ASSUME tx[r].of \in Member
        PROVE  RowsOf(m) \cap RowsOf(tx[r].of) = {}
    BY <1>0, <1>2, <1>4, RowsOfOne
  <1>5. QED
    BY <1>1, <1>3, <1>4

\* Only commits write, and what they write is as Replaced says.
LEMMA RowsStep ==
    ASSUME IInv, [Next]_vars, NEW m \in members', RowsOf(m)' # RowsOf(m)
    PROVE  \E r \in Req : /\ Commit(r)
                          /\ \/ Updates(tx[r], m)
                             \/ /\ tx[r].kind = "remove"
                                /\ RowsOf(m)' = RowsOf(m) \ RowsOf(tx[r].of)
  <1>1. PICK r \in Req : Commit(r)
    <2>1. access' # access
      BY DEF RowsOf
    <2>2. QED
      BY <2>1 DEF vars, Next, Call, UpdateAgentAccess, RemoveMember, RemoveAgent, Begin,
                  Statement, DeleteRows, SelectRows, Refer, Cascade, Take, Rollback,
                  DeadlockDetected, Fail
  <1>2. CASE tx[r].kind = "update"
    <2>1. /\ tx[r].of \in Member /\ members' = members
          /\ \A x \in Rows(tx[r]) \cup New(tx[r]) : x \in AccessRow /\ x.user = tx[r].of
      BY <1>1, <1>2, CommitUpdate
    <2>2. access' = (access \ Rows(tx[r])) \cup New(tx[r])
      BY <1>1, Committing
    <2>3. m \in Member
      BY <2>1 DEF IInv, TypeOK
    <2>4. m = tx[r].of
      <3>1. ASSUME m # tx[r].of
            PROVE  RowsOf(m)' = RowsOf(m)
        <4>1. \A x \in Rows(tx[r]) \cup New(tx[r]) : m \notin {x.user, x.agent}
          BY <2>1, <2>3, <3>1, IdAssumption DEF AccessRow
        <4>2. QED
          BY <2>2, <4>1 DEF RowsOf
      <3>2. QED
        BY <3>1
    <2>5. QED
      BY <1>1, <1>2, <2>4 DEF Updates
  <1>3. CASE tx[r].kind # "update"
    BY <1>1, <1>3, RemovalTakes
  <1>4. QED
    BY <1>2, <1>3

\* An update replaces the rows that its DELETE saw by those asked for, and only such a
\* commit, or the removal of an agent, changes the rows of a member that stays.
THEOREM Replacement == Spec => Replaced
  <1>1. ASSUME IInv, IInv', [Next]_vars
        PROVE  [/\ \A r \in Req, m \in Member : Commit(r) /\ Updates(tx[r], m) =>
                      LET rows == RowsOf(m)' IN
                      (rows \ Asked(tx[r])) \cup (Asked(tx[r]) \ rows) \subseteq tx[r].late
                /\ \A m \in members' : RowsOf(m)' # RowsOf(m) =>
                      \E r \in Req : /\ Commit(r)
                                     /\ \/ Updates(tx[r], m)
                                        \/ /\ tx[r].kind = "remove"
                                           /\ RowsOf(m)' = RowsOf(m) \ RowsOf(tx[r].of)]_vars
    BY <1>1, CommitReplaces, RowsStep
  <1>2. QED
    BY <1>1, Invariant, PTL DEF Spec, Replaced
=============================================================================
