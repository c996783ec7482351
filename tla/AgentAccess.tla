---------------------------- MODULE AgentAccess -----------------------------
(***************************************************************************)
(* The transactions that write user_agent_access, lock by lock:            *)
(* updateAgentAccess, removeMember and the remove of an agent.  A DELETE    *)
(* locks the rows it saw when it started, one by one; an INSERT its keys    *)
(* and then, for the foreign keys, the rows they refer to.  Who meets a     *)
(* lock of another waits for the end of its transaction; Postgres ends      *)
(* somebody who waits in a circle.  Writes take effect at the commit.       *)
(***************************************************************************)
EXTENDS Naturals

CONSTANTS
    Member, Agent,      \* rows of users and of agents
    Req                 \* slots for the transactions

VARIABLES
    members, agents,    \* the rows that are there, committed
    access,             \* user_agent_access
    tx                  \* the transaction of each slot

vars == <<members, agents, access, tx>>

-----------------------------------------------------------------------------
AccessRow == [user: Member, agent: Agent]
AgentIds  == {{}} \cup {{as} : as \in SUBSET Agent}    \* {} is null

ASSUME IdAssumption == /\ Member \cap Agent = {}
                       /\ (Member \cup Agent) \cap AccessRow = {}

\* A row of users or agents is locked in the mode "share" by who refers to it.
Lock == [mode: {"delete", "share"}, on: Member \cup Agent]
            \cup [mode: {"delete", "insert"}, on: AccessRow]
Locks(mode, things) == {[mode |-> mode, on |-> x] : x \in things}

\* pc is what a transaction does when it has the locks of its statement, left
\* those it has yet to take.  late is history: the rows others have committed
\* since its DELETE started.
Idle == [pc |-> "idle", left |-> {}, held |-> {}]
Transaction == [pc: {"deleteRows", "selectRows", "refer", "cascade", "commit"},
                kind: {"update", "removeMember", "remove"}, of: Member \cup Agent,
                ids: AgentIds, left: SUBSET Lock, held: SUBSET Lock,
                found: SUBSET AccessRow, late: SUBSET AccessRow]

At(r, pc)    == tx[r].pc = pc
Ready(r, pc) == At(r, pc) /\ tx[r].left = {}
Go(r, pc, left) == tx' = [tx EXCEPT ![r].pc = pc, ![r].left = left]
Rollback(r)  == tx' = [tx EXCEPT ![r] = Idle] /\ UNCHANGED <<members, agents, access>>
On(locks, mode) == {l.on : l \in {k \in locks : k.mode = mode}}
Writes(t, mode) == On(t.held, mode)
RowsOf(x)    == {row \in access : x \in {row.user, row.agent}}

Begin(r, pc, kind, of, ids, left) ==
    /\ At(r, "idle")
    /\ tx' = [tx EXCEPT ![r] = [pc |-> pc, kind |-> kind, of |-> of, ids |-> ids,
                                left |-> left, held |-> {}, found |-> {}, late |-> {}]]
    /\ UNCHANGED <<members, agents, access>>

Init ==
    /\ members = Member /\ agents = Agent
    /\ access \in SUBSET AccessRow
    /\ tx = [r \in Req |-> Idle]

-----------------------------------------------------------------------------
(* Locks.                                                                  *)

Conflict(l, h) == l.on = h.on /\ ~(l.mode = "share" /\ h.mode = "share")
WaitsFor(r, q) == q # r /\ \E l \in tx[r].left, h \in tx[q].held : Conflict(l, h)
Granted(r, l) == \A q \in Req \ {r} : \A h \in tx[q].held : ~Conflict(l, h)
Blocked(r) == tx[r].left # {} /\ \A l \in tx[r].left : ~Granted(r, l)

\* What a DELETE saw and others have deleted is nothing to lock.  A key that is
\* there, or the row that a foreign key names and that is not, is an error.
Refused(r, l) == \/ l.mode = "insert" /\ l.on \in access \ Writes(tx[r], "delete")
                 \/ l.mode = "share" /\ l.on \notin members \cup agents

Take(r) ==
    \E l \in tx[r].left :
        /\ Granted(r, l)
        /\ IF Refused(r, l) THEN Rollback(r)
           ELSE /\ tx' = [tx EXCEPT ![r].left = @ \ {l}, ![r].held = @ \cup {l}]
                /\ UNCHANGED <<members, agents, access>>

\* deadlock_timeout: who still waits looks for a circle, and is the victim.
Circle(waiting) ==
    \A r \in waiting : /\ Blocked(r)
                       /\ \E q \in waiting : WaitsFor(r, q)
                       /\ \E q \in waiting : WaitsFor(q, r)
DeadlockDetected(r) ==
    /\ \E waiting \in SUBSET Req : r \in waiting /\ Circle(waiting)
    /\ Rollback(r)

-----------------------------------------------------------------------------
(* updateAgentAccess.                                                      *)

UpdateAgentAccess(r) ==
    \E m \in members, ids \in AgentIds : Begin(r, "deleteRows", "update", m, ids, {})

DeleteRows(r) ==
    /\ Ready(r, "deleteRows")
    /\ Go(r, "selectRows", Locks("delete", RowsOf(tx[r].of)))
    /\ UNCHANGED <<members, agents, access>>

\* Mutant of Visible: a query outside the transaction, which sees what it deleted.
VisibleOutside(t) == access
Visible(t)        == access \ Writes(t, "delete")
Asked(t)          == [user: {t.of}, agent: UNION t.ids]

\* Mutant of AfterSelect: it returns early and the transaction stays open.
OpenAfterSelect(new) == IF new = {} THEN "return" ELSE "refer"
AfterSelect(new)     == IF new = {} THEN "commit" ELSE "refer"

\* save: SELECT by primary key, then INSERT of what is not there.  A list that
\* is null or empty skips it.
SelectRows(r) ==
    /\ Ready(r, "selectRows")
    /\ LET found == Asked(tx[r]) \cap Visible(tx[r])
           new   == Asked(tx[r]) \ found
       IN tx' = [tx EXCEPT ![r].pc = AfterSelect(new), ![r].found = found,
                           ![r].left = Locks("insert", new)]
    /\ UNCHANGED <<members, agents, access>>

\* Mutant of KeysOf: no foreign key on agent_id.
UserKeyOf(row) == {row.user}
KeysOf(row)    == {row.user, row.agent}

\* The foreign keys are looked at when all rows are in.
Refer(r) ==
    /\ Ready(r, "refer")
    /\ Go(r, "commit", Locks("share", UNION {KeysOf(row) : row \in Writes(tx[r], "insert")}))
    /\ UNCHANGED <<members, agents, access>>

-----------------------------------------------------------------------------
(* removeMember, and remove of AgentsService: DELETE of the row, then the   *)
(* cascade to its access rows, in one transaction.                         *)

RemoveMember(r) ==
    \E m \in members : Begin(r, "cascade", "removeMember", m, {}, Locks("delete", {m}))
RemoveAgent(r) ==
    \E a \in agents : Begin(r, "cascade", "remove", a, {}, Locks("delete", {a}))

Cascade(r) ==
    /\ Ready(r, "cascade")
    /\ Go(r, "commit", Locks("delete", RowsOf(tx[r].of)))
    /\ UNCHANGED <<members, agents, access>>

-----------------------------------------------------------------------------
\* Who waits for rows that an update deleted skips them, also when it has inserted
\* the same keys again.  What went with a member or an agent never comes back: to
\* lock that does nothing.
Commit(r) ==
    /\ Ready(r, "commit")
    /\ LET deleted == Writes(tx[r], "delete")
           new     == Writes(tx[r], "insert")
           gone    == IF tx[r].kind = "update" THEN Locks("delete", deleted) ELSE {}
       IN /\ members' = members \ deleted
          /\ agents' = agents \ deleted
          /\ access' = (access \ deleted) \cup new
          /\ tx' = [q \in Req |->
                      IF q = r THEN Idle
                      ELSE IF tx[q].pc \in {"idle", "deleteRows"} THEN tx[q]
                      ELSE [tx[q] EXCEPT !.left = @ \ gone,
                                         !.late = @ \cup new]]

\* A query fails or the connection is lost.
Fail(r) == ~At(r, "idle") /\ Rollback(r)

Call(r)      == UpdateAgentAccess(r) \/ RemoveMember(r) \/ RemoveAgent(r)
Statement(r) == DeleteRows(r) \/ SelectRows(r) \/ Refer(r) \/ Cascade(r) \/ Commit(r)

Next == \E r \in Req :
    Call(r) \/ Statement(r) \/ Take(r) \/ DeadlockDetected(r) \/ Fail(r)

\* The next statement of a transaction is sent when the last has been answered.
\* Postgres queues who waits for a lock, so it gets its turn though others come
\* and go, and looks for circles.
Fairness == \A r \in Req : /\ WF_vars(Statement(r)) /\ SF_vars(Take(r))
                           /\ WF_vars(DeadlockDetected(r))

Spec == Init /\ [][Next]_vars /\ Fairness

-----------------------------------------------------------------------------
\* What the slots do and hold is well typed, and no two of them hold locks that
\* conflict.
TypeOK ==
    /\ members \subseteq Member /\ agents \subseteq Agent
    /\ access \subseteq AccessRow
    /\ tx \in [Req -> {Idle} \cup Transaction]
    /\ \A r, q \in Req : r # q =>
          \A h \in tx[r].held, g \in tx[q].held : ~Conflict(h, g)

\* No row is left to a member or an agent that is gone: an update that inserts it
\* and the removal of either wait for each other (the two keys of
\* user_agent_access, team.service.ts:107 and 152, agents.service.ts:110).
NoneDangling == \A row \in access : row.user \in members /\ row.agent \in agents

\* "Replaces the entire access set in one transaction" (updateAgentAccess), as far
\* as it goes: a commit leaves what was asked for, and nothing else, but for the
\* rows that others committed since its DELETE started; and the rows of a member
\* that stays change only by such a commit or with an agent that is removed.
Updates(t, m) == t.kind = "update" /\ t.of = m
Replaced ==
    [][/\ \A r \in Req, m \in Member : Commit(r) /\ Updates(tx[r], m) =>
             LET rows == RowsOf(m)' IN
             (rows \ Asked(tx[r])) \cup (Asked(tx[r]) \ rows) \subseteq tx[r].late
       /\ \A m \in members' : RowsOf(m)' # RowsOf(m) =>
             \E r \in Req : /\ Commit(r)
                            /\ \/ Updates(tx[r], m)
                               \/ /\ tx[r].kind = "remove"
                                  /\ RowsOf(m)' = RowsOf(m) \ RowsOf(tx[r].of)]_vars

\* Every call comes to its end, also when a DELETE cascades into the rows of an
\* update that inserts a reference to what is being deleted, or two updates
\* insert the same rows in different orders.
CallsEnd == \A r \in Req : ~At(r, "idle") ~> At(r, "idle")

-----------------------------------------------------------------------------
(* The inductive invariant.                                                *)

Pending(t) == t.left \cup t.held
Rows(t)    == On(Pending(t), "delete")
New(t)     == On(Pending(t), "insert")

\* What an update deletes are rows of its member; what a removal deletes is what it
\* was called for, which it has locked before it cascades, and rows of that.
OwnDeletes(t) ==
    IF t.kind = "update"
    THEN /\ t.of \in Member /\ t.pc # "cascade"
         /\ \A x \in Rows(t) : x \in AccessRow /\ x.user = t.of
    ELSE /\ t.of \in (IF t.kind = "remove" THEN Agent ELSE Member)
         /\ t.pc \in {"cascade", "commit"}
         /\ [mode |-> "delete", on |-> t.of] \in
               (IF t.pc = "commit" THEN t.held ELSE Pending(t))
         /\ \A x \in Rows(t) \ {t.of} : x \in AccessRow /\ t.of \in {x.user, x.agent}

\* What is inserted was asked for and not found, and when it is in, the foreign keys
\* are looked at before the commit.
OwnInserts(t) ==
    /\ New(t) = IF t.kind = "update" /\ t.pc \in {"refer", "commit"}
                THEN Asked(t) \ t.found ELSE {}
    /\ t.pc = "commit" =>
          /\ On(t.left, "insert") = {}
          /\ \A row \in New(t) : Locks("share", KeysOf(row)) \subseteq Pending(t)

\* A DELETE has seen all rows of its member, but for those that came later; so
\* has the cascade, and none comes later.
Covered(t) ==
    /\ t.kind = "update" /\ t.pc # "deleteRows" => RowsOf(t.of) \subseteq Rows(t) \cup t.late
    /\ t.kind = "update" => t.found \subseteq t.late
    /\ t.kind # "update" /\ t.pc = "commit" => RowsOf(t.of) \subseteq Rows(t)

\* What a foreign key has locked is there, and what an INSERT has locked is not.
Valid(t) ==
    /\ On(t.held, "share") \subseteq members \cup agents
    /\ On(t.held, "insert") \cap (access \ Writes(t, "delete")) = {}

IInv ==
    /\ TypeOK
    /\ NoneDangling
    /\ \A r \in Req : ~At(r, "idle") =>
          OwnDeletes(tx[r]) /\ OwnInserts(tx[r]) /\ Covered(tx[r]) /\ Valid(tx[r])

-----------------------------------------------------------------------------
(* Seen from the handlers of Membership, which know nothing of locks: an    *)
(* owner and the members, who live at their own addresses.                 *)

User(m) == [id |-> m, email |-> m, org |-> "org", role |-> "member"]
Boss    == [id |-> "boss", email |-> "boss", org |-> "org", role |-> "owner"]
Request(t) ==
    CASE t.pc = "idle" \/ t.kind = "remove" -> [pc |-> "idle"]
      [] t.kind = "removeMember" -> [pc |-> "removeTx", target |-> User(t.of)]
      [] t.pc = "deleteRows" -> [pc |-> "deleteRows", user |-> t.of, ids |-> t.ids]
      [] t.pc = "selectRows" -> [pc |-> "selectRows", user |-> t.of, ids |-> t.ids,
                                 rows |-> Rows(t)]
      [] OTHER -> [pc |-> "insertRows", user |-> t.of, ids |-> t.ids,
                   rows |-> Rows(t), found |-> t.found]

Handlers == INSTANCE Membership WITH
    Org <- {"org"}, UserId <- Member, Email <- Member, Token <- {},
    orgs <- {"org"}, users <- {Boss} \cup {User(m) : m \in members},
    agents <- [id: agents, org: {"org"}], invitations <- {}, widgetTokens <- {},
    refreshKeys <- {}, issued <- Member \cup Agent, mailbox <- {},
    jwts <- {[id |-> "boss", org |-> "org", role |-> "owner"]},
    requests <- [r \in Req |-> Request(tx[r])]

\* The one-step commits of Team lose nothing that the locks allow.
ImplementsMembership == [][Handlers!Next]_(Handlers!vars)
=============================================================================
