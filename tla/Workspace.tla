----------------------------- MODULE Workspace -----------------------------
(***************************************************************************)
(* Agents, their tools, conversations, calls and events against the same    *)
(* tables, with handlers that overlap and break off.                       *)
(***************************************************************************)
EXTENDS Tools, Conversations

Request == {Idle} \cup AgentRequest \cup ToolRequest \cup ConvRequest

WorkspaceTypeOK ==
    /\ agents \subseteq Agent
    /\ tools \in [Tool -> ToolRow \cup {NoRow}]
    /\ convs \in [Conv -> ConvRow \cup {NoRow}]
    /\ calls \subseteq Call
    /\ events \subseteq Agent
    /\ drawn \subseteq Agent \cup Tool \cup Conv \cup Secret
    /\ requests \in [Req -> Request]
    /\ cut \in [Conv -> Nat]

Init ==
    /\ agents = {}
    /\ tools = [t \in Tool |-> NoRow]
    /\ convs = [c \in Conv |-> NoRow]
    /\ calls = {}
    /\ events = {}
    /\ drawn = {}
    /\ requests = [r \in Req |-> Idle]
    /\ cut = [c \in Conv |-> 0]

\* A handler dies, or a statement of it fails: what it has committed stays.
Fail(r) ==
    /\ ~At(r, "idle")
    /\ cut' = IF At(r, "addTokens")
              THEN [cut EXCEPT ![requests[r].conv] = @ + 1] ELSE cut
    /\ Respond(r)
    /\ UNCHANGED tables

Handler(r) == AgentHandler(r) \/ ToolHandler(r) \/ ConvHandler(r)
Next ==
    \/ \E r \in Req : AgentCall(r) \/ ToolCall(r) \/ ConvCall(r) \/ Handler(r) \/ Fail(r)
    \/ CreateAgent \/ End \/ RecordCall

Spec == Init /\ [][Next]_vars

-----------------------------------------------------------------------------
\* Every reference has its row: no step that cascades, refuses, or inserts a
\* saved entity again leaves a tool, conversation, call or event behind whose
\* agent, tool or conversation is not there.
References ==
    /\ \A t \in Tool : Exists(t) => tools[t].agent \in agents
    /\ \A c \in Conv : Has(c) => convs[c].agent \in agents
    /\ \A call \in calls : Has(call.conv) /\ ToolOf(call.tool, convs[call.conv].agent)
    /\ events \subseteq agents

\* "Headers stored encrypted", and once only: whatever mixture of old and new
\* headers an update saves, those at rest are sealed, and agent-core is given
\* them as they were entered.
SealedOnce ==
    \A t \in Tool : Exists(t) /\ tools[t].headers # NoHeaders =>
        /\ tools[t].headers.layers # 0
        /\ ForExecution(t).layers = 0

\* The counters of a conversation are written by two statements without a
\* transaction, while it is counted by others, ended, or removed: they differ by
\* the calls that are between the two and those that broke off there, by no more.
InFlight(c)  == {r \in Req : At(r, "addTokens") /\ requests[r].conv = c}
StatsAgree ==
    \A c \in Conv : Has(c) =>
        convs[c].messageCount = convs[c].totalTokens + Cardinality(InFlight(c)) + cut[c]

\* What was recorded is not deleted: calls and events outlive every removal,
\* since it refuses an agent or a tool that they name.
HistoryKept == [][calls \subseteq calls' /\ events \subseteq events']_vars

\* An id has no row, or a secret is in no row; a handler holds an entity with it.
Gone(x) == /\ x \notin agents
           /\ x \in Tool => ~Exists(x)
           /\ x \in Conv => ~Has(x)
           /\ x \in Secret => \A t \in Tool :
                 Exists(t) /\ tools[t].headers # NoHeaders => tools[t].headers.secret # x
Carries(r, x) ==
    \/ At(r, "saveAgent") /\ requests[r].agent = x
    \/ /\ requests[r].pc \in {"reload", "updateTool", "insertAgain"}
       /\ \/ requests[r].id = x
          \/ /\ requests[r].row.headers # NoHeaders
             /\ requests[r].row.headers.secret = x
Held(x) == \E r \in Req : Carries(r, x)

\* save writes, or inserts, what was read some awaits before, old headers among
\* it.  But once something was removed or replaced and is in no handler's hands, it
\* stays gone: agents, tools, conversations, and the secrets in headers.
StaysGone == [][\A x \in drawn : Gone(x) /\ ~Held(x) => Gone(x)']_vars
=============================================================================
