--------------------------- MODULE Conversations ---------------------------
(***************************************************************************)
(* ConversationsService: findOrCreate, incrementStats, end; agent-core's    *)
(* record of the tools it called; AnalyticsService.log.  They are called    *)
(* for agents and conversations that the caller has looked up.             *)
(***************************************************************************)
EXTENDS Agents

CONSTANT MaxCount       \* bound: messages counted in a conversation

ASSUME CountAssumption == MaxCount \in Nat

ConvRequest ==
    [pc: {"insertConv"}, agent: Agent, session: Session]
        \cup [pc: {"addTokens"}, conv: Conv]
        \cup [pc: {"insertEvent"}, agent: Agent]

-----------------------------------------------------------------------------
\* The lookup: an active conversation.  A null endUserId is no condition; one
\* that is given is never found, as no row has one.
Found(a, s) == \E c \in Conv : /\ ConvOf(c, a)
                               /\ convs[c].session = s
                               /\ convs[c].status = "active"

FindOrCreate(r) ==
    /\ At(r, "idle")
    /\ \E a \in agents, s \in Session, endUser \in BOOLEAN :
          /\ endUser \/ ~Found(a, s)
          /\ Continue(r, [pc |-> "insertConv", agent |-> a, session |-> s])
    /\ UNCHANGED <<tables, cut>>

\* session_id is unique, whatever the agent and the status.
Free(s) == \A c \in Conv : Has(c) => convs[c].session # s

InsertConv(r) ==
    /\ At(r, "insertConv")
    /\ LET req == requests[r]
       IN IF req.agent \in agents /\ Free(req.session)
          THEN \E c \in Conv \ drawn :
                  /\ convs' = [convs EXCEPT ![c] =
                                 [agent |-> req.agent, session |-> req.session,
                                  status |-> "active",
                                  messageCount |-> 0, totalTokens |-> 0]]
                  /\ drawn' = drawn \cup {c}
          ELSE UNCHANGED <<convs, drawn>>
    /\ Respond(r)
    /\ UNCHANGED <<agents, tools, calls, events, cut>>

\* end: one UPDATE.
End ==
    /\ \E c \in Conv : /\ Has(c)
                       /\ convs' = [convs EXCEPT ![c].status = "ended"]
    /\ UNCHANGED <<agents, tools, calls, events, drawn, requests, cut>>

\* Mutant of Counted: only an active conversation is counted.
CountedActive(row) == IF row.status = "active"
                      THEN [row EXCEPT !.messageCount = @ + 1] ELSE row
Counted(row)       == [row EXCEPT !.messageCount = @ + 1]

\* incrementStats, for a message of one token: an UPDATE each of the messages and
\* of the tokens, then of the time of the last message, which is left out.
IncrementStats(r) ==
    /\ At(r, "idle")
    /\ \E c \in Conv :
          /\ Has(c)
          /\ convs[c].messageCount < MaxCount
          /\ convs' = [convs EXCEPT ![c] = Counted(convs[c])]
          /\ Continue(r, [pc |-> "addTokens", conv |-> c])
    /\ UNCHANGED <<agents, tools, calls, events, drawn, cut>>

AddTokens(r) ==
    /\ At(r, "addTokens")
    /\ LET c == requests[r].conv
       IN convs' = IF Has(c) THEN [convs EXCEPT ![c].totalTokens = @ + 1] ELSE convs
    /\ Respond(r)
    /\ UNCHANGED <<agents, tools, calls, events, drawn, cut>>

-----------------------------------------------------------------------------
\* agent-core called a tool of the conversation's agent (findForExecution looks
\* for both ids) and inserts the row.
RecordCall ==
    /\ \E c \in Conv, t \in Tool :
          /\ Has(c)
          /\ ToolOf(t, convs[c].agent)
          /\ calls' = calls \cup {[conv |-> c, tool |-> t]}
    /\ UNCHANGED <<agents, tools, convs, events, drawn, requests, cut>>

\* log does not wait for its save, which fails, quietly, without the agent.
Log(r) ==
    /\ At(r, "idle")
    /\ \E a \in agents : Continue(r, [pc |-> "insertEvent", agent |-> a])
    /\ UNCHANGED <<tables, cut>>

InsertEvent(r) ==
    /\ At(r, "insertEvent")
    /\ events' = events \cup ({requests[r].agent} \cap agents)
    /\ Respond(r)
    /\ UNCHANGED <<agents, tools, convs, calls, drawn, cut>>

ConvCall(r)    == FindOrCreate(r) \/ IncrementStats(r) \/ Log(r)
ConvHandler(r) == InsertConv(r) \/ AddTokens(r) \/ InsertEvent(r)
=============================================================================
