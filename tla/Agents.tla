------------------------------- MODULE Agents -------------------------------
(***************************************************************************)
(* The tables around agents, and AgentsService: create, update, remove.     *)
(* What hangs on an agent goes with it or keeps it from going, by the ON    *)
(* DELETE action of each foreign key.  Handlers are cut at their awaits;   *)
(* callers of agents and tools are admins of an organization.              *)
(***************************************************************************)
EXTENDS Naturals, FiniteSets

CONSTANTS
    Org,
    Agent, Tool, Conv,      \* ids: uuids, a sequence, uuids
    Home,                   \* the organization that draws each id of an agent
    Secret,                 \* values of a tool's headers
    Session,                \* sessions of widgets
    Req                     \* slots for the handlers in flight

ASSUME HomeAssumption == Home \in [Agent -> Org]
ASSUME IdAssumption   == /\ Agent \cap Tool = {} /\ Agent \cap Conv = {}
                         /\ Agent \cap Secret = {} /\ Tool \cap Conv = {}
                         /\ Tool \cap Secret = {} /\ Conv \cap Secret = {}

VARIABLES
    agents,     \* table agents: ids
    tools,      \* table tools: the row of an id, or NoRow
    convs,      \* table conversations: the row of an id, or NoRow
    calls,      \* table tool_calls: the tool, and the conversation of the message
    events,     \* the agents that rows of analytics_events name
    drawn,      \* ids and secrets that were used: none is drawn twice
    requests,   \* the handler each slot runs and where it stands
    cut         \* history: of each conversation, how often incrementStats broke off

tables == <<agents, tools, convs, calls, events, drawn>>
vars   == <<tables, requests, cut>>

-----------------------------------------------------------------------------
\* layers counts how often the headers were encrypted.
Headers   == [secret: Secret, layers: Nat]
NoHeaders == [layers |-> 0]
ToolRow   == [agent: Agent, headers: Headers \cup {NoHeaders}]
ConvRow   == [agent: Agent, session: Session, status: {"active", "ended"},
              messageCount: Nat, totalTokens: Nat]
NoRow     == [status |-> "none"]
Call      == [conv: Conv, tool: Tool]

Idle == [pc |-> "idle"]
AgentRequest == [pc: {"saveAgent", "deleteAgent"}, agent: Agent, org: Org]

At(r, pc)        == requests[r].pc = pc
Continue(r, rec) == requests' = [requests EXCEPT ![r] = rec]
Respond(r)       == Continue(r, Idle)

Exists(t)     == tools[t] # NoRow
Has(c)        == convs[c] # NoRow
ToolOf(t, a)  == Exists(t) /\ tools[t].agent = a
ConvOf(c, a)  == Has(c) /\ convs[c].agent = a
Called(t)     == \E call \in calls : call.tool = t

-----------------------------------------------------------------------------
\* AgentsService.findOne, the check of every handler of agents and tools.
Manages(org, a) == a \in agents /\ Home[a] = org

CreateAgent ==
    /\ \E a \in Agent \ drawn :
          /\ agents' = agents \cup {a}
          /\ drawn' = drawn \cup {a}
    /\ UNCHANGED <<tools, convs, calls, events, requests, cut>>

\* update and remove, up to the entity they have found.
UpdateAgent(r) ==
    /\ At(r, "idle")
    /\ \E org \in Org, a \in Agent :
          /\ Manages(org, a)
          /\ Continue(r, [pc |-> "saveAgent", agent |-> a, org |-> org])
    /\ UNCHANGED <<tables, cut>>

RemoveAgent(r) ==
    /\ At(r, "idle")
    /\ \E org \in Org, a \in Agent :
          /\ Manages(org, a)
          /\ Continue(r, [pc |-> "deleteAgent", agent |-> a, org |-> org])
    /\ UNCHANGED <<tables, cut>>

\* save: an UPDATE, or an INSERT of the entity when its row has gone.
SaveAgent(r) ==
    /\ At(r, "saveAgent")
    /\ agents' = agents \cup {requests[r].agent}
    /\ Respond(r)
    /\ UNCHANGED <<tools, convs, calls, events, drawn, cut>>

\* Mutants of Refused: the keys of events, or of calls, do not refuse.
RefusedForCalls(a)  == \E t \in Tool : ToolOf(t, a) /\ Called(t)
RefusedForEvents(a) == a \in events

\* The key of an event has no ON DELETE action.  That of a call would SET NULL
\* its tool, in a column that is NOT NULL: the tools go first, and fail.
Refused(a) == \/ a \in events
              \/ \E t \in Tool : ToolOf(t, a) /\ Called(t)

\* DELETE cascades to tools and conversations, these to messages and to calls.
DeleteAgent(r) ==
    /\ At(r, "deleteAgent")
    /\ LET a == requests[r].agent
       IN IF Refused(a)
          THEN UNCHANGED <<agents, tools, convs, calls>>
          ELSE /\ agents' = agents \ {a}
               /\ tools' = [t \in Tool |-> IF ToolOf(t, a) THEN NoRow ELSE tools[t]]
               /\ convs' = [c \in Conv |-> IF ConvOf(c, a) THEN NoRow ELSE convs[c]]
               /\ calls' = {call \in calls : ~ConvOf(call.conv, a)}
    /\ Respond(r)
    /\ UNCHANGED <<events, drawn, cut>>

AgentCall(r)    == UpdateAgent(r) \/ RemoveAgent(r)
AgentHandler(r) == SaveAgent(r) \/ DeleteAgent(r)
=============================================================================
