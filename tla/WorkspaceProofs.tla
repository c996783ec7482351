--------------------------- MODULE WorkspaceProofs ---------------------------
(***************************************************************************)
(* Theorems about Workspace, for any sets of organizations, agents, tools,  *)
(* conversations, secrets, sessions and requests, and any MaxCount.        *)
(***************************************************************************)
EXTENDS Workspace, FiniteSetTheorems, TLAPS

(* ------------------------------- Records -------------------------------- *)

\* The records that stand for the absence of a row are no rows.
LEMMA NoRowIsNoRow == NoRow \notin ToolRow /\ NoRow \notin ConvRow
  <1>1. NoRow \notin ToolRow
    <2>1. ASSUME NoRow \in ToolRow
          PROVE  FALSE
      <3>1. "agent" \in DOMAIN NoRow
        BY <2>1 DEF ToolRow
      <3>2. QED
        BY <3>1 DEF NoRow
    <2>2. QED
      BY <2>1
  <1>2. NoRow \notin ConvRow
    BY DEF NoRow, ConvRow
  <1>3. QED
    BY <1>1, <1>2

\* The fields of a tool's row, and of a conversation's.
LEMMA ToolFields ==
    ASSUME WorkspaceTypeOK, NEW t \in Tool, Exists(t)
    PROVE  /\ tools[t] \in ToolRow
           /\ tools[t].agent \in Agent
           /\ tools[t].headers \in Headers \cup {NoHeaders}
  <1>1. tools[t] \in ToolRow
    BY DEF WorkspaceTypeOK, Exists
  <1>2. QED
    BY <1>1 DEF ToolRow

LEMMA ConvFields ==
    ASSUME WorkspaceTypeOK, NEW c \in Conv, Has(c)
    PROVE  /\ convs[c] \in ConvRow
           /\ convs[c].agent \in Agent
           /\ convs[c].session \in Session
           /\ convs[c].messageCount \in Nat
           /\ convs[c].totalTokens \in Nat
  <1>1. convs[c] \in ConvRow
    BY DEF WorkspaceTypeOK, Has
  <1>2. QED
    BY <1>1 DEF ConvRow

\* What the statements on a conversation write leaves its other fields.
LEMMA RowWritten ==
    ASSUME NEW row \in ConvRow
    PROVE  /\ /\ [row EXCEPT !.status = "ended"] \in ConvRow
              /\ [row EXCEPT !.status = "ended"].agent = row.agent
              /\ [row EXCEPT !.status = "ended"].session = row.session
              /\ [row EXCEPT !.status = "ended"].messageCount = row.messageCount
              /\ [row EXCEPT !.status = "ended"].totalTokens = row.totalTokens
           /\ /\ Counted(row) \in ConvRow
              /\ Counted(row).agent = row.agent
              /\ Counted(row).session = row.session
              /\ Counted(row).messageCount = row.messageCount + 1
              /\ Counted(row).totalTokens = row.totalTokens
           /\ /\ [row EXCEPT !.totalTokens = @ + 1] \in ConvRow
              /\ [row EXCEPT !.totalTokens = @ + 1].agent = row.agent
              /\ [row EXCEPT !.totalTokens = @ + 1].session = row.session
              /\ [row EXCEPT !.totalTokens = @ + 1].messageCount = row.messageCount
              /\ [row EXCEPT !.totalTokens = @ + 1].totalTokens = row.totalTokens + 1
  BY DEF ConvRow, Counted

\* What encryption, and decryption of it, do to headers.
LEMMA StoredType ==
    ASSUME NEW h \in Entered \cup {NoHeaders}
    PROVE  /\ Stored(h) \in Headers \cup {NoHeaders}
           /\ Stored(h) # NoHeaders => /\ h \in Entered
                                       /\ Stored(h).layers = 1
                                       /\ Stored(h).secret = h.secret
  BY DEF Stored, Encrypt, Entered, Headers

LEMMA MergedType ==
    ASSUME NEW old \in Headers \cup {NoHeaders},
           NEW h \in Entered \cup {NoHeaders, NotGiven}
    PROVE  /\ Merged(old, h) \in Headers \cup {NoHeaders}
           /\ \/ Merged(old, h) = old
              \/ Merged(old, h) # NoHeaders => Merged(old, h).layers = 1
  BY StoredType DEF Merged

LEMMA UsesType ==
    ASSUME NEW h
    PROVE  Uses(h) \subseteq Secret
  BY DEF Uses, Entered

(* --------------------------- Type correctness ---------------------------- *)

HasEntity(r) == requests[r].pc \in {"reload", "updateTool", "insertAgain"}
HasTool(r)   == HasEntity(r) \/ At(r, "deleteTool")
HasAgent(r)  == requests[r].pc \in {"saveAgent", "deleteAgent", "insertTool"}

\* What the program counter of a request says about its other fields.
LEMMA RequestFields ==
    ASSUME WorkspaceTypeOK, NEW r \in Req
    PROVE  /\ HasAgent(r) => requests[r].agent \in Agent /\ requests[r].org \in Org
           /\ HasTool(r) => requests[r].id \in Tool /\ requests[r].org \in Org
           /\ HasEntity(r) =>
                 /\ requests[r].row \in ToolRow
                 /\ requests[r].row.agent \in Agent
                 /\ requests[r].row.headers \in Headers \cup {NoHeaders}
           /\ At(r, "insertConv") => /\ requests[r].agent \in Agent
                                     /\ requests[r].session \in Session
           /\ At(r, "addTokens") => requests[r].conv \in Conv
           /\ At(r, "insertEvent") => requests[r].agent \in Agent
  <1>1. requests[r] \in Request
    BY DEF WorkspaceTypeOK
  <1>2. HasEntity(r) => requests[r].row \in ToolRow
    BY <1>1 DEF Request, Idle, AgentRequest, ToolRequest, ConvRequest, HasEntity
  <1>3. HasAgent(r) => requests[r].agent \in Agent /\ requests[r].org \in Org
    BY <1>1 DEF Request, Idle, AgentRequest, ToolRequest, ConvRequest, HasAgent
  <1>4. HasTool(r) => requests[r].id \in Tool /\ requests[r].org \in Org
    BY <1>1 DEF Request, Idle, AgentRequest, ToolRequest, ConvRequest, HasTool,
                HasEntity, At
  <1>5. /\ At(r, "insertConv") => /\ requests[r].agent \in Agent
                                  /\ requests[r].session \in Session
        /\ At(r, "addTokens") => requests[r].conv \in Conv
        /\ At(r, "insertEvent") => requests[r].agent \in Agent
    BY <1>1 DEF Request, Idle, AgentRequest, ToolRequest, ConvRequest, At
  <1>6. QED
    BY <1>2, <1>3, <1>4, <1>5 DEF ToolRow

\* A step of one handler leaves the others, and its own slot gets the record.
LEMMA ContinueSlots ==
    ASSUME WorkspaceTypeOK, NEW r \in Req, NEW rec, Continue(r, rec)
    PROVE  /\ requests'[r] = rec
           /\ \A s \in Req \ {r} : requests'[s] = requests[s]
           /\ rec \in Request => requests' \in [Req -> Request]
  BY DEF WorkspaceTypeOK, Continue

LEMMA RespondSlots ==
    ASSUME WorkspaceTypeOK, NEW r \in Req, Respond(r)
    PROVE  /\ requests'[r] = Idle
           /\ \A s \in Req \ {r} : requests'[s] = requests[s]
           /\ requests' \in [Req -> Request]
  <1>1. Idle \in Request
    BY DEF Request
  <1>2. QED
    BY <1>1, ContinueSlots DEF Respond

\* Handlers and calls about agents keep the types.
LEMMA AgentType ==
    ASSUME WorkspaceTypeOK, NEW r \in Req, AgentCall(r) \/ AgentHandler(r)
    PROVE  WorkspaceTypeOK'
  <1>1. CASE UpdateAgent(r)
    <2>1. PICK org \in Org, a \in Agent :
             Continue(r, [pc |-> "saveAgent", agent |-> a, org |-> org])
      BY <1>1 DEF UpdateAgent
    <2>2. [pc |-> "saveAgent", agent |-> a, org |-> org] \in Request
      BY DEF Request, AgentRequest
    <2>3. QED
      BY <1>1, <2>1, <2>2, ContinueSlots DEF UpdateAgent, tables, WorkspaceTypeOK
  <1>2. CASE RemoveAgent(r)
    <2>1. PICK org \in Org, a \in Agent :
             Continue(r, [pc |-> "deleteAgent", agent |-> a, org |-> org])
      BY <1>2 DEF RemoveAgent
    <2>2. [pc |-> "deleteAgent", agent |-> a, org |-> org] \in Request
      BY DEF Request, AgentRequest
    <2>3. QED
      BY <1>2, <2>1, <2>2, ContinueSlots DEF RemoveAgent, tables, WorkspaceTypeOK
  <1>3. CASE SaveAgent(r)
    <2>1. requests[r].agent \in Agent
      BY <1>3, RequestFields DEF SaveAgent, HasAgent, At
    <2>2. QED
      BY <1>3, <2>1, RespondSlots DEF SaveAgent, WorkspaceTypeOK
  <1>4. CASE DeleteAgent(r)
    BY <1>4, RespondSlots DEF DeleteAgent, WorkspaceTypeOK
  <1>5. QED
    BY <1>1, <1>2, <1>3, <1>4 DEF AgentCall, AgentHandler

\* Handlers and calls about tools keep the types.
LEMMA ToolType ==
    ASSUME WorkspaceTypeOK, NEW r \in Req, ToolCall(r) \/ ToolHandler(r)
    PROVE  WorkspaceTypeOK'
  <1>1. CASE CreateTool(r)
    <2>1. PICK org \in Org, a \in Agent :
             Continue(r, [pc |-> "insertTool", agent |-> a, org |-> org])
      BY <1>1 DEF CreateTool
    <2>2. [pc |-> "insertTool", agent |-> a, org |-> org] \in Request
      BY DEF Request, ToolRequest
    <2>3. QED
      BY <1>1, <2>1, <2>2, ContinueSlots DEF CreateTool, tables, WorkspaceTypeOK
  <1>2. CASE InsertTool(r)
    <2>1. requests[r].agent \in Agent
      BY <1>2, RequestFields DEF InsertTool, HasAgent, At
    <2>2. CASE requests[r].agent \in agents
      <3>1. PICK t \in Tool, h \in Entered \cup {NoHeaders} :
               /\ tools' = [tools EXCEPT ![t] = [agent |-> requests[r].agent,
                                                 headers |-> Stored(h)]]
               /\ drawn' = drawn \cup {t} \cup Uses(h)
        BY <1>2, <2>2 DEF InsertTool
      <3>2. [agent |-> requests[r].agent, headers |-> Stored(h)] \in ToolRow
        BY <2>1, StoredType DEF ToolRow
      <3>3. tools' \in [Tool -> ToolRow \cup {NoRow}]
        BY <3>1, <3>2 DEF WorkspaceTypeOK
      <3>4. drawn' \subseteq Agent \cup Tool \cup Conv \cup Secret
        BY <3>1, UsesType DEF WorkspaceTypeOK
      <3>5. QED
        BY <1>2, <3>3, <3>4, RespondSlots DEF InsertTool, WorkspaceTypeOK
    <2>3. CASE requests[r].agent \notin agents
      BY <1>2, <2>3, RespondSlots DEF InsertTool, WorkspaceTypeOK
    <2>4. QED
      BY <2>2, <2>3
  <1>3. CASE UpdateTool(r)
    <2>1. PICK org \in Org, t \in Tool, h \in Entered \cup {NoHeaders, NotGiven} :
             /\ Exists(t)
             /\ Continue(r, [pc |-> "reload", id |-> t, org |-> org,
                             row |-> [agent |-> tools[t].agent,
                                      headers |-> Merged(tools[t].headers, h)]])
             /\ drawn' = drawn \cup Uses(h)
      BY <1>3 DEF UpdateTool
    <2>2. [agent |-> tools[t].agent, headers |-> Merged(tools[t].headers, h)] \in ToolRow
      BY <2>1, ToolFields, MergedType DEF ToolRow
    <2>3. [pc |-> "reload", id |-> t, org |-> org,
           row |-> [agent |-> tools[t].agent,
                    headers |-> Merged(tools[t].headers, h)]] \in Request
      BY <2>2 DEF Request, ToolRequest
    <2>4. drawn' \subseteq Agent \cup Tool \cup Conv \cup Secret
      BY <2>1, UsesType DEF WorkspaceTypeOK
    <2>5. requests' \in [Req -> Request]
      BY <2>1, <2>3, ContinueSlots
    <2>6. QED
      BY <1>3, <2>4, <2>5 DEF UpdateTool, WorkspaceTypeOK
  <1>4. CASE Reload(r)
    <2>1. /\ requests[r].id \in Tool
          /\ requests[r].org \in Org
          /\ requests[r].row \in ToolRow
      BY <1>4, RequestFields DEF Reload, HasTool, HasEntity, At
    <2>2. CASE Respond(r)
      BY <1>4, <2>2, RespondSlots DEF Reload, tables, WorkspaceTypeOK
    <2>3. ASSUME NEW pc \in {"updateTool", "insertAgain"},
                 Continue(r, [pc |-> pc, id |-> requests[r].id,
                              org |-> requests[r].org, row |-> requests[r].row])
          PROVE  WorkspaceTypeOK'
      <3>1. [pc |-> pc, id |-> requests[r].id, org |-> requests[r].org,
             row |-> requests[r].row] \in Request
        BY <2>1 DEF Request, ToolRequest
      <3>2. QED
        BY <1>4, <2>3, <3>1, ContinueSlots DEF Reload, tables, WorkspaceTypeOK
    <2>4. QED
      BY <1>4, <2>2, <2>3 DEF Reload
  <1>5. CASE UpdateRow(r) \/ InsertAgain(r)
    <2>1. requests[r].row \in ToolRow
      BY <1>5, RequestFields DEF UpdateRow, InsertAgain, HasEntity, At
    <2>2. tools' \in [Tool -> ToolRow \cup {NoRow}]
      BY <1>5, <2>1 DEF UpdateRow, InsertAgain, WorkspaceTypeOK
    <2>3. QED
      BY <1>5, <2>2, RespondSlots DEF UpdateRow, InsertAgain, WorkspaceTypeOK
  <1>6. CASE RemoveTool(r)
    <2>1. PICK org \in Org, t \in Tool :
             Continue(r, [pc |-> "deleteTool", id |-> t, org |-> org])
      BY <1>6 DEF RemoveTool
    <2>2. [pc |-> "deleteTool", id |-> t, org |-> org] \in Request
      BY DEF Request, ToolRequest
    <2>3. QED
      BY <1>6, <2>1, <2>2, ContinueSlots DEF RemoveTool, tables, WorkspaceTypeOK
  <1>7. CASE DeleteTool(r)
    <2>1. tools' \in [Tool -> ToolRow \cup {NoRow}]
      BY <1>7 DEF DeleteTool, WorkspaceTypeOK
    <2>2. QED
      BY <1>7, <2>1, RespondSlots DEF DeleteTool, WorkspaceTypeOK
  <1>8. QED
    BY <1>1, <1>2, <1>3, <1>4, <1>5, <1>6, <1>7 DEF ToolCall, ToolHandler

\* A new row of a conversation is well typed.
LEMMA NewConvType ==
    ASSUME NEW a \in Agent, NEW s \in Session
    PROVE  [agent |-> a, session |-> s, status |-> "active",
            messageCount |-> 0, totalTokens |-> 0] \in ConvRow
  BY DEF ConvRow

\* A conversation written by one of its statements stays well typed.
LEMMA ConvWrittenType ==
    ASSUME WorkspaceTypeOK, NEW c \in Conv, NEW row \in ConvRow,
           convs' = [convs EXCEPT ![c] = row]
    PROVE  convs' \in [Conv -> ConvRow \cup {NoRow}]
  BY DEF WorkspaceTypeOK

\* Handlers and calls about conversations and events keep the types.
LEMMA ConvType ==
    ASSUME WorkspaceTypeOK, NEW r \in Req, ConvCall(r) \/ ConvHandler(r)
    PROVE  WorkspaceTypeOK'
  <1>1. CASE FindOrCreate(r)
    <2>1. PICK a \in agents, s \in Session :
             Continue(r, [pc |-> "insertConv", agent |-> a, session |-> s])
      BY <1>1 DEF FindOrCreate
    <2>2. [pc |-> "insertConv", agent |-> a, session |-> s] \in Request
      BY DEF Request, ConvRequest, WorkspaceTypeOK
    <2>3. QED
      BY <1>1, <2>1, <2>2, ContinueSlots DEF FindOrCreate, tables, WorkspaceTypeOK
  <1>2. CASE InsertConv(r)
    <2>1. requests[r].agent \in Agent /\ requests[r].session \in Session
      BY <1>2, RequestFields DEF InsertConv
    <2>2. /\ convs' \in [Conv -> ConvRow \cup {NoRow}]
          /\ drawn' \subseteq Agent \cup Tool \cup Conv \cup Secret
      <3>1. CASE UNCHANGED <<convs, drawn>>
        BY <3>1 DEF WorkspaceTypeOK
      <3>2. ASSUME NEW c \in Conv \ drawn,
                   convs' = [convs EXCEPT ![c] =
                               [agent |-> requests[r].agent,
                                session |-> requests[r].session,
                                status |-> "active",
                                messageCount |-> 0, totalTokens |-> 0]],
                   drawn' = drawn \cup {c}
            PROVE  /\ convs' \in [Conv -> ConvRow \cup {NoRow}]
                   /\ drawn' \subseteq Agent \cup Tool \cup Conv \cup Secret
        <4>1. convs' \in [Conv -> ConvRow \cup {NoRow}]
          BY <2>1, <3>2, NewConvType, ConvWrittenType
        <4>2. QED
          BY <3>2, <4>1 DEF WorkspaceTypeOK
      <3>3. QED
        BY <1>2, <3>1, <3>2 DEF InsertConv
    <2>3. QED
      BY <1>2, <2>2, RespondSlots DEF InsertConv, WorkspaceTypeOK
  <1>3. CASE IncrementStats(r)
    <2>1. PICK c \in Conv :
             /\ Has(c)
             /\ convs' = [convs EXCEPT ![c] = Counted(convs[c])]
             /\ Continue(r, [pc |-> "addTokens", conv |-> c])
      BY <1>3 DEF IncrementStats
    <2>2. [pc |-> "addTokens", conv |-> c] \in Request
      BY DEF Request, ConvRequest
    <2>3. requests' \in [Req -> Request]
      BY <2>1, <2>2, ContinueSlots
    <2>4. convs' \in [Conv -> ConvRow \cup {NoRow}]
      BY <2>1, ConvFields, RowWritten, ConvWrittenType
    <2>5. QED
      BY <1>3, <2>3, <2>4 DEF IncrementStats, WorkspaceTypeOK
  <1>4. CASE AddTokens(r)
    <2>1. requests[r].conv \in Conv
      BY <1>4, RequestFields DEF AddTokens
    <2>2. convs' \in [Conv -> ConvRow \cup {NoRow}]
      <3>1. CASE Has(requests[r].conv)
        BY <1>4, <2>1, <3>1, ConvFields, RowWritten, ConvWrittenType DEF AddTokens
      <3>2. CASE ~Has(requests[r].conv)
        BY <1>4, <3>2 DEF AddTokens, WorkspaceTypeOK
      <3>3. QED
        BY <3>1, <3>2
    <2>3. QED
      BY <1>4, <2>2, RespondSlots DEF AddTokens, WorkspaceTypeOK
  <1>5. CASE Log(r)
    <2>1. PICK a \in agents : Continue(r, [pc |-> "insertEvent", agent |-> a])
      BY <1>5 DEF Log
    <2>2. [pc |-> "insertEvent", agent |-> a] \in Request
      BY DEF Request, ConvRequest, WorkspaceTypeOK
    <2>3. QED
      BY <1>5, <2>1, <2>2, ContinueSlots DEF Log, tables, WorkspaceTypeOK
  <1>6. CASE InsertEvent(r)
    BY <1>6, RespondSlots DEF InsertEvent, WorkspaceTypeOK
  <1>7. QED
    BY <1>1, <1>2, <1>3, <1>4, <1>5, <1>6 DEF ConvCall, ConvHandler

\* Every step keeps the types.
LEMMA TypeStep ==
    ASSUME WorkspaceTypeOK, [Next]_vars
    PROVE  WorkspaceTypeOK'
  <1>1. ASSUME NEW r \in Req,
               \/ AgentCall(r) \/ ToolCall(r) \/ ConvCall(r) \/ Handler(r)
        PROVE  WorkspaceTypeOK'
    BY <1>1, AgentType, ToolType, ConvType DEF Handler
  <1>2. ASSUME NEW r \in Req, Fail(r)
        PROVE  WorkspaceTypeOK'
    <2>1. cut' \in [Conv -> Nat]
      <3>1. CASE At(r, "addTokens")
        <4>1. requests[r].conv \in Conv
          BY <3>1, RequestFields
        <4>2. QED
          BY <1>2, <3>1, <4>1 DEF Fail, WorkspaceTypeOK
      <3>2. CASE ~At(r, "addTokens")
        BY <1>2, <3>2 DEF Fail, WorkspaceTypeOK
      <3>3. QED
        BY <3>1, <3>2
    <2>2. QED
      BY <1>2, <2>1, RespondSlots DEF Fail, tables, WorkspaceTypeOK
  <1>3. CASE CreateAgent
    BY <1>3 DEF CreateAgent, WorkspaceTypeOK
  <1>4. CASE End
    <2>1. PICK c \in Conv : /\ Has(c)
                            /\ convs' = [convs EXCEPT ![c].status = "ended"]
      BY <1>4 DEF End
    <2>2. convs' = [convs EXCEPT ![c] = [convs[c] EXCEPT !.status = "ended"]]
      BY <2>1
    <2>3. convs' \in [Conv -> ConvRow \cup {NoRow}]
      BY <2>1, <2>2, ConvFields, RowWritten, ConvWrittenType
    <2>4. QED
      BY <1>4, <2>3 DEF End, WorkspaceTypeOK
  <1>5. CASE RecordCall
    BY <1>5 DEF RecordCall, Call, WorkspaceTypeOK
  <1>6. CASE UNCHANGED vars
    BY <1>6 DEF vars, tables, WorkspaceTypeOK
  <1>7. QED
    BY <1>1, <1>2, <1>3, <1>4, <1>5, <1>6 DEF Next

\* The initial state is well typed.
LEMMA InitType == Init => WorkspaceTypeOK
  BY DEF Init, WorkspaceTypeOK, Request

\* The tables and what handlers carry are well typed.
THEOREM TypeCorrect == Spec => []WorkspaceTypeOK
  BY InitType, TypeStep, PTL DEF Spec

(* ------------------------ What steps do, in short ------------------------ *)

\* What a slot that holds a tool, an agent or a conversation after a step got it
\* from: it had it before, or a call has just read it.
EntitySlot(s) == HasEntity(s)' =>
    \/ /\ HasEntity(s)
       /\ requests'[s].id = requests[s].id
       /\ requests'[s].row = requests[s].row
    \/ \E t \in Tool, h \in Entered \cup {NoHeaders, NotGiven} :
          /\ Exists(t)
          /\ requests'[s].id = t
          /\ requests'[s].row = [agent |-> tools[t].agent,
                                 headers |-> Merged(tools[t].headers, h)]
DeleteSlot(s) == At(s, "deleteTool")' =>
    \/ requests'[s] = requests[s]
    \/ \E t \in Tool : Exists(t) /\ requests'[s].id = t
TokensSlot(s) == At(s, "addTokens")' =>
    \/ requests'[s] = requests[s]
    \/ \E c \in Conv : Has(c) /\ requests'[s].conv = c
SlotStep(s) == EntitySlot(s) /\ DeleteSlot(s) /\ TokensSlot(s)

\* A slot that a step leaves, and one that it leaves idle.
LEMMA SlotKept ==
    ASSUME NEW s \in Req, requests'[s] = requests[s]
    PROVE  SlotStep(s)
  BY DEF SlotStep, EntitySlot, DeleteSlot, TokensSlot, HasEntity, At

LEMMA SlotWith ==
    ASSUME NEW s \in Req,
           requests'[s].pc \notin {"reload", "updateTool", "insertAgain", "deleteTool",
                                   "addTokens"}
    PROVE  SlotStep(s)
  BY DEF SlotStep, EntitySlot, DeleteSlot, TokensSlot, HasEntity, At

\* The slot of a call, or of a handler, about agents, tools or conversations.
LEMMA CallSlot ==
    ASSUME WorkspaceTypeOK, NEW r \in Req, AgentCall(r) \/ ToolCall(r) \/ ConvCall(r)
    PROVE  SlotStep(r) /\ \A s \in Req \ {r} : requests'[s] = requests[s]
  <1>1. CASE AgentCall(r) \/ CreateTool(r)
    <2>1. PICK org \in Org, a \in Agent, pc \in {"saveAgent", "deleteAgent", "insertTool"} :
             /\ Manages(org, a)
             /\ Continue(r, [pc |-> pc, agent |-> a, org |-> org])
      BY <1>1 DEF AgentCall, UpdateAgent, RemoveAgent, CreateTool
    <2>2. QED
      BY <2>1, ContinueSlots, SlotWith
  <1>2. CASE UpdateTool(r)
    <2>1. PICK org \in Org, t \in Tool, h \in Entered \cup {NoHeaders, NotGiven} :
             /\ Exists(t)
             /\ Manages(org, tools[t].agent)
             /\ Continue(r, [pc |-> "reload", id |-> t, org |-> org,
                             row |-> [agent |-> tools[t].agent,
                                      headers |-> Merged(tools[t].headers, h)]])
      BY <1>2 DEF UpdateTool
    <2>2. requests'[r] = [pc |-> "reload", id |-> t, org |-> org,
                          row |-> [agent |-> tools[t].agent,
                                   headers |-> Merged(tools[t].headers, h)]]
      BY <2>1, ContinueSlots
    <2>3. EntitySlot(r)
      BY <2>1, <2>2 DEF EntitySlot
    <2>4. QED
      BY <2>1, <2>2, <2>3, ContinueSlots
         DEF SlotStep, DeleteSlot, TokensSlot, At
  <1>3. CASE RemoveTool(r)
    <2>1. PICK org \in Org, t \in Tool :
             /\ Exists(t)
             /\ Manages(org, tools[t].agent)
             /\ Continue(r, [pc |-> "deleteTool", id |-> t, org |-> org])
      BY <1>3 DEF RemoveTool
    <2>2. requests'[r] = [pc |-> "deleteTool", id |-> t, org |-> org]
      BY <2>1, ContinueSlots
    <2>3. DeleteSlot(r)
      BY <2>1, <2>2 DEF DeleteSlot
    <2>4. QED
      BY <2>1, <2>2, <2>3, ContinueSlots
         DEF SlotStep, EntitySlot, HasEntity, TokensSlot, At
  <1>4. CASE FindOrCreate(r) \/ Log(r)
    <2>1. PICK rec : Continue(r, rec) /\ rec.pc \in {"insertConv", "insertEvent"}
      <3>1. CASE FindOrCreate(r)
        <4>1. PICK a \in agents, w \in Session :
                 Continue(r, [pc |-> "insertConv", agent |-> a, session |-> w])
          BY <3>1 DEF FindOrCreate
        <4>2. QED
          BY <4>1
      <3>2. CASE Log(r)
        <4>1. PICK a \in agents : Continue(r, [pc |-> "insertEvent", agent |-> a])
          BY <3>2 DEF Log
        <4>2. QED
          BY <4>1
      <3>3. QED
        BY <1>4, <3>1, <3>2
    <2>2. QED
      BY <2>1, ContinueSlots, SlotWith
  <1>5. CASE IncrementStats(r)
    <2>1. PICK c \in Conv : Has(c) /\ Continue(r, [pc |-> "addTokens", conv |-> c])
      BY <1>5 DEF IncrementStats
    <2>2. requests'[r] = [pc |-> "addTokens", conv |-> c]
      BY <2>1, ContinueSlots
    <2>3. TokensSlot(r)
      BY <2>1, <2>2 DEF TokensSlot
    <2>4. QED
      BY <2>1, <2>2, <2>3, ContinueSlots
         DEF SlotStep, EntitySlot, HasEntity, DeleteSlot, At
  <1>6. QED
    BY <1>1, <1>2, <1>3, <1>4, <1>5 DEF ToolCall, ConvCall

LEMMA HandlerSlot ==
    ASSUME WorkspaceTypeOK, NEW r \in Req, Handler(r) \/ Fail(r)
    PROVE  /\ SlotStep(r)
           /\ \A s \in Req \ {r} : requests'[s] = requests[s]
           /\ ~Reload(r) => requests'[r] = Idle
  <1>1. CASE Respond(r)
    <2>1. requests'[r].pc = "idle"
      BY <1>1, RespondSlots DEF Idle
    <2>2. QED
      BY <1>1, <2>1, RespondSlots, SlotWith
  <1>2. CASE ~Respond(r)
    <2>1. Reload(r)
      BY <1>2 DEF Handler, Fail, AgentHandler, ToolHandler, ConvHandler, SaveAgent,
                  DeleteAgent, InsertTool, UpdateRow, InsertAgain, DeleteTool,
                  InsertConv, AddTokens, InsertEvent
    <2>2. PICK pc \in {"updateTool", "insertAgain"} :
             Continue(r, [pc |-> pc, id |-> requests[r].id,
                          org |-> requests[r].org, row |-> requests[r].row])
      BY <1>2, <2>1 DEF Reload
    <2>3. requests'[r] = [pc |-> pc, id |-> requests[r].id,
                          org |-> requests[r].org, row |-> requests[r].row]
      BY <2>2, ContinueSlots
    <2>4. HasEntity(r)
      BY <2>1 DEF Reload, HasEntity, At
    <2>5. EntitySlot(r)
      BY <2>3, <2>4 DEF EntitySlot
    <2>6. QED
      BY <2>1, <2>2, <2>3, <2>5, ContinueSlots
         DEF SlotStep, DeleteSlot, TokensSlot, At
  <1>3. QED
    BY <1>1, <1>2

\* Every slot, in every step.
LEMMA EverySlot ==
    ASSUME WorkspaceTypeOK, [Next]_vars, NEW s \in Req
    PROVE  SlotStep(s)
  <1>1. ASSUME NEW r \in Req,
               \/ AgentCall(r) \/ ToolCall(r) \/ ConvCall(r) \/ Handler(r) \/ Fail(r)
        PROVE  SlotStep(s)
    BY <1>1, CallSlot, HandlerSlot, SlotKept
  <1>2. CASE UNCHANGED requests
    BY <1>2, SlotKept
  <1>3. QED
    BY <1>1, <1>2 DEF Next, CreateAgent, End, RecordCall, vars

\* What a step makes of the row of a tool: it leaves it, a handler inserts or
\* writes it, or a handler removes it, or its agent, and no call names it.
InsertsTool(r, t) ==
    /\ At(r, "insertTool")
    /\ requests[r].agent \in agents
    /\ t \notin drawn
    /\ \E h \in Entered \cup {NoHeaders} :
          /\ tools'[t] = [agent |-> requests[r].agent, headers |-> Stored(h)]
          /\ drawn' = drawn \cup {t} \cup Uses(h)
WritesTool(r, t) ==
    /\ requests[r].pc \in {"updateTool", "insertAgain"}
    /\ requests[r].id = t
    /\ tools'[t] = requests[r].row
    /\ Exists(t) \/ requests[r].row.agent \in agents
    /\ UNCHANGED drawn
DropsTool(r, t) ==
    /\ Exists(t)
    /\ ~Exists(t)'
    /\ \/ At(r, "deleteTool") /\ requests[r].id = t /\ ~Called(t)
       \/ DeleteAgent(r) /\ requests[r].agent = tools[t].agent
    /\ UNCHANGED drawn
ToolStep(t) ==
    \/ tools'[t] = tools[t]
    \/ \E r \in Req : /\ requests'[r] = Idle
                      /\ InsertsTool(r, t) \/ WritesTool(r, t) \/ DropsTool(r, t)

LEMMA EveryTool ==
    ASSUME WorkspaceTypeOK, [Next]_vars, NEW t \in Tool
    PROVE  ToolStep(t)
  <1>1. ASSUME NEW r \in Req, InsertTool(r)
        PROVE  ToolStep(t)
    <2>1. requests'[r] = Idle
      BY <1>1, RespondSlots DEF InsertTool
    <2>2. CASE requests[r].agent \in agents
      <3>1. PICK k \in Tool, h \in Entered \cup {NoHeaders} :
               /\ Fresh(k)
               /\ tools' = [tools EXCEPT ![k] = [agent |-> requests[r].agent,
                                                 headers |-> Stored(h)]]
               /\ drawn' = drawn \cup {k} \cup Uses(h)
        BY <1>1, <2>2 DEF InsertTool
      <3>2. CASE k = t
        <4>1. tools'[t] = [agent |-> requests[r].agent, headers |-> Stored(h)]
          BY <3>1, <3>2 DEF WorkspaceTypeOK
        <4>2. InsertsTool(r, t)
          BY <1>1, <2>2, <3>1, <3>2, <4>1 DEF InsertsTool, InsertTool, Fresh
        <4>3. QED
          BY <2>1, <4>2 DEF ToolStep
      <3>3. CASE k # t
        BY <3>1, <3>3 DEF ToolStep, WorkspaceTypeOK
      <3>4. QED
        BY <3>2, <3>3
    <2>3. CASE requests[r].agent \notin agents
      BY <1>1, <2>3 DEF InsertTool, ToolStep
    <2>4. QED
      BY <2>2, <2>3
  <1>2. ASSUME NEW r \in Req, UpdateRow(r) \/ InsertAgain(r)
        PROVE  ToolStep(t)
    <2>1. requests'[r] = Idle
      BY <1>2, RespondSlots DEF UpdateRow, InsertAgain
    <2>2. CASE tools'[t] # tools[t]
      <3>1. WritesTool(r, t)
        BY <1>2, <2>2 DEF UpdateRow, InsertAgain, Insertable, WritesTool, At,
                         WorkspaceTypeOK
      <3>2. QED
        BY <2>1, <3>1 DEF ToolStep
    <2>3. QED
      BY <2>2 DEF ToolStep
  <1>3. ASSUME NEW r \in Req, DeleteTool(r) \/ DeleteAgent(r)
        PROVE  ToolStep(t)
    <2>1. requests'[r] = Idle
      BY <1>3, RespondSlots DEF DeleteTool, DeleteAgent
    <2>2. CASE tools'[t] # tools[t]
      <3>1. CASE DeleteTool(r)
        <4>1. /\ t = requests[r].id
              /\ ~Called(t)
              /\ tools'[t] = NoRow
          BY <2>2, <3>1 DEF DeleteTool, WorkspaceTypeOK
        <4>2. DropsTool(r, t)
          BY <2>2, <3>1, <4>1 DEF DeleteTool, DropsTool, Exists
        <4>3. QED
          BY <2>1, <4>2 DEF ToolStep
      <3>2. CASE DeleteAgent(r)
        <4>1. ToolOf(t, requests[r].agent) /\ tools'[t] = NoRow
          BY <2>2, <3>2 DEF DeleteAgent
        <4>2. DropsTool(r, t)
          BY <3>2, <4>1 DEF DeleteAgent, DropsTool, ToolOf, Exists
        <4>3. QED
          BY <2>1, <4>2 DEF ToolStep
      <3>3. QED
        BY <1>3, <3>1, <3>2
    <2>3. QED
      BY <2>2 DEF ToolStep
  <1>4. CASE UNCHANGED tools
    BY <1>4 DEF ToolStep
  <1>5. QED
    BY <1>1, <1>2, <1>3, <1>4
       DEF Next, Handler, AgentCall, UpdateAgent, RemoveAgent, ToolCall, CreateTool,
           UpdateTool, RemoveTool, ConvCall, FindOrCreate, IncrementStats, Log,
           AgentHandler, SaveAgent, ToolHandler, Reload, ConvHandler, InsertConv,
           AddTokens, InsertEvent, Fail, CreateAgent, End, RecordCall, tables, vars

\* Ids and secrets are drawn for good.
LEMMA DrawnKept ==
    ASSUME WorkspaceTypeOK, [Next]_vars
    PROVE  drawn \subseteq drawn'
  <1>1. ASSUME NEW r \in Req, InsertTool(r) \/ UpdateTool(r) \/ InsertConv(r)
        PROVE  drawn \subseteq drawn'
    BY <1>1 DEF InsertTool, UpdateTool, InsertConv
  <1>2. CASE CreateAgent
    BY <1>2 DEF CreateAgent
  <1>3. CASE UNCHANGED drawn
    BY <1>3
  <1>4. QED
    BY <1>1, <1>2, <1>3
       DEF Next, Handler, AgentCall, UpdateAgent, RemoveAgent, ToolCall, CreateTool,
           RemoveTool, ConvCall, FindOrCreate, IncrementStats, Log,
           AgentHandler, SaveAgent, DeleteAgent, ToolHandler, Reload, UpdateRow,
           InsertAgain, DeleteTool, ConvHandler,
           AddTokens, InsertEvent, Fail, End, RecordCall, tables, vars

(* ------------------------- The inductive invariant ----------------------- *)

\* A row, or an entity that a handler will save, says that tool t is agent a's.
Says(t, a) ==
    \/ ToolOf(t, a)
    \/ \E r \in Req : HasEntity(r) /\ requests[r].id = t /\ requests[r].row.agent = a

\* No id is there that was not drawn.
Drawn ==
    /\ \A t \in Tool, a \in Agent : Says(t, a) => t \in drawn
    /\ \A r \in Req : HasTool(r) => requests[r].id \in drawn
    /\ \A c \in Conv : Has(c) => c \in drawn

\* Rows and entities never disagree on the agent of a tool.
OneOwner == \A t \in Tool : \A a, b \in Agent : Says(t, a) /\ Says(t, b) => a = b

\* Headers in rows, and in entities to be saved, were encrypted once.
Sealed(h) == h = NoHeaders \/ h.layers = 1
AllSealed ==
    /\ \A t \in Tool : Exists(t) => Sealed(tools[t].headers)
    /\ \A r \in Req : HasEntity(r) => Sealed(requests[r].row.headers)

WInv == /\ WorkspaceTypeOK /\ Drawn /\ OneOwner /\ AllSealed /\ References

\* Who says after a step whose a tool is said so before, or it is a new tool.
LEMMA SaysStep ==
    ASSUME WInv, [Next]_vars, NEW t \in Tool, NEW a \in Agent, Says(t, a)'
    PROVE  /\ Says(t, a) \/ ToolOf(t, a)'
           /\ Says(t, a) \/ (t \notin drawn /\ t \in drawn')
  <1>1. WorkspaceTypeOK /\ Drawn
    BY DEF WInv
  <1>2. ASSUME ToolOf(t, a)', ~Says(t, a)
        PROVE  t \notin drawn /\ t \in drawn'
    <2>1. tools'[t] # tools[t]
      BY <1>2 DEF Says, ToolOf, Exists
    <2>2. PICK r \in Req : InsertsTool(r, t) \/ WritesTool(r, t) \/ DropsTool(r, t)
      BY <1>1, <2>1, EveryTool DEF ToolStep
    <2>3. ~DropsTool(r, t)
      BY <1>2 DEF DropsTool, ToolOf
    <2>4. ~WritesTool(r, t)
      BY <1>2 DEF WritesTool, ToolOf, Says, HasEntity
    <2>5. QED
      BY <2>2, <2>3, <2>4 DEF InsertsTool
  <1>3. ASSUME NEW r \in Req, HasEntity(r)', requests'[r].id = t,
               requests'[r].row.agent = a
        PROVE  Says(t, a)
    <2>1. EntitySlot(r)
      BY <1>1, EverySlot DEF SlotStep
    <2>2. CASE HasEntity(r) /\ requests'[r].id = requests[r].id
               /\ requests'[r].row = requests[r].row
      BY <1>3, <2>2 DEF Says
    <2>3. ASSUME NEW k \in Tool, NEW h \in Entered \cup {NoHeaders, NotGiven},
                 Exists(k), requests'[r].id = k,
                 requests'[r].row = [agent |-> tools[k].agent,
                                     headers |-> Merged(tools[k].headers, h)]
          PROVE  Says(t, a)
      BY <1>3, <2>3 DEF Says, ToolOf
    <2>4. QED
      BY <1>3, <2>1, <2>2, <2>3 DEF EntitySlot
  <1>4. QED
    BY <1>2, <1>3 DEF Says

LEMMA OneOwnerStep ==
    ASSUME WInv, [Next]_vars
    PROVE  OneOwner'
  <1>1. SUFFICES ASSUME NEW t \in Tool, NEW a \in Agent, NEW b \in Agent,
                        Says(t, a)', Says(t, b)'
                 PROVE  a = b
    BY DEF OneOwner
  <1>2. CASE Says(t, a) /\ Says(t, b)
    BY <1>2 DEF WInv, OneOwner
  <1>3. CASE ~Says(t, a) /\ ~Says(t, b)
    BY <1>1, <1>3, SaysStep DEF ToolOf
  <1>4. CASE ~(Says(t, a) <=> Says(t, b))
    BY <1>1, <1>4, SaysStep DEF WInv, Drawn
  <1>5. QED
    BY <1>2, <1>3, <1>4

\* A slot with a tool had it before, or a call has read the tool's row.
LEMMA ToolSlot ==
    ASSUME WorkspaceTypeOK, [Next]_vars, NEW r \in Req, HasTool(r)'
    PROVE  \/ /\ HasTool(r)
              /\ requests'[r].id = requests[r].id
           \/ \E t \in Tool : Exists(t) /\ requests'[r].id = t
  <1>1. SlotStep(r)
    BY EverySlot
  <1>2. CASE HasEntity(r)'
    BY <1>1, <1>2 DEF SlotStep, EntitySlot, HasTool
  <1>3. CASE At(r, "deleteTool")'
    BY <1>1, <1>3 DEF SlotStep, DeleteSlot, HasTool, At
  <1>4. QED
    BY <1>2, <1>3 DEF HasTool

LEMMA SealedStep ==
    ASSUME WInv, [Next]_vars
    PROVE  AllSealed'
  <1>1. WorkspaceTypeOK /\ AllSealed
    BY DEF WInv
  <1>2. ASSUME NEW t \in Tool, Exists(t)'
        PROVE  Sealed(tools'[t].headers)
    <2>1. CASE tools'[t] = tools[t]
      BY <1>1, <1>2, <2>1 DEF AllSealed, Exists
    <2>2. ASSUME NEW r \in Req, InsertsTool(r, t)
          PROVE  Sealed(tools'[t].headers)
      BY <2>2, StoredType DEF InsertsTool, Sealed
    <2>3. ASSUME NEW r \in Req, WritesTool(r, t)
          PROVE  Sealed(tools'[t].headers)
      BY <1>1, <2>3 DEF WritesTool, AllSealed, HasEntity
    <2>4. QED
      BY <1>1, <1>2, <2>1, <2>2, <2>3, EveryTool DEF ToolStep, DropsTool
  <1>3. ASSUME NEW r \in Req, HasEntity(r)'
        PROVE  Sealed(requests'[r].row.headers)
    <2>1. CASE HasEntity(r) /\ requests'[r].row = requests[r].row
      BY <1>1, <2>1 DEF AllSealed
    <2>2. ASSUME NEW k \in Tool, NEW h \in Entered \cup {NoHeaders, NotGiven},
                 Exists(k),
                 requests'[r].row = [agent |-> tools[k].agent,
                                     headers |-> Merged(tools[k].headers, h)]
          PROVE  Sealed(requests'[r].row.headers)
      BY <1>1, <2>2, ToolFields, MergedType DEF AllSealed, Sealed
    <2>3. QED
      BY <1>1, <1>3, <2>1, <2>2, EverySlot DEF SlotStep, EntitySlot
  <1>4. QED
    BY <1>2, <1>3 DEF AllSealed

\* What a step makes of the row of a conversation.
ConvStep(c) ==
    \/ convs'[c] = convs[c]
    \/ /\ Has(c)
       /\ Has(c)'
       /\ convs'[c].agent = convs[c].agent
       /\ convs'[c].session = convs[c].session
    \/ \E r \in Req :
          /\ InsertConv(r)
          /\ requests[r].agent \in agents
          /\ Free(requests[r].session)
          /\ c \notin drawn
          /\ drawn' = drawn \cup {c}
          /\ convs' = [convs EXCEPT ![c] =
                         [agent |-> requests[r].agent, session |-> requests[r].session,
                          status |-> "active", messageCount |-> 0, totalTokens |-> 0]]
    \/ \E r \in Req : /\ DeleteAgent(r)
                      /\ ConvOf(c, requests[r].agent)
                      /\ convs'[c] = NoRow

\* A statement on one conversation keeps its agent and its session.
LEMMA WrittenStep ==
    ASSUME WorkspaceTypeOK, NEW d \in Conv, Has(d), NEW row \in ConvRow,
           row.agent = convs[d].agent, row.session = convs[d].session,
           convs' = [convs EXCEPT ![d] = row],
           NEW c \in Conv
    PROVE  ConvStep(c)
  <1>1. CASE c = d
    <2>1. convs'[c] = row
      BY <1>1 DEF WorkspaceTypeOK
    <2>2. Has(c)'
      BY <2>1, NoRowIsNoRow DEF Has
    <2>3. QED
      BY <1>1, <2>1, <2>2 DEF ConvStep
  <1>2. CASE c # d
    BY <1>2 DEF ConvStep, WorkspaceTypeOK
  <1>3. QED
    BY <1>1, <1>2

LEMMA EveryConv ==
    ASSUME WorkspaceTypeOK, [Next]_vars, NEW c \in Conv
    PROVE  ConvStep(c)
  <1>1. ASSUME NEW r \in Req, InsertConv(r)
        PROVE  ConvStep(c)
    <2>1. CASE UNCHANGED <<convs, drawn>>
      BY <2>1 DEF ConvStep
    <2>2. ASSUME NEW d \in Conv \ drawn, requests[r].agent \in agents,
                 Free(requests[r].session),
                 convs' = [convs EXCEPT ![d] =
                             [agent |-> requests[r].agent,
                              session |-> requests[r].session, status |-> "active",
                              messageCount |-> 0, totalTokens |-> 0]],
                 drawn' = drawn \cup {d}
          PROVE  ConvStep(c)
      <3>1. CASE c = d
        BY <1>1, <2>2, <3>1 DEF ConvStep
      <3>2. CASE c # d
        BY <2>2, <3>2 DEF ConvStep, WorkspaceTypeOK
      <3>3. QED
        BY <3>1, <3>2
    <2>3. QED
      BY <1>1, <2>1, <2>2 DEF InsertConv
  <1>2. ASSUME NEW r \in Req, IncrementStats(r)
        PROVE  ConvStep(c)
    <2>1. PICK d \in Conv : Has(d) /\ convs' = [convs EXCEPT ![d] = Counted(convs[d])]
      BY <1>2 DEF IncrementStats
    <2>2. QED
      BY <2>1, ConvFields, RowWritten, WrittenStep
  <1>3. ASSUME NEW r \in Req, AddTokens(r)
        PROVE  ConvStep(c)
    <2>1. CASE Has(requests[r].conv)
      <3>1. requests[r].conv \in Conv
        BY <1>3, RequestFields DEF AddTokens
      <3>2. convs' = [convs EXCEPT ![requests[r].conv] =
                        [convs[requests[r].conv] EXCEPT !.totalTokens = @ + 1]]
        BY <1>3, <2>1 DEF AddTokens
      <3>3. QED
        BY <2>1, <3>1, <3>2, ConvFields, RowWritten, WrittenStep
    <2>2. CASE ~Has(requests[r].conv)
      BY <1>3, <2>2 DEF AddTokens, ConvStep
    <2>3. QED
      BY <2>1, <2>2
  <1>4. CASE End
    <2>1. PICK d \in Conv : Has(d) /\ convs' = [convs EXCEPT ![d].status = "ended"]
      BY <1>4 DEF End
    <2>2. convs' = [convs EXCEPT ![d] = [convs[d] EXCEPT !.status = "ended"]]
      BY <2>1
    <2>3. QED
      BY <2>1, <2>2, ConvFields, RowWritten, WrittenStep
  <1>5. ASSUME NEW r \in Req, DeleteAgent(r)
        PROVE  ConvStep(c)
    BY <1>5 DEF DeleteAgent, ConvStep
  <1>6. CASE UNCHANGED convs
    BY <1>6 DEF ConvStep
  <1>7. QED
    BY <1>1, <1>2, <1>3, <1>4, <1>5, <1>6
       DEF Next, Handler, AgentCall, UpdateAgent, RemoveAgent, ToolCall, CreateTool,
           UpdateTool, RemoveTool, ConvCall, FindOrCreate, Log,
           AgentHandler, SaveAgent, ToolHandler, InsertTool, Reload, UpdateRow,
           InsertAgain, DeleteTool, ConvHandler, InsertEvent, Fail, CreateAgent,
           RecordCall, tables, vars

LEMMA DrawnStep ==
    ASSUME WInv, [Next]_vars
    PROVE  Drawn'
  <1>1. WorkspaceTypeOK /\ Drawn /\ drawn \subseteq drawn'
    BY DrawnKept DEF WInv
  <1>2. ASSUME NEW t \in Tool, NEW a \in Agent, Says(t, a)'
        PROVE  t \in drawn'
    BY <1>1, <1>2, SaysStep DEF Drawn
  <1>3. ASSUME NEW r \in Req, HasTool(r)'
        PROVE  requests'[r].id \in drawn'
    <2>1. CASE HasTool(r) /\ requests'[r].id = requests[r].id
      BY <1>1, <2>1 DEF Drawn
    <2>2. ASSUME NEW t \in Tool, Exists(t), requests'[r].id = t
          PROVE  requests'[r].id \in drawn'
      <3>1. tools[t].agent \in Agent /\ Says(t, tools[t].agent)
        BY <1>1, <2>2, ToolFields DEF Says, ToolOf
      <3>2. QED
        BY <1>1, <2>2, <3>1 DEF Drawn
    <2>3. QED
      BY <1>1, <1>3, <2>1, <2>2, ToolSlot
  <1>4. ASSUME NEW c \in Conv, Has(c)'
        PROVE  c \in drawn'
    <2>1. CASE Has(c)
      BY <1>1, <2>1 DEF Drawn
    <2>2. CASE ~Has(c)
      BY <1>1, <1>4, <2>2, EveryConv DEF ConvStep, Has
    <2>3. QED
      BY <2>1, <2>2
  <1>5. QED
    BY <1>2, <1>3, <1>4 DEF Drawn

(* ------------------------ References have their rows --------------------- *)

\* A deletion that nothing refuses takes what hangs on the agent with it.
LEMMA DeletionKeepsReferences ==
    ASSUME WInv, NEW r \in Req, DeleteAgent(r)
    PROVE  References' /\ calls \subseteq calls' /\ events \subseteq events'
  <1>1. WorkspaceTypeOK /\ References /\ UNCHANGED events
    BY DEF WInv, DeleteAgent
  <1>2. CASE UNCHANGED <<agents, tools, convs, calls>>
    BY <1>1, <1>2 DEF References, Exists, Has, ToolOf
  <1>3. ASSUME NEW a, ~Refused(a),
               agents' = agents \ {a},
               tools' = [t \in Tool |-> IF ToolOf(t, a) THEN NoRow ELSE tools[t]],
               convs' = [c \in Conv |-> IF ConvOf(c, a) THEN NoRow ELSE convs[c]],
               calls' = {call \in calls : ~ConvOf(call.conv, a)}
        PROVE  References' /\ calls \subseteq calls'
    <2>1. ASSUME NEW t \in Tool, Exists(t)'
          PROVE  tools'[t].agent \in agents'
      BY <1>1, <1>3, <2>1 DEF References, Exists, ToolOf
    <2>2. ASSUME NEW c \in Conv, Has(c)'
          PROVE  convs'[c].agent \in agents'
      BY <1>1, <1>3, <2>2 DEF References, Has, ConvOf
    <2>3. ASSUME NEW call \in calls
          PROVE  ~ConvOf(call.conv, a) /\ ~ToolOf(call.tool, a)
      <3>1. call.tool \in Tool /\ call.conv \in Conv
        BY <1>1 DEF WorkspaceTypeOK, Call
      <3>2. ~ToolOf(call.tool, a)
        BY <1>3, <3>1 DEF Refused, Called
      <3>3. QED
        BY <1>1, <3>2 DEF References, ConvOf
    <2>4. ASSUME NEW call \in calls'
          PROVE  Has(call.conv)' /\ ToolOf(call.tool, convs[call.conv].agent)'
      <3>1. call \in calls /\ call.tool \in Tool /\ call.conv \in Conv
        BY <1>1, <1>3 DEF WorkspaceTypeOK, Call
      <3>2. ~ConvOf(call.conv, a) /\ ~ToolOf(call.tool, a)
        BY <2>3, <3>1
      <3>3. convs'[call.conv] = convs[call.conv] /\ tools'[call.tool] = tools[call.tool]
        BY <1>3, <3>1, <3>2
      <3>4. QED
        BY <1>1, <3>1, <3>3 DEF References, Has, ToolOf, Exists
    <2>5. events \subseteq agents'
      BY <1>1, <1>3 DEF References, Refused
    <2>6. References'
      BY <1>1, <2>1, <2>2, <2>4, <2>5 DEF References
    <2>7. QED
      BY <1>3, <2>3, <2>6
  <1>4. QED
    BY <1>1, <1>2, <1>3 DEF DeleteAgent

\* All other steps: agents stay.
LEMMA AgentsStay ==
    ASSUME WInv, [Next]_vars, \A r \in Req : ~DeleteAgent(r)
    PROVE  /\ agents \subseteq agents'
           /\ calls \subseteq calls'
           /\ events \subseteq events' /\ events' \subseteq events \cup agents
           /\ calls' # calls => RecordCall
  <1>1. CASE CreateAgent \/ \E r \in Req : SaveAgent(r)
    BY <1>1 DEF CreateAgent, SaveAgent
  <1>2. CASE RecordCall
    BY <1>2 DEF RecordCall
  <1>3. CASE \E r \in Req : InsertEvent(r)
    BY <1>3 DEF InsertEvent
  <1>4. CASE UNCHANGED <<agents, calls, events>>
    BY <1>4
  <1>5. QED
    BY <1>1, <1>2, <1>3, <1>4
       DEF Next, Handler, AgentCall, UpdateAgent, RemoveAgent, ToolCall, CreateTool,
           UpdateTool, RemoveTool, ConvCall, FindOrCreate, IncrementStats, Log,
           AgentHandler, ToolHandler, InsertTool, Reload, UpdateRow, InsertAgain,
           DeleteTool, ConvHandler, InsertConv, AddTokens, Fail, End, tables, vars

\* The row of a tool that a call names stays, and its agent with it.
LEMMA CalledStays ==
    ASSUME WInv, [Next]_vars, \A r \in Req : ~DeleteAgent(r),
           NEW t \in Tool, Exists(t), Called(t)
    PROVE  Exists(t)' /\ tools'[t].agent = tools[t].agent
  <1>1. WorkspaceTypeOK
    BY DEF WInv
  <1>2. tools[t].agent \in Agent /\ Says(t, tools[t].agent)
    BY <1>1, ToolFields DEF Says, ToolOf
  <1>3. CASE tools'[t] = tools[t]
    BY <1>3 DEF Exists
  <1>4. ASSUME NEW r \in Req, InsertsTool(r, t)
        PROVE  FALSE
    BY <1>2, <1>4 DEF InsertsTool, WInv, Drawn
  <1>5. ASSUME NEW r \in Req, WritesTool(r, t)
        PROVE  Exists(t)' /\ tools'[t].agent = tools[t].agent
    <2>1. HasEntity(r) /\ requests[r].row \in ToolRow /\ requests[r].row.agent \in Agent
      BY <1>1, <1>5, RequestFields DEF WritesTool, HasEntity
    <2>2. Says(t, requests[r].row.agent)
      BY <1>5, <2>1 DEF WritesTool, Says
    <2>3. requests[r].row.agent = tools[t].agent
      BY <1>2, <2>1, <2>2 DEF WInv, OneOwner
    <2>4. Exists(t)'
      BY <1>5, <2>1, NoRowIsNoRow DEF WritesTool, Exists
    <2>5. QED
      BY <1>5, <2>3, <2>4 DEF WritesTool
  <1>6. ASSUME NEW r \in Req, DropsTool(r, t)
        PROVE  FALSE
    BY <1>6 DEF DropsTool
  <1>7. QED
    BY <1>1, <1>3, <1>4, <1>5, <1>6, EveryTool DEF ToolStep

LEMMA ReferencesStep ==
    ASSUME WInv, [Next]_vars
    PROVE  References' /\ calls \subseteq calls' /\ events \subseteq events'
  <1>1. CASE \E r \in Req : DeleteAgent(r)
    BY <1>1, DeletionKeepsReferences
  <1>2. CASE \A r \in Req : ~DeleteAgent(r)
    <2>1. WorkspaceTypeOK /\ References /\ agents \subseteq agents'
      BY <1>2, AgentsStay DEF WInv
    <2>2. ASSUME NEW t \in Tool, Exists(t)'
          PROVE  tools'[t].agent \in agents'
      <3>1. CASE tools'[t] = tools[t]
        BY <2>1, <2>2, <3>1 DEF References, Exists
      <3>2. ASSUME NEW r \in Req, InsertsTool(r, t)
            PROVE  tools'[t].agent \in agents'
        BY <2>1, <3>2 DEF InsertsTool
      <3>3. ASSUME NEW r \in Req, WritesTool(r, t)
            PROVE  tools'[t].agent \in agents'
        <4>1. HasEntity(r) /\ requests[r].row.agent \in Agent
          BY <2>1, <3>3, RequestFields DEF WritesTool, HasEntity
        <4>2. Says(t, requests[r].row.agent)
          BY <3>3, <4>1 DEF WritesTool, Says
        <4>3. Exists(t) => /\ tools[t].agent \in Agent
                           /\ Says(t, tools[t].agent)
                           /\ tools[t].agent \in agents
          BY <2>1, ToolFields DEF Says, ToolOf, References
        <4>4. requests[r].row.agent \in agents
          BY <3>3, <4>1, <4>2, <4>3 DEF WritesTool, WInv, OneOwner
        <4>5. QED
          BY <2>1, <3>3, <4>4 DEF WritesTool
      <3>4. QED
        BY <2>1, <2>2, <3>1, <3>2, <3>3, EveryTool DEF ToolStep, DropsTool
    <2>3. ASSUME NEW c \in Conv, Has(c)'
          PROVE  convs'[c].agent \in agents'
      <3>1. CASE convs'[c] = convs[c] \/ (Has(c) /\ convs'[c].agent = convs[c].agent)
        BY <2>1, <2>3, <3>1 DEF References, Has
      <3>2. ASSUME NEW r \in Req, requests[r].agent \in agents,
                   convs' = [convs EXCEPT ![c] =
                               [agent |-> requests[r].agent,
                                session |-> requests[r].session, status |-> "active",
                                messageCount |-> 0, totalTokens |-> 0]]
            PROVE  convs'[c].agent \in agents'
        BY <2>1, <3>2 DEF WorkspaceTypeOK
      <3>3. QED
        BY <1>2, <2>1, <3>1, <3>2, EveryConv DEF ConvStep
    <2>4. ASSUME NEW call \in calls
          PROVE  Has(call.conv)' /\ ToolOf(call.tool, convs[call.conv].agent)'
      <3>1. /\ call.tool \in Tool /\ call.conv \in Conv
            /\ Has(call.conv) /\ ToolOf(call.tool, convs[call.conv].agent)
        BY <2>1 DEF WorkspaceTypeOK, Call, References
      <3>2. Exists(call.tool)' /\ tools'[call.tool].agent = tools[call.tool].agent
        BY <1>2, <3>1, CalledStays DEF ToolOf, Called
      <3>3. call.conv \in drawn
        BY <3>1 DEF WInv, Drawn
      <3>4. Has(call.conv)' /\ convs'[call.conv].agent = convs[call.conv].agent
        <4>1. CASE convs'[call.conv] = convs[call.conv]
          BY <3>1, <4>1 DEF Has
        <4>2. CASE convs'[call.conv] # convs[call.conv]
          BY <1>2, <2>1, <3>1, <3>3, <4>2, EveryConv DEF ConvStep
        <4>3. QED
          BY <4>1, <4>2
      <3>5. QED
        BY <3>1, <3>2, <3>4 DEF ToolOf
    <2>5. ASSUME NEW call \in calls' \ calls
          PROVE  Has(call.conv)' /\ ToolOf(call.tool, convs[call.conv].agent)'
      <3>1. RecordCall
        BY <1>2, <2>5, AgentsStay
      <3>2. Has(call.conv) /\ ToolOf(call.tool, convs[call.conv].agent)
            /\ UNCHANGED <<tools, convs>>
        BY <2>5, <3>1 DEF RecordCall
      <3>3. QED
        BY <3>2 DEF Has, ToolOf, Exists
    <2>6. events' \subseteq agents'
      BY <1>2, <2>1, AgentsStay DEF References
    <2>7. QED
      BY <1>2, <2>2, <2>3, <2>4, <2>5, <2>6, AgentsStay DEF References
  <1>3. QED
    BY <1>1, <1>2

(* ----------------------------- The theorems ------------------------------ *)

LEMMA InitInv == Init => WInv
  <1>1. ASSUME Init
        PROVE  WInv
    <2>1. \A r \in Req : requests[r].pc = "idle"
      BY <1>1 DEF Init, Idle
    <2>2. (\A t \in Tool : ~Exists(t)) /\ (\A c \in Conv : ~Has(c))
      BY <1>1 DEF Init, Exists, Has
    <2>3. Drawn /\ OneOwner /\ AllSealed
      BY <2>1, <2>2 DEF Drawn, OneOwner, AllSealed, Says, ToolOf, HasTool, HasEntity, At
    <2>4. References
      BY <1>1, <2>2 DEF References, Init
    <2>5. QED
      BY <1>1, <2>3, <2>4, InitType DEF WInv
  <1>2. QED
    BY <1>1

LEMMA StepInv == WInv /\ [Next]_vars => WInv'
  <1>1. ASSUME WInv, [Next]_vars
        PROVE  WInv'
    <2>1. WorkspaceTypeOK'
      BY <1>1, TypeStep DEF WInv
    <2>2. QED
      BY <1>1, <2>1, DrawnStep, OneOwnerStep, SealedStep, ReferencesStep DEF WInv
  <1>2. QED
    BY <1>1

THEOREM Invariant == Spec => []WInv
  BY InitInv, StepInv, PTL DEF Spec

\* Every tool, conversation, call and event has the rows it refers to, whatever
\* cascades, refuses, or inserts a saved entity again.
THEOREM ReferencesHold == Spec => []References
  <1>1. WInv => References
    BY DEF WInv
  <1>2. QED
    BY <1>1, Invariant, PTL

\* Headers at rest are encrypted, and once: decrypted, they are as entered.
THEOREM SealedHolds == Spec => []SealedOnce
  <1>1. WInv => SealedOnce
    BY ToolFields DEF WInv, AllSealed, Sealed, SealedOnce, ForExecution, Decrypt, Headers
  <1>2. QED
    BY <1>1, Invariant, PTL

\* No removal of an agent or a tool deletes a recorded call or event.
THEOREM HistoryHolds == Spec => HistoryKept
  <1>1. WInv /\ [Next]_vars => [calls \subseteq calls' /\ events \subseteq events']_vars
    BY ReferencesStep
  <1>2. QED
    BY <1>1, Invariant, PTL DEF Spec, HistoryKept

\* What is gone and in no handler's hands stays gone: agents, tools,
\* conversations, and the secrets that were in headers.
THEOREM GoneForGood == Spec => StaysGone
  <1>1. ASSUME WInv, [Next]_vars, NEW x \in drawn, Gone(x), ~Held(x)
        PROVE  Gone(x)'
    <2>1. WorkspaceTypeOK
      BY <1>1 DEF WInv
    <2>2. x \notin agents'
      <3>1. CASE CreateAgent
        BY <1>1, <3>1 DEF CreateAgent, Gone
      <3>2. ASSUME NEW r \in Req, SaveAgent(r)
            PROVE  x \notin agents'
        BY <1>1, <3>2 DEF SaveAgent, Gone, Held, Carries
      <3>3. CASE agents' \subseteq agents
        BY <1>1, <3>3 DEF Gone
      <3>4. QED
        BY <1>1, <3>1, <3>2, <3>3
           DEF Next, Handler, AgentCall, UpdateAgent, RemoveAgent, ToolCall, CreateTool,
               UpdateTool, RemoveTool, ConvCall, FindOrCreate, IncrementStats, Log,
               AgentHandler, DeleteAgent, ToolHandler, InsertTool, Reload, UpdateRow,
               InsertAgain, DeleteTool, ConvHandler, InsertConv, AddTokens,
               InsertEvent, Fail, End, RecordCall, tables, vars
    <2>3. ASSUME x \in Tool
          PROVE  ~Exists(x)'
      <3>1. \A r \in Req : ~InsertsTool(r, x) /\ ~WritesTool(r, x)
        BY <1>1 DEF InsertsTool, WritesTool, Held, Carries
      <3>2. QED
        BY <1>1, <2>1, <2>3, <3>1, EveryTool DEF ToolStep, DropsTool, Gone, Exists
    <2>4. ASSUME x \in Conv
          PROVE  ~Has(x)'
      BY <1>1, <2>1, <2>4, EveryConv DEF ConvStep, Gone, Has
    <2>5. ASSUME x \in Secret, NEW t \in Tool, Exists(t)', tools'[t].headers # NoHeaders
          PROVE  tools'[t].headers.secret # x
      <3>1. CASE tools'[t] = tools[t]
        BY <1>1, <2>5, <3>1 DEF Gone, Exists
      <3>2. ASSUME NEW r \in Req, InsertsTool(r, t)
            PROVE  tools'[t].headers.secret # x
        <4>1. PICK h \in Entered \cup {NoHeaders} :
                 tools'[t] = [agent |-> requests[r].agent, headers |-> Stored(h)]
          BY <3>2 DEF InsertsTool
        <4>2. h \in Entered /\ tools'[t].headers.secret = h.secret
          BY <2>5, <4>1, StoredType
        <4>3. QED
          BY <1>1, <4>2 DEF Entered
      <3>3. ASSUME NEW r \in Req, WritesTool(r, t)
            PROVE  tools'[t].headers.secret # x
        BY <1>1, <2>5, <3>3 DEF WritesTool, Held, Carries
      <3>4. QED
        BY <1>1, <2>1, <2>5, <3>1, <3>2, <3>3, EveryTool DEF ToolStep, DropsTool
    <2>6. QED
      BY <2>2, <2>3, <2>4, <2>5 DEF Gone
  <1>2. WInv /\ [Next]_vars =>
           [\A x \in drawn : Gone(x) /\ ~Held(x) => Gone(x)']_vars
    BY <1>1
  <1>3. QED
    BY <1>2, Invariant, PTL DEF Spec, StaysGone

(* ------------------------ Counters of a conversation --------------------- *)

\* A conversation that was not drawn has not been counted, by anybody.
Uncounted == \A c \in Conv \ drawn : InFlight(c) = {} /\ cut[c] = 0

\* Two slots of a step agree on the calls between the two statements.
SameTokens(s) == /\ At(s, "addTokens")' <=> At(s, "addTokens")
                 /\ At(s, "addTokens") => requests'[s].conv = requests[s].conv
SameCounts(c) == \/ ~Has(c)'
                 \/ /\ Has(c)
                    /\ convs'[c].messageCount = convs[c].messageCount
                    /\ convs'[c].totalTokens = convs[c].totalTokens
                 \/ /\ c \notin drawn
                    /\ convs'[c].messageCount = 0
                    /\ convs'[c].totalTokens = 0

\* The steps that count, or fail to.
Counts(r) == \/ IncrementStats(r) \/ AddTokens(r)
             \/ Fail(r) /\ At(r, "addTokens")

LEMMA OthersDoNotCount ==
    ASSUME WorkspaceTypeOK, [Next]_vars, \A r \in Req : ~Counts(r)
    PROVE  /\ cut' = cut
           /\ \A s \in Req : SameTokens(s)
           /\ \A c \in Conv : SameCounts(c)
  <1>1. cut' = cut
    BY DEF Next, Handler, AgentCall, UpdateAgent, RemoveAgent, ToolCall, CreateTool,
           UpdateTool, RemoveTool, ConvCall, FindOrCreate, Log, AgentHandler, SaveAgent,
           DeleteAgent, ToolHandler, InsertTool, Reload, UpdateRow, InsertAgain,
           DeleteTool, ConvHandler, InsertConv, InsertEvent, Fail, End, CreateAgent,
           RecordCall, tables, vars, Counts
  <1>2. ASSUME NEW s \in Req
        PROVE  SameTokens(s)
    <2>1. CASE requests'[s] = requests[s]
      BY <2>1 DEF SameTokens, At
    <2>2. CASE requests'[s] # requests[s]
      <3>1. PICK r \in Req : \/ AgentCall(r) \/ ToolCall(r) \/ ConvCall(r)
                             \/ Handler(r) \/ Fail(r)
        BY <2>2 DEF Next, CreateAgent, End, RecordCall, vars
      <3>2. r = s
        BY <2>2, <3>1, CallSlot, HandlerSlot
      <3>3. ~At(s, "addTokens")
        BY <3>1, <3>2
           DEF Handler, AgentCall, UpdateAgent, RemoveAgent, ToolCall, CreateTool,
               UpdateTool, RemoveTool, ConvCall, FindOrCreate, IncrementStats, Log,
               AgentHandler, SaveAgent, DeleteAgent, ToolHandler, InsertTool, Reload,
               UpdateRow, InsertAgain, DeleteTool, ConvHandler, InsertConv,
               InsertEvent, Counts, At
      <3>4. ~At(s, "addTokens")'
        <4>1. CASE AgentCall(r) \/ CreateTool(r)
          <5>1. PICK org \in Org, a \in Agent,
                     pc \in {"saveAgent", "deleteAgent", "insertTool"} :
                   Continue(r, [pc |-> pc, agent |-> a, org |-> org])
            BY <4>1 DEF AgentCall, UpdateAgent, RemoveAgent, CreateTool
          <5>2. QED
            BY <3>2, <5>1, ContinueSlots DEF At
        <4>2. CASE RemoveTool(r)
          <5>1. PICK org \in Org, t \in Tool :
                   Continue(r, [pc |-> "deleteTool", id |-> t, org |-> org])
            BY <4>2 DEF RemoveTool
          <5>2. QED
            BY <3>2, <5>1, ContinueSlots DEF At
        <4>3. CASE UpdateTool(r)
          <5>1. PICK org \in Org, t \in Tool, h \in Entered \cup {NoHeaders, NotGiven} :
                   Continue(r, [pc |-> "reload", id |-> t, org |-> org,
                                row |-> [agent |-> tools[t].agent,
                                         headers |-> Merged(tools[t].headers, h)]])
            BY <4>3 DEF UpdateTool
          <5>2. QED
            BY <3>2, <5>1, ContinueSlots DEF At
        <4>4. CASE FindOrCreate(r)
          <5>1. PICK a \in agents, w \in Session :
                   Continue(r, [pc |-> "insertConv", agent |-> a, session |-> w])
            BY <4>4 DEF FindOrCreate
          <5>2. QED
            BY <3>2, <5>1, ContinueSlots DEF At
        <4>5. CASE Log(r)
          <5>1. PICK a \in agents : Continue(r, [pc |-> "insertEvent", agent |-> a])
            BY <4>5 DEF Log
          <5>2. QED
            BY <3>2, <5>1, ContinueSlots DEF At
        <4>6. CASE (Handler(r) \/ Fail(r)) /\ ~Reload(r)
          BY <3>2, <4>6, HandlerSlot DEF At, Idle
        <4>7. CASE Reload(r)
          <5>1. PICK rec : Continue(r, rec) /\ rec.pc # "addTokens"
            BY <4>7 DEF Reload, Respond, Idle
          <5>2. QED
            BY <3>2, <5>1, ContinueSlots DEF At
        <4>8. QED
          BY <3>1, <4>1, <4>2, <4>3, <4>4, <4>5, <4>6, <4>7 DEF ToolCall, ConvCall, Counts
      <3>5. QED
        BY <3>3, <3>4 DEF SameTokens
    <2>3. QED
      BY <2>1, <2>2
  <1>3. ASSUME NEW c \in Conv
        PROVE  SameCounts(c)
    <2>1. CASE convs'[c] = convs[c]
      BY <2>1 DEF SameCounts, Has
    <2>2. CASE End
      <3>1. PICK d \in Conv : Has(d) /\ convs' = [convs EXCEPT ![d].status = "ended"]
        BY <2>2 DEF End
      <3>2. CASE c = d
        <4>1. convs'[c] = [convs[c] EXCEPT !.status = "ended"]
          BY <3>1, <3>2 DEF WorkspaceTypeOK
        <4>2. QED
          BY <3>1, <3>2, <4>1, ConvFields, RowWritten DEF SameCounts
      <3>3. CASE c # d
        BY <3>1, <3>3 DEF WorkspaceTypeOK, SameCounts, Has
      <3>4. QED
        BY <3>2, <3>3
    <2>3. ASSUME NEW r \in Req, c \notin drawn,
                 convs' = [convs EXCEPT ![c] =
                             [agent |-> requests[r].agent,
                              session |-> requests[r].session, status |-> "active",
                              messageCount |-> 0, totalTokens |-> 0]]
          PROVE  SameCounts(c)
      BY <2>3 DEF WorkspaceTypeOK, SameCounts
    <2>4. CASE \E r \in Req : InsertConv(r)
      <3>1. PICK r \in Req : InsertConv(r)
        BY <2>4
      <3>2. ASSUME NEW d \in Conv, d # c, NEW row, convs' = [convs EXCEPT ![d] = row]
            PROVE  SameCounts(c)
        BY <3>2 DEF WorkspaceTypeOK, SameCounts, Has
      <3>3. QED
        BY <2>1, <2>3, <3>1, <3>2 DEF InsertConv
    <2>5. CASE \E r \in Req : DeleteAgent(r)
      BY <2>1, <2>5 DEF DeleteAgent, SameCounts, Has
    <2>6. CASE UNCHANGED convs
      BY <2>1, <2>6
    <2>7. QED
      BY <2>2, <2>4, <2>5, <2>6
         DEF Next, Handler, AgentCall, UpdateAgent, RemoveAgent, ToolCall, CreateTool,
             UpdateTool, RemoveTool, ConvCall, FindOrCreate, Log, AgentHandler,
             SaveAgent, ToolHandler, InsertTool, Reload, UpdateRow, InsertAgain,
             DeleteTool, ConvHandler, InsertEvent, Fail, CreateAgent, RecordCall,
             tables, vars, Counts
  <1>4. QED
    BY <1>1, <1>2, <1>3

\* The calls between the two statements are finitely many.
LEMMA InFlightFinite ==
    ASSUME IsFiniteSet(Req), NEW c \in Conv
    PROVE  IsFiniteSet(InFlight(c)) /\ Cardinality(InFlight(c)) \in Nat
  <1>1. InFlight(c) \in SUBSET Req
    BY DEF InFlight
  <1>2. QED
    BY <1>1, FS_Subset, FS_CardinalityType

LEMMA UncountedStep ==
    ASSUME WInv, Uncounted, [Next]_vars
    PROVE  Uncounted'
  <1>1. WorkspaceTypeOK /\ drawn \subseteq drawn'
    BY DrawnKept DEF WInv
  <1>2. SUFFICES ASSUME NEW c \in Conv \ drawn'
                 PROVE  InFlight(c)' = {} /\ cut'[c] = 0
    BY DEF Uncounted
  <1>3. InFlight(c) = {} /\ cut[c] = 0 /\ ~Has(c)
    BY <1>1 DEF Uncounted, WInv, Drawn
  <1>4. ASSUME NEW s \in Req, At(s, "addTokens")', requests'[s].conv = c
        PROVE  FALSE
    <2>1. TokensSlot(s)
      BY <1>1, EverySlot DEF SlotStep
    <2>2. QED
      BY <1>3, <1>4, <2>1 DEF TokensSlot, InFlight, At
  <1>5. cut'[c] = 0
    <2>1. ASSUME NEW r \in Req, Fail(r), At(r, "addTokens")
          PROVE  cut'[c] = 0
      <3>1. requests[r].conv # c
        BY <1>3, <2>1 DEF InFlight
      <3>2. QED
        BY <1>1, <1>3, <2>1, <3>1 DEF Fail, WorkspaceTypeOK
    <2>2. ASSUME NEW r \in Req, IncrementStats(r) \/ AddTokens(r)
          PROVE  cut'[c] = 0
      BY <1>3, <2>2 DEF IncrementStats, AddTokens
    <2>3. CASE \A r \in Req : ~Counts(r)
      BY <1>1, <1>3, <2>3, OthersDoNotCount
    <2>4. QED
      BY <2>1, <2>2, <2>3 DEF Counts
  <1>6. QED
    BY <1>4, <1>5 DEF InFlight

\* A slot that begins, or ends, counting for a conversation.
LEMMA Begins ==
    ASSUME IsFiniteSet(Req), NEW c \in Conv, NEW r \in Req, ~At(r, "addTokens"),
           InFlight(c)' = InFlight(c) \cup {r}
    PROVE  Cardinality(InFlight(c)') = Cardinality(InFlight(c)) + 1
  <1>1. r \notin InFlight(c)
    BY DEF InFlight
  <1>2. QED
    BY <1>1, InFlightFinite, FS_AddElement

LEMMA Ends ==
    ASSUME IsFiniteSet(Req), WorkspaceTypeOK, NEW c \in Conv, NEW r \in Req,
           At(r, "addTokens"), requests[r].conv = c, Respond(r)
    PROVE  /\ Cardinality(InFlight(c)) = Cardinality(InFlight(c)') + 1
           /\ Cardinality(InFlight(c)') \in Nat
           /\ \A d \in Conv \ {c} : InFlight(d)' = InFlight(d)
  <1>1. ~At(r, "addTokens")' /\ \A s \in Req \ {r} : requests'[s] = requests[s]
    BY RespondSlots DEF At, Idle
  <1>2. InFlight(c)' = InFlight(c) \ {r}
    BY <1>1 DEF InFlight, At
  <1>3. r \in InFlight(c)
    BY DEF InFlight
  <1>4. \A d \in Conv \ {c} : InFlight(d)' = InFlight(d)
    BY <1>1 DEF InFlight, At
  <1>5. IsFiniteSet(InFlight(c)) /\ Cardinality(InFlight(c)) \in Nat
    BY InFlightFinite
  <1>6. Cardinality(InFlight(c) \ {r}) = Cardinality(InFlight(c)) - 1
        /\ IsFiniteSet(InFlight(c) \ {r})
    BY <1>3, <1>5, FS_RemoveElement
  <1>7. Cardinality(InFlight(c) \ {r}) \in Nat
    BY <1>6, FS_CardinalityType
  <1>8. QED
    BY <1>2, <1>4, <1>5, <1>6, <1>7

LEMMA StatsStep ==
    ASSUME IsFiniteSet(Req), WInv, Uncounted, StatsAgree, [Next]_vars
    PROVE  StatsAgree'
  <1>1. WorkspaceTypeOK
    BY DEF WInv
  <1>2. SUFFICES ASSUME NEW c \in Conv, Has(c)'
                 PROVE  convs'[c].messageCount =
                           convs'[c].totalTokens + Cardinality(InFlight(c)') + cut'[c]
    BY DEF StatsAgree
  <1>3. Cardinality(InFlight(c)) \in Nat /\ cut[c] \in Nat
    BY <1>1, InFlightFinite DEF WorkspaceTypeOK
  <1>4. Has(c) => /\ convs[c].messageCount \in Nat
                  /\ convs[c].totalTokens \in Nat
                  /\ convs[c].messageCount =
                        convs[c].totalTokens + Cardinality(InFlight(c)) + cut[c]
    BY <1>1, ConvFields DEF StatsAgree
  <1>5. ASSUME NEW r \in Req, IncrementStats(r)
        PROVE  convs'[c].messageCount =
                  convs'[c].totalTokens + Cardinality(InFlight(c)') + cut'[c]
    <2>1. PICK d \in Conv : /\ Has(d)
                            /\ convs' = [convs EXCEPT ![d] = Counted(convs[d])]
                            /\ Continue(r, [pc |-> "addTokens", conv |-> d])
      BY <1>5 DEF IncrementStats
    <2>2. /\ requests'[r] = [pc |-> "addTokens", conv |-> d]
          /\ \A s \in Req \ {r} : requests'[s] = requests[s]
      BY <1>1, <2>1, ContinueSlots
    <2>3. ~At(r, "addTokens") /\ cut' = cut
      BY <1>5 DEF IncrementStats, At
    <2>4. CASE c = d
      <3>1. InFlight(c)' = InFlight(c) \cup {r}
        BY <2>2, <2>4 DEF InFlight, At
      <3>2. Cardinality(InFlight(c)') = Cardinality(InFlight(c)) + 1
        BY <2>3, <3>1, Begins
      <3>3. convs'[c] = Counted(convs[c])
        BY <1>1, <2>1, <2>4 DEF WorkspaceTypeOK
      <3>4. Has(c) /\ convs[c] \in ConvRow
        BY <1>1, <2>1, <2>4, ConvFields
      <3>5. /\ convs'[c].messageCount = convs[c].messageCount + 1
            /\ convs'[c].totalTokens = convs[c].totalTokens
        BY <3>3, <3>4, RowWritten, ZenonT(60)
      <3>6. QED
        BY <1>3, <1>4, <2>3, <3>2, <3>4, <3>5
    <2>5. CASE c # d
      <3>1. InFlight(c)' = InFlight(c)
        BY <2>2, <2>3, <2>5 DEF InFlight, At
      <3>2. convs'[c] = convs[c]
        BY <1>1, <2>1, <2>5 DEF WorkspaceTypeOK
      <3>3. QED
        BY <1>2, <1>4, <2>3, <3>1, <3>2 DEF Has
    <2>6. QED
      BY <2>4, <2>5
  <1>6. ASSUME NEW r \in Req, AddTokens(r)
        PROVE  convs'[c].messageCount =
                  convs'[c].totalTokens + Cardinality(InFlight(c)') + cut'[c]
    <2>1. /\ At(r, "addTokens") /\ Respond(r) /\ cut' = cut
          /\ requests[r].conv \in Conv
      BY <1>1, <1>6, RequestFields DEF AddTokens
    <2>2. CASE c = requests[r].conv
      <3>1. /\ Cardinality(InFlight(c)) = Cardinality(InFlight(c)') + 1
            /\ Cardinality(InFlight(c)') \in Nat
        BY <1>1, <2>1, <2>2, Ends
      <3>2. Has(c)
        BY <1>2, <1>6, <2>2 DEF AddTokens, Has
      <3>3. convs'[c] = [convs[c] EXCEPT !.totalTokens = @ + 1]
        BY <1>1, <1>6, <2>2, <3>2 DEF AddTokens, WorkspaceTypeOK
      <3>4. /\ convs'[c].messageCount = convs[c].messageCount
            /\ convs'[c].totalTokens = convs[c].totalTokens + 1
        BY <1>1, <3>2, <3>3, ConvFields, RowWritten
      <3>5. QED
        BY <1>3, <1>4, <2>1, <3>1, <3>2, <3>4
    <2>3. CASE c # requests[r].conv
      <3>1. InFlight(c)' = InFlight(c)
        BY <1>1, <2>1, <2>3, Ends
      <3>2. convs'[c] = convs[c]
        BY <1>1, <1>6, <2>3 DEF AddTokens, WorkspaceTypeOK
      <3>3. QED
        BY <1>2, <1>4, <2>1, <3>1, <3>2 DEF Has
    <2>4. QED
      BY <2>2, <2>3
  <1>7. ASSUME NEW r \in Req, Fail(r), At(r, "addTokens")
        PROVE  convs'[c].messageCount =
                  convs'[c].totalTokens + Cardinality(InFlight(c)') + cut'[c]
    <2>1. /\ Respond(r) /\ convs' = convs
          /\ requests[r].conv \in Conv
          /\ cut' = [cut EXCEPT ![requests[r].conv] = @ + 1]
      BY <1>1, <1>7, RequestFields DEF Fail, tables
    <2>2. Has(c)
      BY <1>2, <2>1 DEF Has
    <2>3. CASE c = requests[r].conv
      <3>1. /\ Cardinality(InFlight(c)) = Cardinality(InFlight(c)') + 1
            /\ Cardinality(InFlight(c)') \in Nat
        BY <1>1, <1>7, <2>1, <2>3, Ends
      <3>2. cut'[c] = cut[c] + 1
        BY <1>1, <2>1, <2>3 DEF WorkspaceTypeOK
      <3>3. QED
        BY <1>3, <1>4, <2>1, <2>2, <3>1, <3>2
    <2>4. CASE c # requests[r].conv
      <3>1. InFlight(c)' = InFlight(c)
        BY <1>1, <1>7, <2>1, <2>4, Ends
      <3>2. cut'[c] = cut[c]
        BY <1>1, <2>1, <2>4 DEF WorkspaceTypeOK
      <3>3. QED
        BY <1>4, <2>1, <2>2, <3>1, <3>2
    <2>5. QED
      BY <2>3, <2>4
  <1>8. CASE \A r \in Req : ~Counts(r)
    <2>1. cut' = cut /\ (\A s \in Req : SameTokens(s)) /\ SameCounts(c)
      BY <1>1, <1>8, OthersDoNotCount
    <2>2. InFlight(c)' = InFlight(c)
      BY <2>1 DEF SameTokens, InFlight
    <2>3. CASE Has(c) /\ convs'[c].messageCount = convs[c].messageCount
                      /\ convs'[c].totalTokens = convs[c].totalTokens
      BY <1>4, <2>1, <2>2, <2>3
    <2>4. CASE c \notin drawn /\ convs'[c].messageCount = 0 /\ convs'[c].totalTokens = 0
      <3>1. InFlight(c) = {} /\ cut[c] = 0
        BY <2>4 DEF Uncounted
      <3>2. Cardinality(InFlight(c)') = 0
        BY <2>2, <3>1, FS_EmptySet
      <3>3. QED
        BY <2>1, <2>4, <3>1, <3>2
    <2>5. QED
      BY <1>2, <2>1, <2>3, <2>4 DEF SameCounts
  <1>9. QED
    BY <1>5, <1>6, <1>7, <1>8 DEF Counts

\* The two counters of a conversation differ by the calls between the two
\* statements and those that broke off there, for any finite number of slots.
THEOREM StatsHold ==
    ASSUME IsFiniteSet(Req)
    PROVE  Spec => []StatsAgree
  <1>1. Init => Uncounted /\ StatsAgree
    BY DEF Init, Uncounted, StatsAgree, InFlight, Has, At, Idle
  <1>2. WInv /\ Uncounted /\ StatsAgree /\ [Next]_vars => (Uncounted /\ StatsAgree)'
    BY UncountedStep, StatsStep
  <1>3. QED
    BY <1>1, <1>2, Invariant, PTL DEF Spec

(* -------------------------- The gates of a widget ------------------------- *)

=============================================================================
