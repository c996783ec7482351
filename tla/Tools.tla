------------------------------- MODULE Tools -------------------------------
(***************************************************************************)
(* ToolsService: the tools of an agent, whose headers are encrypted at      *)
(* rest.  What findOne asks of the agent after a tool was read follows from *)
(* the tool's foreign key, but for the organization, and has no step.      *)
(***************************************************************************)
EXTENDS Agents

ToolRequest ==
    [pc: {"insertTool"}, agent: Agent, org: Org]
        \cup [pc: {"reload", "updateTool", "insertAgain"},
              id: Tool, org: Org, row: ToolRow]
        \cup [pc: {"deleteTool"}, id: Tool, org: Org]

-----------------------------------------------------------------------------
\* encrypt and decrypt; decrypt leaves alone what is not encrypted.
Encrypt(h) == [secret |-> h.secret, layers |-> h.layers + 1]
Decrypt(h) == IF h.layers = 0 THEN h
              ELSE [secret |-> h.secret, layers |-> h.layers - 1]

\* Headers in the body of a request: a secret that was not used before, null,
\* or nothing.
Entered  == [secret: Secret \ drawn, layers: {0}]
NotGiven == [given |-> FALSE]
Uses(h)  == IF h \in Entered THEN {h.secret} ELSE {}

\* headers: dto.headers ? encrypt(dto.headers) : null.
Stored(h) == IF h = NoHeaders THEN NoHeaders ELSE Encrypt(h)

\* Mutants of Merged: what is saved is encrypted, whoever gave it; what is
\* undefined is assigned too.
MergedFirst(old, h) == IF h = NotGiven THEN Stored(old) ELSE Stored(h)
MergedWhole(old, h) == IF h = NotGiven THEN NotGiven ELSE Stored(h)

\* if (dto.headers) encrypt; Object.assign(tool, dto).
Merged(old, h) == IF h = NotGiven THEN old ELSE Stored(h)

\* findForExecution: what agent-core sends to the endpoint.
ForExecution(t) == Decrypt(tools[t].headers)

-----------------------------------------------------------------------------
\* create: findOne of the agent, then the INSERT, which fails without it.
CreateTool(r) ==
    /\ At(r, "idle")
    /\ \E org \in Org, a \in Agent :
          /\ Manages(org, a)
          /\ Continue(r, [pc |-> "insertTool", agent |-> a, org |-> org])
    /\ UNCHANGED <<tables, cut>>

\* Mutant of Fresh: the id of a row that has gone is given out again.
FreshAgain(t) == ~Exists(t)
Fresh(t)      == t \notin drawn

InsertTool(r) ==
    /\ At(r, "insertTool")
    /\ LET a == requests[r].agent
       IN IF a \in agents
          THEN \E t \in Tool, h \in Entered \cup {NoHeaders} :
                  /\ Fresh(t)
                  /\ tools' = [tools EXCEPT ![t] = [agent |-> a, headers |-> Stored(h)]]
                  /\ drawn' = drawn \cup {t} \cup Uses(h)
          ELSE UNCHANGED <<tools, drawn>>
    /\ Respond(r)
    /\ UNCHANGED <<agents, convs, calls, events, cut>>

\* update: the entity as it was read, with the body of the request.
UpdateTool(r) ==
    /\ At(r, "idle")
    /\ \E org \in Org, t \in Tool, h \in Entered \cup {NoHeaders, NotGiven} :
          /\ Exists(t)
          /\ Manages(org, tools[t].agent)
          /\ Continue(r, [pc |-> "reload", id |-> t, org |-> org,
                          row |-> [agent |-> tools[t].agent,
                                   headers |-> Merged(tools[t].headers, h)]])
          /\ drawn' = drawn \cup Uses(h)
    /\ UNCHANGED <<agents, tools, convs, calls, events, cut>>

\* save selects the row by its id: nothing to write, an UPDATE, or an INSERT.
Reload(r) ==
    /\ At(r, "reload")
    /\ LET req == requests[r]
       IN IF tools[req.id] = req.row THEN Respond(r)
          ELSE Continue(r, [pc |-> IF Exists(req.id) THEN "updateTool" ELSE "insertAgain",
                            id |-> req.id, org |-> req.org, row |-> req.row])
    /\ UNCHANGED <<tables, cut>>

UpdateRow(r) ==
    /\ At(r, "updateTool")
    /\ LET req == requests[r]
       IN tools' = IF Exists(req.id) THEN [tools EXCEPT ![req.id] = req.row] ELSE tools
    /\ Respond(r)
    /\ UNCHANGED <<agents, convs, calls, events, drawn, cut>>

\* Mutant of Insertable: no foreign key.
InsertableLoose(t, a) == ~Exists(t)
Insertable(t, a)      == ~Exists(t) /\ a \in agents

InsertAgain(r) ==
    /\ At(r, "insertAgain")
    /\ LET req == requests[r]
       IN tools' = IF Insertable(req.id, req.row.agent)
                   THEN [tools EXCEPT ![req.id] = req.row] ELSE tools
    /\ Respond(r)
    /\ UNCHANGED <<agents, convs, calls, events, drawn, cut>>

\* remove.  The tool of a call cannot be deleted (see Refused).
RemoveTool(r) ==
    /\ At(r, "idle")
    /\ \E org \in Org, t \in Tool :
          /\ Exists(t)
          /\ Manages(org, tools[t].agent)
          /\ Continue(r, [pc |-> "deleteTool", id |-> t, org |-> org])
    /\ UNCHANGED <<tables, cut>>

DeleteTool(r) ==
    /\ At(r, "deleteTool")
    /\ LET t == requests[r].id
       IN tools' = IF Called(t) THEN tools ELSE [tools EXCEPT ![t] = NoRow]
    /\ Respond(r)
    /\ UNCHANGED <<agents, convs, calls, events, drawn, cut>>

ToolCall(r)    == CreateTool(r) \/ UpdateTool(r) \/ RemoveTool(r)
ToolHandler(r) == InsertTool(r) \/ Reload(r) \/ UpdateRow(r) \/ InsertAgain(r) \/ DeleteTool(r)
=============================================================================
