------------------------------ MODULE Documents ------------------------------
(***************************************************************************)
(* Documents of an agent: rows of a table, objects in an S3 bucket, and    *)
(* agent-core, which indexes them and writes the outcome into the rows.    *)
(* The handlers of documents and agents are cut at each await; a save of   *)
(* TypeORM is a SELECT by primary key, which decides on an INSERT or on    *)
(* the columns to UPDATE, and then that statement.                         *)
(*                                                                         *)
(* Who may call what is not the subject here: callers are admins, of the    *)
(* organization the agents belong to where the service asks for it, which   *)
(* is everywhere but in updateDoc (PATCH).                                 *)
(***************************************************************************)
EXTENDS Naturals

CONSTANTS
    Agent, Doc,     \* uuids of agents and documents; a document's S3 key is unique too
    Text, NoText,   \* descriptions; the empty one
    Count,          \* numbers of chunks that indexing may end with
    Req,            \* slots for the HTTP requests in flight
    MaxJobs         \* bound: requests for one document that agent-core works on

ASSUME TextAssumption == NoText \in Text
ASSUME JobsAssumption == MaxJobs \in Nat
ASSUME IdAssumption   == Agent \cap Doc = {}

VARIABLES
    agents,         \* ids in table agents
    documents,      \* table documents: the row of an id, or NoRow
    objects,        \* documents whose object is in the bucket
    jobs,           \* how many requests agent-core is indexing a document for
    drawn,          \* ids handed out; a drawn document has an upload URL
    requests,       \* the handler each slot runs and where it stands
    (* history, which no step depends on *)
    strays,         \* objects put after, or left by, the removal of their row
    gone,           \* ids removed while no handler held what it had read of them
    reported,       \* the last number of chunks agent-core reported
    said,           \* the last description that was set
    lost,           \* documents whose last request to agent-core came to nothing
    cut             \* documents whose confirmation broke off before its end

stores  == <<agents, documents, objects, drawn>>
history == <<strays, gone, reported, said, lost, cut>>
vars    == <<stores, jobs, requests, history>>

-----------------------------------------------------------------------------
Status == {"pending", "indexing", "indexed", "failed"}
Column == {"status", "count", "text"}       \* those that ever change
Row    == [agent: Agent, status: Status, count: Count \cup {0}, text: Text]
NoRow  == [status |-> "none"]

Idle == [pc |-> "idle"]
Request ==
         {Idle}
    \cup [pc: {"reload", "insert"}, id: Doc, row: Row]
    \cup [pc: {"update"}, id: Doc, row: Row, columns: SUBSET Column]
    \cup [pc: {"notify", "describe", "deleteObject", "deleteRow"}, id: Doc]
    \cup [pc: {"saveAgent"}, agent: Agent]

TypeOK ==
    /\ agents \subseteq Agent
    /\ documents \in [Doc -> Row \cup {NoRow}]
    /\ objects \subseteq Doc
    /\ jobs \in [Doc -> Nat]
    /\ drawn \subseteq Agent \cup Doc
    /\ requests \in [Req -> Request]
    /\ strays \subseteq Doc
    /\ gone \subseteq Agent \cup Doc
    /\ reported \in [Doc -> Count \cup {0}]
    /\ said \in [Doc -> Text]
    /\ lost \subseteq Doc
    /\ cut \subseteq Doc

Init ==
    /\ agents = {}
    /\ documents = [d \in Doc |-> NoRow]
    /\ objects = {}
    /\ jobs = [d \in Doc |-> 0]
    /\ drawn = {}
    /\ requests = [r \in Req |-> Idle]
    /\ strays = {}
    /\ gone = {}
    /\ reported = [d \in Doc |-> 0]
    /\ said = [d \in Doc |-> NoText]
    /\ lost = {}
    /\ cut = {}

-----------------------------------------------------------------------------
At(r, pc)        == requests[r].pc = pc
Continue(r, rec) == requests' = [requests EXCEPT ![r] = rec]
Respond(r)       == Continue(r, Idle)

Exists(d)  == documents[d] # NoRow
Concerns(r, d) == ~At(r, "idle") /\ ~At(r, "saveAgent") /\ requests[r].id = d

\* A handler holds an entity of d, or of agent a, that its save may insert.
Held(d)      == \E r \in Req : Concerns(r, d) /\ (At(r, "reload") \/ At(r, "insert"))
AgentHeld(a) == \E r \in Req : At(r, "saveAgent") /\ requests[r].agent = a

\* A confirmation of d is about to call agent-core, or to set the description;
\* a removal of d has deleted the object.
Notifying(d)  == \E r \in Req : Concerns(r, d) /\ At(r, "notify")
Describing(d) == \E r \in Req : Concerns(r, d) /\ (At(r, "notify") \/ At(r, "describe"))
Deleting(d)   == \E r \in Req : Concerns(r, d) /\ At(r, "deleteRow")

-----------------------------------------------------------------------------
(* Agents.                                                                 *)

\* AgentsService.create.
CreateAgent(a) ==
    /\ a \notin drawn
    /\ agents' = agents \cup {a}
    /\ drawn' = drawn \cup {a}
    /\ UNCHANGED <<documents, objects, jobs, requests, history>>

\* AgentsService.update: findOne; what changes in the entity does not matter.
UpdateAgent(r, a) ==
    /\ At(r, "idle")
    /\ a \in agents
    /\ Continue(r, [pc |-> "saveAgent", agent |-> a])
    /\ UNCHANGED <<stores, jobs, history>>

\* Its save: an UPDATE of the row or, if that has gone, an INSERT of it.
SaveAgent(r) ==
    /\ At(r, "saveAgent")
    /\ agents' = agents \cup {requests[r].agent}
    /\ Respond(r)
    /\ UNCHANGED <<documents, objects, drawn, jobs, history>>

\* AgentsService.remove: the rows of its documents go along, their objects stay.
RemoveAgent(a) ==
    LET Cascade == {d \in Doc : Exists(d) /\ documents[d].agent = a}
    IN  /\ a \in agents
        /\ agents' = agents \ {a}
        /\ documents' = [d \in Doc |-> IF d \in Cascade THEN NoRow ELSE documents[d]]
        /\ strays' = strays \cup (Cascade \cap objects)
        /\ gone' = gone \cup {d \in Cascade : ~Held(d)} \cup
                        (IF AgentHeld(a) THEN {} ELSE {a})
        /\ UNCHANGED <<objects, drawn, jobs, requests, reported, said, lost, cut>>

-----------------------------------------------------------------------------
(* Upload.                                                                 *)

\* getUploadUrl: the answer is a URL to put the object with, and the id.
GetUploadUrl(a, d) ==
    /\ a \in agents
    /\ d \notin drawn
    /\ drawn' = drawn \cup {d}
    /\ documents' = [documents EXCEPT ![d] =
           [agent |-> a, status |-> "pending", count |-> 0, text |-> NoText]]
    /\ UNCHANGED <<agents, objects, jobs, requests, history>>

\* The client puts the object to S3, at any time while the URL is valid: it
\* may come after the document has been removed.
PutObject(d) ==
    /\ d \in drawn
    /\ objects' = objects \cup {d}
    /\ strays' = IF ~Exists(d) \/ Deleting(d) THEN strays \cup {d} ELSE strays
    /\ UNCHANGED <<agents, documents, drawn, jobs, requests,
                   gone, reported, said, lost, cut>>

-----------------------------------------------------------------------------
(* POST :documentId/confirm.                                               *)

\* Mutant of Confirm: nobody looks whether the row was found.
ConfirmNothing(r, d) ==
    /\ At(r, "idle")
    /\ Continue(r, [pc |-> "reload", id |-> d,
                    row |-> [documents[d] EXCEPT !.status = "indexing"]])
    /\ UNCHANGED <<stores, jobs, history>>

\* Mutant of Confirm: an entity made from the ids of the route is saved.
ConfirmUnread(r, d) ==
    /\ At(r, "idle")
    /\ d \in drawn
    /\ \E a \in agents :
           Continue(r, [pc |-> "reload", id |-> d,
                        row |-> [agent |-> a, status |-> "indexing", count |-> 0,
                                 text |-> NoText]])
    /\ UNCHANGED <<stores, jobs, history>>

\* findOne, and the entity it returns gets status INDEXING.
Confirm(r, d) ==
    /\ At(r, "idle")
    /\ Exists(d)
    /\ Continue(r, [pc |-> "reload", id |-> d,
                    row |-> [documents[d] EXCEPT !.status = "indexing"]])
    /\ UNCHANGED <<stores, jobs, history>>

\* The columns in which an entity differs from the row.
Changed(row, stored) ==
    (IF row.status # stored.status THEN {"status"} ELSE {}) \cup
    (IF row.count # stored.count THEN {"count"} ELSE {}) \cup
    (IF row.text # stored.text THEN {"text"} ELSE {})

\* save, first half: SELECT by primary key.
Reload(r) ==
    LET req == requests[r] IN
    /\ At(r, "reload")
    /\ Continue(r,
         IF Exists(req.id)
         THEN [pc |-> "update", id |-> req.id, row |-> req.row,
               columns |-> Changed(req.row, documents[req.id])]
         ELSE [pc |-> "insert", id |-> req.id, row |-> req.row])
    /\ UNCHANGED <<stores, jobs, history>>

Merged(row, stored, columns) ==
    [agent  |-> stored.agent,
     status |-> IF "status" \in columns THEN row.status ELSE stored.status,
     count  |-> IF "count" \in columns THEN row.count ELSE stored.count,
     text   |-> IF "text" \in columns THEN row.text ELSE stored.text]

\* A handler goes on with the same document.
GoOn(r, pc) == Continue(r, [pc |-> pc, id |-> requests[r].id])

\* Mutant of Saved: agent-core is not called.
SavedQuietly(r) == GoOn(r, "describe")

\* The save has returned.
Saved(r) == GoOn(r, "notify")

\* save, second half: UPDATE, of no row when it has gone.
Update(r) ==
    LET req == requests[r] IN
    /\ At(r, "update")
    /\ documents' = [documents EXCEPT ![req.id] =
           IF Exists(req.id) THEN Merged(req.row, @, req.columns) ELSE @]
    /\ Saved(r)
    /\ UNCHANGED <<agents, objects, drawn, jobs, history>>

\* Or INSERT, which brings the document back; or it breaks a key and throws.
Insert(r) ==
    LET req == requests[r] IN
    /\ At(r, "insert")
    /\ \/ /\ ~Exists(req.id)
          /\ req.row.agent \in agents
          /\ documents' = [documents EXCEPT ![req.id] = req.row]
          /\ Saved(r)
       \/ /\ Exists(req.id) \/ req.row.agent \notin agents
          /\ Respond(r)
          /\ UNCHANGED documents
    /\ UNCHANGED <<agents, objects, drawn, jobs, history>>

\* The POST to agent-core, which accepts it ...
Notify(r) ==
    LET d == requests[r].id IN
    /\ At(r, "notify")
    /\ jobs[d] < MaxJobs
    /\ jobs' = [jobs EXCEPT ![d] = @ + 1]
    /\ lost' = lost \ {d}
    /\ GoOn(r, "describe")
    /\ UNCHANGED <<stores, strays, gone, reported, said, cut>>

\* ... or answers with an error, which nobody looks at.
NotifyRefused(r) ==
    /\ At(r, "notify")
    /\ lost' = lost \cup {requests[r].id}
    /\ GoOn(r, "describe")
    /\ UNCHANGED <<stores, jobs, strays, gone, reported, said, cut>>

\* updateDoc: UPDATE of the description.
SetText(d, text) ==
    IF Exists(d)
    THEN /\ documents' = [documents EXCEPT ![d].text = text]
         /\ said' = [said EXCEPT ![d] = text]
         /\ cut' = cut \ {d}
    ELSE UNCHANGED <<documents, said, cut>>

\* Mutant of Describe: the saved entity is returned, the body forgotten.
DescribeNothing(r) ==
    /\ At(r, "describe")
    /\ Respond(r)
    /\ UNCHANGED <<stores, jobs, history>>

\* The confirmation ends with the description of its body, which nothing has
\* looked at so far.
Describe(r) ==
    /\ At(r, "describe")
    /\ \E text \in Text : SetText(requests[r].id, text)
    /\ Respond(r)
    /\ UNCHANGED <<agents, objects, drawn, jobs, strays, gone, reported, lost>>

\* PATCH :documentId, of any id: neither the agent of the route nor the caller's
\* organization is compared with the document's.
PatchDoc(d, text) ==
    /\ SetText(d, text)
    /\ UNCHANGED <<agents, objects, drawn, jobs, requests,
                   strays, gone, reported, lost>>

-----------------------------------------------------------------------------
(* DELETE :documentId: the object first, then the row.                     *)

\* Mutant of Remove: the object is not deleted.
RemoveRowOnly(r, d) ==
    /\ At(r, "idle")
    /\ Exists(d)
    /\ Continue(r, [pc |-> "deleteRow", id |-> d])
    /\ UNCHANGED <<stores, jobs, history>>

Remove(r, d) ==
    /\ At(r, "idle")
    /\ Exists(d)
    /\ Continue(r, [pc |-> "deleteObject", id |-> d])
    /\ UNCHANGED <<stores, jobs, history>>

DeleteObject(r) ==
    /\ At(r, "deleteObject")
    /\ objects' = objects \ {requests[r].id}
    /\ strays' = strays \ {requests[r].id}
    /\ GoOn(r, "deleteRow")
    /\ UNCHANGED <<agents, documents, drawn, jobs, gone, reported, said, lost, cut>>

\* DELETE by primary key, of no row when it has gone.
DeleteRow(r) ==
    LET d == requests[r].id IN
    /\ At(r, "deleteRow")
    /\ documents' = [documents EXCEPT ![d] = NoRow]
    /\ gone' = IF Held(d) THEN gone ELSE gone \cup {d}
    /\ Respond(r)
    /\ UNCHANGED <<agents, objects, drawn, jobs, strays, reported, said, lost, cut>>

\* A handler ends early: S3, Postgres or the network fails, or the process dies.
Fail(r) ==
    /\ ~At(r, "idle")
    /\ lost' = IF At(r, "notify") THEN lost \cup {requests[r].id} ELSE lost
    /\ cut' = IF At(r, "notify") \/ At(r, "describe")
              THEN cut \cup {requests[r].id} ELSE cut
    /\ Respond(r)
    /\ UNCHANGED <<stores, jobs, strays, gone, reported, said>>

-----------------------------------------------------------------------------
(* agent-core.                                                             *)

\* Mutant of UpdateStatus: only the number of chunks gets written.
UpdateChunks(d, status, count) ==
    IF Exists(d)
    THEN documents' = [documents EXCEPT ![d].count = count]
    ELSE UNCHANGED documents

\* updateStatus: UPDATE of the row, if it is there.
UpdateStatus(d, status, count) ==
    IF Exists(d)
    THEN documents' = [documents EXCEPT ![d].status = status, ![d].count = count]
    ELSE UNCHANGED documents

Indexed(d, n) ==
    /\ jobs[d] > 0
    /\ jobs' = [jobs EXCEPT ![d] = @ - 1]
    /\ UpdateStatus(d, "indexed", n)
    /\ reported' = [reported EXCEPT ![d] = n]
    /\ UNCHANGED <<agents, objects, drawn, requests, strays, gone, said, lost, cut>>

IndexingFailed(d) ==
    /\ jobs[d] > 0
    /\ jobs' = [jobs EXCEPT ![d] = @ - 1]
    /\ UpdateStatus(d, "failed", documents[d].count)
    /\ UNCHANGED <<agents, objects, drawn, requests, history>>

\* agent-core dies over it.
LoseJob(d) ==
    /\ jobs[d] > 0
    /\ jobs' = [jobs EXCEPT ![d] = @ - 1]
    /\ lost' = lost \cup {d}
    /\ UNCHANGED <<stores, requests, strays, gone, reported, said, cut>>

-----------------------------------------------------------------------------
Call(r) ==
    \/ \E a \in Agent : UpdateAgent(r, a)
    \/ \E d \in Doc : Confirm(r, d) \/ Remove(r, d)

Handler(r) ==
    \/ SaveAgent(r)
    \/ Reload(r) \/ Update(r) \/ Insert(r)
    \/ Notify(r) \/ NotifyRefused(r) \/ Describe(r)
    \/ DeleteObject(r) \/ DeleteRow(r)

AgentCore(d) ==
    \/ \E n \in Count : Indexed(d, n)
    \/ IndexingFailed(d)
    \/ LoseJob(d)

Next ==
    \/ \E r \in Req : Call(r) \/ Handler(r) \/ Fail(r)
    \/ \E a \in Agent : CreateAgent(a) \/ RemoveAgent(a)
    \/ \E a \in Agent, d \in Doc : GetUploadUrl(a, d)
    \/ \E d \in Doc : PutObject(d) \/ AgentCore(d)
    \/ \E d \in Doc, text \in Text : PatchDoc(d, text)

\* The event loop runs what is ready; agent-core ends, well or badly, what it
\* has accepted.  Clients owe nothing.
Fairness ==
    /\ \A r \in Req : WF_vars(Handler(r))
    /\ \A d \in Doc : WF_vars(AgentCore(d))

Spec == Init /\ [][Next]_vars /\ Fairness

-----------------------------------------------------------------------------
(* Properties.                                                             *)

\* Somebody is about to have d indexed, is indexing it, or has failed to.
Awaited(d) ==
    \/ d \in lost
    \/ jobs[d] > 0
    \/ Notifying(d)

\* A document that is being indexed, or whose number of chunks is not the one
\* last reported, will be reported on again, unless its last call of agent-core
\* came to nothing: confirmUpload writes before it calls, so what its stale
\* entity undoes is done again.
NothingForgotten ==
    \A d \in Doc :
        \/ documents[d].status = "indexing"
        \/ documents[d].status = "indexed" /\ documents[d].count # reported[d]
        => Awaited(d)

\* A description that was set stands, unless a confirmation is still to set
\* another one or broke off after its save had put the old one back.
LastWordStands ==
    \A d \in Doc :
        Exists(d) /\ documents[d].text # said[d] =>
            d \in cut \/ Describing(d)

\* "Delete from S3 first, then DB": whatever fails in between, no object is left
\* without a row, but for those whose agent was deleted or that were put while
\* or after the document was removed.
CleanedUp == \A d \in objects \ strays : Exists(d)

\* The saves of confirmUpload and of an agent's update may insert what has been
\* removed, but only what they had read before: what was removed when nobody held
\* it never comes back.
StaysGone ==
    /\ \A d \in gone \cap Doc : ~Exists(d)
    /\ gone \cap agents = {}

\* A document does not stay INDEXING, unless its last call of agent-core came to
\* nothing.
IndexingEnds ==
    \A d \in Doc :
        documents[d].status = "indexing" ~>
            documents[d].status # "indexing" \/ d \in lost

-----------------------------------------------------------------------------
(* The inductive invariant.                                                *)

\* Ids come from what was handed out.
IdsDrawn ==
    /\ agents \cup gone \subseteq drawn
    /\ \A d \in Doc : Exists(d) \/ said[d] # NoText => d \in drawn
    /\ \A r \in Req : /\ At(r, "saveAgent") => requests[r].agent \in drawn
                      /\ ~At(r, "idle") /\ ~At(r, "saveAgent") =>
                            requests[r].id \in drawn

\* What is gone is in nobody's hands.
GoneIsFree ==
    /\ \A d \in gone \cap Doc : ~Held(d)
    /\ \A a \in gone \cap Agent : ~AgentHeld(a)

\* Before it deletes a row, a removal has deleted the object.
ObjectFirst == \A d \in Doc : Deleting(d) => d \notin objects \ strays

IInv ==
    /\ TypeOK
    /\ NothingForgotten
    /\ LastWordStands
    /\ IdsDrawn /\ GoneIsFree /\ StaysGone
    /\ ObjectFirst /\ CleanedUp

=============================================================================
