--------------------------- MODULE DocumentsProofs ---------------------------
(***************************************************************************)
(* Theorems about Documents, for any sets of agents, documents and request *)
(* slots, finite or not.                                                   *)
(***************************************************************************)
EXTENDS Documents, TLAPS

(* ------------------------- Type correctness ---------------------------- *)

\* What the program counter of a request says about its other fields.
LEMMA RequestFields ==
    ASSUME TypeOK, NEW r \in Req
    PROVE  /\ requests[r] \in Request
           /\ requests[r].pc \in {"reload", "insert", "update"} =>
                 requests[r].row \in Row
           /\ ~At(r, "idle") /\ ~At(r, "saveAgent") => requests[r].id \in Doc
           /\ At(r, "saveAgent") => requests[r].agent \in Agent
  <1>1. requests[r] \in Request
    BY DEF TypeOK
  <1>2. QED
    BY <1>1 DEF Request, Idle, At

\* A step that moves one request to a well-typed record keeps the requests
\* well typed.
LEMMA ContinueType ==
    ASSUME TypeOK, NEW r \in Req, NEW rec \in Request, Continue(r, rec)
    PROVE  requests' \in [Req -> Request]
  BY DEF TypeOK, Continue

\* A slot without handler is well typed.
LEMMA RespondType ==
    ASSUME TypeOK, NEW r \in Req, Respond(r)
    PROVE  requests' \in [Req -> Request]
  BY ContinueType DEF Respond, Request

\* So does a handler that goes on with its document.
LEMMA GoOnType ==
    ASSUME TypeOK, NEW r \in Req, requests[r].id \in Doc,
           NEW pc \in {"notify", "describe", "deleteObject", "deleteRow"}, GoOn(r, pc)
    PROVE  requests' \in [Req -> Request]
  <1>1. [pc |-> pc, id |-> requests[r].id] \in Request
    BY DEF Request
  <1>2. QED
    BY <1>1, ContinueType DEF GoOn

\* A document that exists has a row.
LEMMA ExistingRow ==
    ASSUME TypeOK, NEW d \in Doc, Exists(d)
    PROVE  documents[d] \in Row
  BY DEF TypeOK, Exists

\* Replacing what a document's id stands for keeps the table well typed.
LEMMA TableType ==
    ASSUME TypeOK, NEW d \in Doc, NEW row \in Row \cup {NoRow},
           documents' = [documents EXCEPT ![d] = row]
    PROVE  documents' \in [Doc -> Row \cup {NoRow}]
  BY DEF TypeOK

\* The description of a document is set, and nothing but it.
LEMMA SetTextType ==
    ASSUME TypeOK, NEW d \in Doc, NEW text \in Text, SetText(d, text)
    PROVE  /\ documents' \in [Doc -> Row \cup {NoRow}]
           /\ said' \in [Doc -> Text]
           /\ cut' \subseteq Doc
  <1>1. CASE Exists(d)
    <2>1. [documents[d] EXCEPT !.text = text] \in Row
      BY <1>1, ExistingRow DEF Row
    <2>2. documents' = [documents EXCEPT ![d] = [documents[d] EXCEPT !.text = text]]
      BY <1>1 DEF SetText, TypeOK
    <2>3. QED
      BY <1>1, <2>1, <2>2, TableType DEF SetText, TypeOK
  <1>2. CASE ~Exists(d)
    BY <1>2 DEF SetText, TypeOK
  <1>3. QED
    BY <1>1, <1>2

\* agent-core's report keeps the table well typed.
LEMMA UpdateStatusType ==
    ASSUME TypeOK, NEW d \in Doc, NEW status \in Status, NEW count,
           Exists(d) => count \in Count \cup {0}, UpdateStatus(d, status, count)
    PROVE  documents' \in [Doc -> Row \cup {NoRow}]
  <1>1. CASE Exists(d)
    <2>1. [documents[d] EXCEPT !.status = status, !.count = count] \in Row
      BY <1>1, ExistingRow DEF Row
    <2>2. documents' = [documents EXCEPT ![d] =
                          [documents[d] EXCEPT !.status = status, !.count = count]]
      BY <1>1 DEF UpdateStatus, TypeOK
    <2>3. QED
      BY <2>1, <2>2, TableType
  <1>2. CASE ~Exists(d)
    BY <1>2 DEF UpdateStatus, TypeOK
  <1>3. QED
    BY <1>1, <1>2

\* Calls keep the types.
LEMMA CallType ==
    ASSUME TypeOK, NEW r \in Req, Call(r)
    PROVE  TypeOK'
  <1>1. ASSUME NEW a \in Agent, UpdateAgent(r, a)
        PROVE  TypeOK'
    <2>1. [pc |-> "saveAgent", agent |-> a] \in Request
      BY DEF Request
    <2>2. QED
      BY <1>1, <2>1, ContinueType DEF UpdateAgent, TypeOK, stores, history
  <1>2. ASSUME NEW d \in Doc, Confirm(r, d)
        PROVE  TypeOK'
    <2>1. [documents[d] EXCEPT !.status = "indexing"] \in Row
      BY <1>2, ExistingRow DEF Row, Status, Confirm
    <2>2. [pc |-> "reload", id |-> d,
           row |-> [documents[d] EXCEPT !.status = "indexing"]] \in Request
      BY <2>1 DEF Request
    <2>3. QED
      BY <1>2, <2>2, ContinueType DEF Confirm, TypeOK, stores, history
  <1>3. ASSUME NEW d \in Doc, Remove(r, d)
        PROVE  TypeOK'
    <2>1. [pc |-> "deleteObject", id |-> d] \in Request
      BY DEF Request
    <2>2. QED
      BY <1>3, <2>1, ContinueType DEF Remove, TypeOK, stores, history
  <1>4. QED
    BY <1>1, <1>2, <1>3 DEF Call

\* Handlers keep the types.
LEMMA HandlerType ==
    ASSUME TypeOK, NEW r \in Req, Handler(r)
    PROVE  TypeOK'
  <1>1. CASE SaveAgent(r)
    BY <1>1, RequestFields, RespondType DEF SaveAgent, TypeOK, history
  <1>2. CASE Reload(r)
    <2>1. /\ requests[r].id \in Doc
          /\ requests[r].row \in Row
      BY <1>2, RequestFields DEF Reload, At
    <2>2. CASE Exists(requests[r].id)
      <3>1. Changed(requests[r].row, documents[requests[r].id]) \in SUBSET Column
        BY DEF Changed, Column
      <3>2. [pc |-> "update", id |-> requests[r].id, row |-> requests[r].row,
             columns |-> Changed(requests[r].row, documents[requests[r].id])]
               \in Request
        BY <2>1, <3>1 DEF Request
      <3>3. QED
        BY <1>2, <2>2, <3>2, ContinueType DEF Reload, TypeOK, stores, history
    <2>3. CASE ~Exists(requests[r].id)
      <3>1. [pc |-> "insert", id |-> requests[r].id, row |-> requests[r].row] \in Request
        BY <2>1 DEF Request
      <3>2. QED
        BY <1>2, <2>3, <3>1, ContinueType DEF Reload, TypeOK, stores, history
    <2>4. QED
      BY <2>2, <2>3
  <1>3. CASE Update(r)
    <2>1. /\ requests[r].id \in Doc
          /\ requests[r].row \in Row
      BY <1>3, RequestFields DEF Update, At
    <2>2. requests' \in [Req -> Request]
      BY <1>3, <2>1, GoOnType DEF Update, Saved
    <2>3. documents' \in [Doc -> Row \cup {NoRow}]
      <3>1. CASE Exists(requests[r].id)
        <4>1. documents[requests[r].id] \in Row
          BY <2>1, <3>1, ExistingRow
        <4>2. Merged(requests[r].row, documents[requests[r].id],
                     requests[r].columns) \in Row
          BY <2>1, <4>1 DEF Merged, Row
        <4>3. QED
          BY <1>3, <2>1, <3>1, <4>2, TableType DEF Update, TypeOK
      <3>2. CASE ~Exists(requests[r].id)
        BY <1>3, <2>1, <3>2 DEF Update, TypeOK
      <3>3. QED
        BY <3>1, <3>2
    <2>4. QED
      BY <1>3, <2>2, <2>3 DEF Update, TypeOK, history
  <1>4. CASE Insert(r)
    <2>1. /\ requests[r].id \in Doc
          /\ requests[r].row \in Row
      BY <1>4, RequestFields DEF Insert, At
    <2>2. requests' \in [Req -> Request]
      BY <1>4, <2>1, GoOnType, RespondType DEF Insert, Saved
    <2>3. documents' \in [Doc -> Row \cup {NoRow}]
      BY <1>4, <2>1, TableType DEF Insert, TypeOK
    <2>4. QED
      BY <1>4, <2>2, <2>3 DEF Insert, TypeOK, history
  <1>5. CASE Notify(r) \/ NotifyRefused(r)
    <2>1. /\ requests[r].id \in Doc
      BY <1>5, RequestFields DEF Notify, NotifyRefused, At
    <2>2. requests' \in [Req -> Request]
      BY <1>5, <2>1, GoOnType DEF Notify, NotifyRefused
    <2>3. jobs' \in [Doc -> Nat]
      BY <1>5, <2>1 DEF Notify, NotifyRefused, TypeOK
    <2>4. QED
      BY <1>5, <2>1, <2>2, <2>3 DEF Notify, NotifyRefused, TypeOK, stores
  <1>6. CASE Describe(r)
    <2>1. /\ requests[r].id \in Doc
      BY <1>6, RequestFields DEF Describe, At
    <2>2. QED
      BY <1>6, <2>1, SetTextType, RespondType DEF Describe, TypeOK
  <1>7. CASE DeleteObject(r)
    <2>1. requests[r].id \in Doc
      BY <1>7, RequestFields DEF DeleteObject, At
    <2>2. QED
      BY <1>7, <2>1, GoOnType DEF DeleteObject, TypeOK
  <1>8. CASE DeleteRow(r)
    <2>1. requests[r].id \in Doc
      BY <1>8, RequestFields DEF DeleteRow, At
    <2>2. QED
      BY <1>8, <2>1, TableType, RespondType DEF DeleteRow, TypeOK
  <1>9. QED
    BY <1>1, <1>2, <1>3, <1>4, <1>5, <1>6, <1>7, <1>8 DEF Handler

\* The next-state relation keeps the types.
LEMMA TypeStep ==
    ASSUME TypeOK, [Next]_vars
    PROVE  TypeOK'
  <1>1. ASSUME NEW r \in Req, Call(r)
        PROVE  TypeOK'
    BY <1>1, CallType
  <1>2. ASSUME NEW r \in Req, Handler(r)
        PROVE  TypeOK'
    BY <1>2, HandlerType
  <1>3. ASSUME NEW r \in Req, Fail(r)
        PROVE  TypeOK'
    <2>1. At(r, "notify") \/ At(r, "describe") => requests[r].id \in Doc
      BY RequestFields DEF At
    <2>2. QED
      BY <1>3, <2>1, RespondType DEF Fail, TypeOK, stores
  <1>4. ASSUME NEW a \in Agent, CreateAgent(a)
        PROVE  TypeOK'
    BY <1>4 DEF CreateAgent, TypeOK, history
  <1>5. ASSUME NEW a \in Agent, RemoveAgent(a)
        PROVE  TypeOK'
    BY <1>5 DEF RemoveAgent, TypeOK
  <1>6. ASSUME NEW a \in Agent, NEW d \in Doc, GetUploadUrl(a, d)
        PROVE  TypeOK'
    <2>1. [agent |-> a, status |-> "pending", count |-> 0, text |-> NoText] \in Row
      BY TextAssumption DEF Row, Status
    <2>2. QED
      BY <1>6, <2>1, TableType DEF GetUploadUrl, TypeOK, history
  <1>7. ASSUME NEW d \in Doc, PutObject(d)
        PROVE  TypeOK'
    BY <1>7 DEF PutObject, TypeOK
  <1>8. ASSUME NEW d \in Doc, AgentCore(d)
        PROVE  TypeOK'
    <2>1. jobs' \in [Doc -> Nat]
      BY <1>8 DEF AgentCore, Indexed, IndexingFailed, LoseJob, TypeOK
    <2>2. ASSUME NEW n \in Count, Indexed(d, n)
          PROVE  TypeOK'
      BY <2>1, <2>2, UpdateStatusType DEF Indexed, TypeOK, Status
    <2>3. CASE IndexingFailed(d)
      <3>1. Exists(d) => documents[d].count \in Count \cup {0}
        BY ExistingRow DEF Row
      <3>2. documents' \in [Doc -> Row \cup {NoRow}]
        BY <2>3, <3>1, UpdateStatusType DEF IndexingFailed, Status
      <3>3. QED
        BY <2>1, <2>3, <3>2 DEF IndexingFailed, TypeOK, history
    <2>4. CASE LoseJob(d)
      BY <2>1, <2>4 DEF LoseJob, TypeOK, stores
    <2>5. QED
      BY <1>8, <2>2, <2>3, <2>4 DEF AgentCore
  <1>9. ASSUME NEW d \in Doc, NEW text \in Text, PatchDoc(d, text)
        PROVE  TypeOK'
    BY <1>9, SetTextType DEF PatchDoc, TypeOK
  <1>10. CASE UNCHANGED vars
    BY <1>10 DEF vars, stores, history, TypeOK
  <1>11. QED
    BY <1>1, <1>2, <1>3, <1>4, <1>5, <1>6, <1>7, <1>8, <1>9, <1>10 DEF Next

\* The initial state is well typed.
LEMMA InitType == Init => TypeOK
  BY TextAssumption DEF Init, TypeOK, Request

\* Every reachable state of documents is well typed.
THEOREM TypeCorrect == Spec => []TypeOK
  BY InitType, TypeStep, PTL DEF Spec

\* Setting a description leaves the rest of every row.
LEMMA TextKept ==
    ASSUME TypeOK, NEW e \in Doc, NEW text \in Text, SetText(e, text), NEW d \in Doc
    PROVE  /\ documents'[d].status = documents[d].status
           /\ documents'[d].count = documents[d].count
           /\ Exists(d)' <=> Exists(d)
           /\ d # e => documents'[d] = documents[d]
           /\ Exists(e) => documents'[e].text = text
  <1>1. CASE Exists(e)
    <2>1. documents[e] \in Row
      BY <1>1, ExistingRow
    <2>2. documents' = [documents EXCEPT ![e] = [documents[e] EXCEPT !.text = text]]
      BY <1>1 DEF SetText, TypeOK
    <2>3. documents[e].status # "none"
      BY <2>1 DEF Row, Status
    <2>4. documents'[e] \in Row /\ documents'[e].status # "none"
      BY <2>1, <2>2, <2>3 DEF Row, TypeOK
    <2>5. documents'[e] # NoRow
      BY <2>4 DEF NoRow
    <2>6. QED
      BY <1>1, <2>1, <2>2, <2>5 DEF Row, TypeOK, Exists
  <1>2. CASE ~Exists(e)
    BY <1>2 DEF SetText, Exists
  <1>3. QED
    BY <1>1, <1>2

(* ----------------------- What a step does to slots --------------------- *)

\* A step of one request leaves the other requests alone.
LEMMA Moves ==
    ASSUME TypeOK, NEW r \in Req, NEW rec, Continue(r, rec)
    PROVE  /\ requests'[r] = rec
           /\ \A q \in Req \ {r} : requests'[q] = requests[q]
  BY DEF Continue, TypeOK

\* A request that is not about to call agent-core takes no call away, and one
\* past its save leaves the others'.
LEMMA NotifyingStays ==
    ASSUME TypeOK, NEW r \in Req, NEW rec, Continue(r, rec), NEW d \in Doc
    PROVE  /\ ~At(r, "notify") /\ Notifying(d) => Notifying(d)'
           /\ requests[r].id # d /\ Notifying(d) => Notifying(d)'
           /\ ~At(r, "notify") /\ ~At(r, "describe") /\ Describing(d) => Describing(d)'
           /\ requests[r].id # d /\ Describing(d) => Describing(d)'
  BY Moves DEF Notifying, Describing, Concerns, At

\* A confirmation that has saved is about to call agent-core and to describe.
LEMMA SavedNotifies ==
    ASSUME TypeOK, NEW r \in Req, Saved(r), NEW d \in Doc, requests[r].id = d
    PROVE  Notifying(d)' /\ Describing(d)'
  <1>1. requests'[r] = [pc |-> "notify", id |-> requests[r].id]
    BY Moves DEF Saved, GoOn
  <1>2. QED
    BY <1>1 DEF Notifying, Describing, Concerns, At

(* ------------------------ Nothing is forgotten ------------------------- *)

\* A document that somebody still has to report on.
Bad(d) == \/ documents[d].status = "indexing"
          \/ documents[d].status = "indexed" /\ documents[d].count # reported[d]

\* Where rows, reports and the pending work stay, nothing gets forgotten.
LEMMA StillAwaited ==
    ASSUME NothingForgotten, NEW d \in Doc,
           documents'[d] = documents[d], reported'[d] = reported[d],
           d \in lost => d \in lost', jobs[d] > 0 => jobs'[d] > 0,
           Notifying(d) => Notifying(d)', Bad(d)'
    PROVE  Awaited(d)'
  BY DEF NothingForgotten, Awaited, Bad

\* Calls forget nothing.
LEMMA CallForgetsNothing ==
    ASSUME TypeOK, NothingForgotten, NEW r \in Req, Call(r)
    PROVE  NothingForgotten'
  <1> SUFFICES ASSUME NEW d \in Doc, Bad(d)'
               PROVE  Awaited(d)'
    BY DEF NothingForgotten, Bad
  <1>1. /\ ~At(r, "notify")
        /\ \E rec : Continue(r, rec)
        /\ UNCHANGED <<stores, jobs, history>>
    BY DEF Call, UpdateAgent, Confirm, Remove, At
  <1>2. Notifying(d) => Notifying(d)'
    BY <1>1, NotifyingStays
  <1>3. QED
    BY <1>1, <1>2, StillAwaited DEF stores, history

\* Handlers forget nothing: a save is followed by a call.
LEMMA HandlerForgetsNothing ==
    ASSUME TypeOK, NothingForgotten, NEW r \in Req, Handler(r)
    PROVE  NothingForgotten'
  <1> SUFFICES ASSUME NEW d \in Doc, Bad(d)'
               PROVE  Awaited(d)'
    BY DEF NothingForgotten, Bad
  <1>1. CASE SaveAgent(r) \/ Reload(r) \/ DeleteObject(r)
    <2>1. ~At(r, "notify") /\ \E rec : Continue(r, rec)
      BY <1>1 DEF SaveAgent, Reload, DeleteObject, GoOn, At, Respond
    <2>2. Notifying(d) => Notifying(d)'
      BY <2>1, NotifyingStays
    <2>3. QED
      BY <1>1, <2>2, StillAwaited DEF SaveAgent, Reload, DeleteObject, stores, history
  <1>2. CASE Update(r) \/ Insert(r)
    <2>1. CASE Saved(r) /\ requests[r].id = d
      BY <2>1, SavedNotifies DEF Awaited
    <2>2. CASE Saved(r) /\ requests[r].id # d
      <3>1. Notifying(d) => Notifying(d)'
        BY <2>2, NotifyingStays DEF Saved, GoOn
      <3>2. documents'[d] = documents[d]
        BY <1>2, <2>2 DEF Update, Insert, TypeOK
      <3>3. QED
        BY <1>2, <3>1, <3>2, StillAwaited DEF Update, Insert, history
    <2>3. CASE ~Saved(r)
      <3>1. Notifying(d) => Notifying(d)'
        BY <1>2, <2>3, NotifyingStays DEF Update, Insert, Respond, At
      <3>2. UNCHANGED documents
        BY <1>2, <2>3 DEF Update, Insert
      <3>3. QED
        BY <1>2, <3>1, <3>2, StillAwaited DEF Update, Insert, history
    <2>4. QED
      BY <2>1, <2>2, <2>3
  <1>3. CASE Notify(r)
    <2>1. requests[r].id \in Doc
      BY <1>3, RequestFields DEF Notify, At
    <2>2. CASE requests[r].id = d
      <3>1. jobs'[d] > 0
        BY <1>3, <2>1, <2>2 DEF Notify, TypeOK
      <3>2. QED
        BY <3>1 DEF Awaited
    <2>3. CASE requests[r].id # d
      <3>1. Notifying(d) => Notifying(d)'
        BY <1>3, <2>3, NotifyingStays DEF Notify, GoOn
      <3>2. jobs'[d] = jobs[d] /\ (d \in lost => d \in lost')
        BY <1>3, <2>1, <2>3 DEF Notify, TypeOK
      <3>3. QED
        BY <1>3, <3>1, <3>2, StillAwaited DEF Notify, stores
    <2>4. QED
      BY <2>2, <2>3
  <1>4. CASE NotifyRefused(r)
    <2>1. CASE requests[r].id = d
      BY <1>4, <2>1 DEF NotifyRefused, Awaited
    <2>2. CASE requests[r].id # d
      <3>1. Notifying(d) => Notifying(d)'
        BY <1>4, <2>2, NotifyingStays DEF NotifyRefused, GoOn
      <3>2. QED
        BY <1>4, <3>1, StillAwaited DEF NotifyRefused, stores
    <2>3. QED
      BY <2>1, <2>2
  <1>5. CASE Describe(r)
    <2>1. Notifying(d) => Notifying(d)'
      BY <1>5, NotifyingStays DEF Describe, Respond, At
    <2>2. /\ documents'[d].status = documents[d].status
          /\ documents'[d].count = documents[d].count
      BY <1>5, TextKept, RequestFields DEF Describe, At
    <2>3. QED
      BY <1>5, <2>1, <2>2 DEF Describe, NothingForgotten, Awaited, Bad
  <1>6. CASE DeleteRow(r)
    <2>1. Notifying(d) => Notifying(d)'
      BY <1>6, NotifyingStays DEF DeleteRow, Respond, At
    <2>2. requests[r].id # d
      BY <1>6 DEF DeleteRow, Bad, NoRow, TypeOK
    <2>3. documents'[d] = documents[d]
      BY <1>6, <2>2 DEF DeleteRow, TypeOK
    <2>4. QED
      BY <1>6, <2>1, <2>3, StillAwaited DEF DeleteRow
  <1>7. QED
    BY <1>1, <1>2, <1>3, <1>4, <1>5, <1>6 DEF Handler

\* No step forgets anything.
LEMMA ForgettingStep ==
    ASSUME TypeOK, NothingForgotten, [Next]_vars
    PROVE  NothingForgotten'
  <1>1. ASSUME NEW r \in Req, Call(r)
        PROVE  NothingForgotten'
    BY <1>1, CallForgetsNothing
  <1>2. ASSUME NEW r \in Req, Handler(r)
        PROVE  NothingForgotten'
    BY <1>2, HandlerForgetsNothing
  <1> SUFFICES ASSUME NEW d \in Doc, Bad(d)'
               PROVE  Awaited(d)'
    BY DEF NothingForgotten, Bad
  <1>3. ASSUME NEW r \in Req, Fail(r)
        PROVE  Awaited(d)'
    <2>1. CASE At(r, "notify") /\ requests[r].id = d
      BY <1>3, <2>1 DEF Fail, Awaited
    <2>2. CASE ~(At(r, "notify") /\ requests[r].id = d)
      <3>1. Notifying(d) => Notifying(d)'
        BY <1>3, <2>2, NotifyingStays DEF Fail, Respond
      <3>2. QED
        BY <1>3, <3>1, StillAwaited DEF Fail, stores
    <2>3. QED
      BY <2>1, <2>2
  <1>4. ASSUME NEW a \in Agent, CreateAgent(a)
        PROVE  Awaited(d)'
    BY <1>4, StillAwaited DEF CreateAgent, history, Notifying, Concerns, At
  <1>5. ASSUME NEW a \in Agent, RemoveAgent(a)
        PROVE  Awaited(d)'
    <2>1. documents'[d] = documents[d]
      BY <1>5 DEF RemoveAgent, Bad, NoRow
    <2>2. QED
      BY <1>5, <2>1, StillAwaited DEF RemoveAgent, Notifying, Concerns, At
  <1>6. ASSUME NEW a \in Agent, NEW e \in Doc, GetUploadUrl(a, e)
        PROVE  Awaited(d)'
    <2>1. documents'[d] = documents[d]
      BY <1>6 DEF GetUploadUrl, Bad, TypeOK
    <2>2. QED
      BY <1>6, <2>1, StillAwaited DEF GetUploadUrl, history, Notifying, Concerns, At
  <1>7. ASSUME NEW e \in Doc, PutObject(e)
        PROVE  Awaited(d)'
    BY <1>7, StillAwaited DEF PutObject, Notifying, Concerns, At
  <1>8. ASSUME NEW e \in Doc, AgentCore(e)
        PROVE  Awaited(d)'
    <2>0. requests' = requests
      BY <1>8 DEF AgentCore, Indexed, IndexingFailed, LoseJob
    <2>1. Notifying(d) => Notifying(d)'
      BY <2>0 DEF Notifying, Concerns, At
    <2>2. CASE e # d
      <3>1. /\ documents'[d] = documents[d] /\ reported'[d] = reported[d]
            /\ jobs'[d] = jobs[d] /\ (d \in lost => d \in lost')
        BY <1>8, <2>2 DEF AgentCore, Indexed, IndexingFailed, LoseJob, UpdateStatus,
                          TypeOK, stores, history
      <3>2. QED
        BY <2>1, <3>1, StillAwaited
    <2>3. CASE e = d /\ LoseJob(d)
      BY <2>3 DEF LoseJob, Awaited
    <2>4. CASE e = d /\ ~LoseJob(d)
      <3>1. ~Bad(d)'
        <4>1. CASE Exists(d)
          <5>1. PICK status \in {"indexed", "failed"}, count \in Count \cup {0} :
                   /\ documents' = [documents EXCEPT ![d].status = status,
                                                     ![d].count = count]
                   /\ status = "indexed" => reported'[d] = count
            <6>1. documents[d].count \in Count \cup {0}
              BY <4>1, ExistingRow DEF Row
            <6>2. QED
              BY <1>8, <2>4, <4>1, <6>1
                 DEF AgentCore, Indexed, IndexingFailed, UpdateStatus, TypeOK
          <5>2. documents'[d].status = status /\ documents'[d].count = count
            <6>1. documents[d] \in Row
              BY <4>1, ExistingRow
            <6>2. QED
              BY <5>1, <6>1 DEF TypeOK, Row
          <5>3. QED
            BY <5>1, <5>2 DEF Bad
        <4>2. CASE ~Exists(d)
          BY <1>8, <2>4, <4>2 DEF AgentCore, Indexed, IndexingFailed, UpdateStatus,
                                  Bad, Exists, NoRow
        <4>3. QED
          BY <4>1, <4>2
      <3>2. QED
        BY <3>1
    <2>5. QED
      BY <2>2, <2>3, <2>4
  <1>9. ASSUME NEW e \in Doc, NEW text \in Text, PatchDoc(e, text)
        PROVE  Awaited(d)'
    <2>1. /\ documents'[d].status = documents[d].status
          /\ documents'[d].count = documents[d].count
      BY <1>9, TextKept DEF PatchDoc
    <2>2. QED
      BY <1>9, <2>1 DEF PatchDoc, NothingForgotten, Awaited, Bad, Notifying,
                        Concerns, At
  <1>10. CASE UNCHANGED vars
    BY <1>10, StillAwaited DEF vars, stores, history, Notifying, Concerns, At
  <1>11. QED
    BY <1>1, <1>2, <1>3, <1>4, <1>5, <1>6, <1>7, <1>8, <1>9, <1>10
       DEF Next, NothingForgotten, Bad

(* ------------------------ The last word stands ------------------------- *)

\* A document whose description is not the one last set.
Reverted(d) == Exists(d) /\ documents[d].text # said[d]

\* Where descriptions and the confirmations that will set them stay, the last
\* word stands.
LEMMA StillSaid ==
    ASSUME LastWordStands, NEW d \in Doc,
           Exists(d)' => Exists(d), documents'[d].text = documents[d].text,
           said'[d] = said[d], d \in cut => d \in cut',
           Describing(d) => Describing(d)', Reverted(d)'
    PROVE  (d \in cut \/ Describing(d))'
  BY DEF LastWordStands, Reverted

\* Setting a description makes it the last word.
LEMMA SetTextSaid ==
    ASSUME TypeOK, NEW d \in Doc, NEW text \in Text, SetText(d, text)
    PROVE  ~Reverted(d)'
  <1>1. CASE Exists(d)
    BY <1>1, TextKept DEF SetText, Reverted, TypeOK
  <1>2. CASE ~Exists(d)
    BY <1>2, TextKept DEF Reverted
  <1>3. QED
    BY <1>1, <1>2

\* Calls leave the last word.
LEMMA CallKeepsWord ==
    ASSUME TypeOK, LastWordStands, NEW r \in Req, Call(r)
    PROVE  LastWordStands'
  <1> SUFFICES ASSUME NEW d \in Doc, Reverted(d)'
               PROVE  (d \in cut \/ Describing(d))'
    BY DEF LastWordStands, Reverted
  <1>1. /\ At(r, "idle")
        /\ \E rec : Continue(r, rec)
        /\ UNCHANGED <<stores, jobs, history>>
    BY DEF Call, UpdateAgent, Confirm, Remove
  <1>2. Describing(d) => Describing(d)'
    BY <1>1, NotifyingStays DEF At
  <1>3. QED
    BY <1>1, <1>2, StillSaid DEF stores, history, Exists

\* Handlers leave it, or are about to say another.
LEMMA HandlerKeepsWord ==
    ASSUME TypeOK, LastWordStands, NEW r \in Req, Handler(r)
    PROVE  LastWordStands'
  <1> SUFFICES ASSUME NEW d \in Doc, Reverted(d)'
               PROVE  (d \in cut \/ Describing(d))'
    BY DEF LastWordStands, Reverted
  <1>1. CASE SaveAgent(r) \/ Reload(r) \/ DeleteObject(r)
    <2>1. ~At(r, "notify") /\ ~At(r, "describe") /\ \E rec : Continue(r, rec)
      BY <1>1 DEF SaveAgent, Reload, DeleteObject, GoOn, At, Respond
    <2>2. Describing(d) => Describing(d)'
      BY <2>1, NotifyingStays
    <2>3. QED
      BY <1>1, <2>2, StillSaid
         DEF SaveAgent, Reload, DeleteObject, stores, history, Exists
  <1>2. CASE Update(r) \/ Insert(r)
    <2>1. CASE Saved(r) /\ requests[r].id = d
      BY <2>1, SavedNotifies
    <2>2. CASE Saved(r) /\ requests[r].id # d
      <3>1. Describing(d) => Describing(d)'
        BY <2>2, NotifyingStays DEF Saved, GoOn
      <3>2. documents'[d] = documents[d]
        BY <1>2, <2>2 DEF Update, Insert, TypeOK
      <3>3. QED
        BY <1>2, <3>1, <3>2, StillSaid DEF Update, Insert, history, Exists
    <2>3. CASE ~Saved(r)
      <3>1. Describing(d) => Describing(d)'
        BY <1>2, <2>3, NotifyingStays DEF Update, Insert, Respond, At
      <3>2. UNCHANGED documents
        BY <1>2, <2>3 DEF Update, Insert
      <3>3. QED
        BY <1>2, <3>1, <3>2, StillSaid DEF Update, Insert, history, Exists
    <2>4. QED
      BY <2>1, <2>2, <2>3
  <1>3. CASE Notify(r) \/ NotifyRefused(r)
    <2>1. Describing(d) => Describing(d)'
      <3>1. GoOn(r, "describe") /\ At(r, "notify")
        BY <1>3 DEF Notify, NotifyRefused
      <3>2. requests'[r] = [pc |-> "describe", id |-> requests[r].id]
        BY <3>1, Moves DEF GoOn
      <3>3. \A q \in Req \ {r} : requests'[q] = requests[q]
        BY <3>1, Moves DEF GoOn
      <3>4. QED
        BY <3>1, <3>2, <3>3 DEF Describing, Concerns, At
    <2>2. QED
      BY <1>3, <2>1, StillSaid DEF Notify, NotifyRefused, stores, Exists
  <1>4. CASE Describe(r)
    <2>1. requests[r].id \in Doc
      BY <1>4, RequestFields DEF Describe, At
    <2>2. PICK text \in Text : SetText(requests[r].id, text)
      BY <1>4 DEF Describe
    <2>3. requests[r].id # d
      BY <2>1, <2>2, SetTextSaid
    <2>4. Describing(d) => Describing(d)'
      BY <1>4, <2>3, NotifyingStays DEF Describe, Respond
    <2>5. documents'[d] = documents[d]
      BY <2>1, <2>2, <2>3, TextKept
    <2>6. said'[d] = said[d] /\ (d \in cut => d \in cut')
      BY <2>1, <2>2, <2>3 DEF SetText, TypeOK
    <2>7. QED
      BY <2>4, <2>5, <2>6, StillSaid DEF Exists
  <1>5. CASE DeleteRow(r)
    <2>1. Describing(d) => Describing(d)'
      BY <1>5, NotifyingStays DEF DeleteRow, Respond, At
    <2>2. requests[r].id # d
      BY <1>5 DEF DeleteRow, Reverted, Exists, TypeOK
    <2>3. documents'[d] = documents[d]
      BY <1>5, <2>2 DEF DeleteRow, TypeOK
    <2>4. QED
      BY <1>5, <2>1, <2>3, StillSaid DEF DeleteRow, Exists
  <1>6. QED
    BY <1>1, <1>2, <1>3, <1>4, <1>5 DEF Handler

\* No step takes the last word back for good.
LEMMA WordStep ==
    ASSUME TypeOK, LastWordStands, IdsDrawn, [Next]_vars
    PROVE  LastWordStands'
  <1>1. ASSUME NEW r \in Req, Call(r)
        PROVE  LastWordStands'
    BY <1>1, CallKeepsWord
  <1>2. ASSUME NEW r \in Req, Handler(r)
        PROVE  LastWordStands'
    BY <1>2, HandlerKeepsWord
  <1> SUFFICES ASSUME NEW d \in Doc, Reverted(d)'
               PROVE  (d \in cut \/ Describing(d))'
    BY DEF LastWordStands, Reverted
  <1>3. ASSUME NEW r \in Req, Fail(r)
        PROVE  (d \in cut \/ Describing(d))'
    <2>1. CASE (At(r, "notify") \/ At(r, "describe")) /\ requests[r].id = d
      BY <1>3, <2>1 DEF Fail
    <2>2. CASE ~((At(r, "notify") \/ At(r, "describe")) /\ requests[r].id = d)
      <3>1. Describing(d) => Describing(d)'
        BY <1>3, <2>2, NotifyingStays DEF Fail, Respond
      <3>2. QED
        BY <1>3, <3>1, StillSaid DEF Fail, stores, Exists
    <2>3. QED
      BY <2>1, <2>2
  <1>4. ASSUME NEW a \in Agent, CreateAgent(a)
        PROVE  (d \in cut \/ Describing(d))'
    BY <1>4, StillSaid DEF CreateAgent, history, Describing, Concerns, At, Exists
  <1>5. ASSUME NEW a \in Agent, RemoveAgent(a)
        PROVE  (d \in cut \/ Describing(d))'
    <2>1. documents'[d] = documents[d]
      BY <1>5 DEF RemoveAgent, Reverted, Exists
    <2>2. QED
      BY <1>5, <2>1, StillSaid DEF RemoveAgent, Describing, Concerns, At, Exists
  <1>6. ASSUME NEW a \in Agent, NEW e \in Doc, GetUploadUrl(a, e)
        PROVE  (d \in cut \/ Describing(d))'
    <2>1. CASE e = d
      <3>1. said'[d] = NoText
        BY <1>6, <2>1 DEF GetUploadUrl, history, IdsDrawn
      <3>2. documents'[d].text = NoText
        BY <1>6, <2>1 DEF GetUploadUrl, TypeOK
      <3>3. QED
        BY <3>1, <3>2 DEF Reverted
    <2>2. CASE e # d
      <3>1. documents'[d] = documents[d]
        BY <1>6, <2>2 DEF GetUploadUrl, TypeOK
      <3>2. QED
        BY <1>6, <3>1, StillSaid DEF GetUploadUrl, history, Describing, Concerns,
                                     At, Exists
    <2>3. QED
      BY <2>1, <2>2
  <1>7. ASSUME NEW e \in Doc, PutObject(e)
        PROVE  (d \in cut \/ Describing(d))'
    BY <1>7, StillSaid DEF PutObject, Describing, Concerns, At, Exists
  <1>8. ASSUME NEW e \in Doc, AgentCore(e)
        PROVE  (d \in cut \/ Describing(d))'
    <2>1. requests' = requests /\ said' = said /\ cut' = cut
      BY <1>8 DEF AgentCore, Indexed, IndexingFailed, LoseJob, history
    <2>2. documents'[d].text = documents[d].text /\ (Exists(d)' => Exists(d))
      <3>1. CASE Exists(e)
        <4>1. documents[e] \in Row
          BY <3>1, ExistingRow
        <4>2. QED
          BY <1>8, <3>1, <4>1 DEF AgentCore, Indexed, IndexingFailed, LoseJob,
                                  UpdateStatus, TypeOK, Exists, Row, stores
      <3>2. CASE ~Exists(e)
        BY <1>8, <3>2 DEF AgentCore, Indexed, IndexingFailed, LoseJob, UpdateStatus,
                          Exists, stores
      <3>3. QED
        BY <3>1, <3>2
    <2>3. QED
      BY <2>1, <2>2, StillSaid DEF Describing, Concerns, At
  <1>9. ASSUME NEW e \in Doc, NEW text \in Text, PatchDoc(e, text)
        PROVE  (d \in cut \/ Describing(d))'
    <2>1. SetText(e, text) /\ requests' = requests
      BY <1>9 DEF PatchDoc
    <2>2. e # d
      BY <2>1, SetTextSaid
    <2>3. documents'[d] = documents[d]
      BY <2>1, <2>2, TextKept
    <2>4. said'[d] = said[d] /\ (d \in cut => d \in cut')
      BY <2>1, <2>2 DEF SetText, TypeOK
    <2>5. QED
      BY <2>1, <2>3, <2>4, StillSaid DEF Exists, Describing, Concerns, At
  <1>10. CASE UNCHANGED vars
    BY <1>10, StillSaid DEF vars, stores, history, Describing, Concerns, At, Exists
  <1>11. QED
    BY <1>1, <1>2, <1>3, <1>4, <1>5, <1>6, <1>7, <1>8, <1>9, <1>10
       DEF Next, LastWordStands, Reverted

\* Steps of no request leave the requests.
LEMMA QuietSteps ==
    ASSUME [Next]_vars
    PROVE  \/ \E r \in Req : Call(r) \/ Handler(r) \/ Fail(r)
           \/ UNCHANGED requests
  BY DEF Next, CreateAgent, RemoveAgent, GetUploadUrl, PutObject, AgentCore, Indexed,
         IndexingFailed, LoseJob, PatchDoc, vars

\* Only removals make something gone.
LEMMA GoneGrows ==
    ASSUME [Next]_vars
    PROVE  \/ gone' = gone
           \/ \E a \in Agent : RemoveAgent(a)
           \/ \E r \in Req : DeleteRow(r)
  BY DEF Next, Call, UpdateAgent, Confirm, Remove, Handler, SaveAgent, Reload, Update,
         Insert, Notify, NotifyRefused, Describe, DeleteObject, Fail, CreateAgent,
         GetUploadUrl, PutObject, AgentCore, Indexed, IndexingFailed, LoseJob, PatchDoc,
         vars, history

(* ---------------------- What is gone stays gone ------------------------ *)

\* A document appears by an upload, or by the INSERT of a confirmation.
LEMMA Appears ==
    ASSUME TypeOK, [Next]_vars, NEW d \in Doc, Exists(d)', ~Exists(d)
    PROVE  \/ d \notin drawn /\ d \in drawn'
           \/ Held(d)
  <1>1. ASSUME NEW r \in Req, Call(r) \/ Fail(r)
        PROVE  FALSE
    BY <1>1 DEF Call, Fail, UpdateAgent, Confirm, Remove, stores, Exists
  <1>2. ASSUME NEW r \in Req, Handler(r)
        PROVE  Held(d)
    <2>1. CASE Insert(r)
      <3>1. requests[r].id = d
        BY <2>1 DEF Insert, Exists, TypeOK
      <3>2. QED
        BY <2>1, <3>1 DEF Insert, Held, Concerns, At
    <2>2. CASE Describe(r)
      <3>1. requests[r].id \in Doc
        BY <2>2, RequestFields DEF Describe, At
      <3>2. QED
        BY <2>2, <3>1, TextKept DEF Describe
    <2>3. QED
      BY <1>2, <2>1, <2>2 DEF Handler, SaveAgent, Reload, Update, Notify, NotifyRefused,
                              DeleteObject, DeleteRow, stores, Exists, TypeOK
  <1>3. ASSUME NEW a \in Agent, CreateAgent(a) \/ RemoveAgent(a)
        PROVE  FALSE
    BY <1>3 DEF CreateAgent, RemoveAgent, Exists, TypeOK
  <1>4. ASSUME NEW a \in Agent, NEW e \in Doc, GetUploadUrl(a, e)
        PROVE  d \notin drawn /\ d \in drawn'
    BY <1>4 DEF GetUploadUrl, Exists, TypeOK
  <1>5. ASSUME NEW e \in Doc, PutObject(e) \/ AgentCore(e)
        PROVE  FALSE
    BY <1>5 DEF PutObject, AgentCore, Indexed, IndexingFailed, LoseJob, UpdateStatus,
                stores, Exists, TypeOK
  <1>6. ASSUME NEW e \in Doc, NEW text \in Text, PatchDoc(e, text)
        PROVE  FALSE
    BY <1>6, TextKept DEF PatchDoc
  <1>7. CASE UNCHANGED vars
    BY <1>7 DEF vars, stores, Exists
  <1>8. QED
    BY <1>1, <1>2, <1>3, <1>4, <1>5, <1>6, <1>7 DEF Next

\* An agent appears by its creation, or by the save of an update.
LEMMA AgentAppears ==
    ASSUME TypeOK, [Next]_vars, NEW a \in Agent, a \in agents', a \notin agents
    PROVE  \/ a \notin drawn /\ a \in drawn'
           \/ AgentHeld(a)
  <1>1. ASSUME NEW r \in Req, Call(r) \/ Fail(r)
        PROVE  FALSE
    BY <1>1 DEF Call, Fail, UpdateAgent, Confirm, Remove, stores
  <1>2. ASSUME NEW r \in Req, Handler(r)
        PROVE  AgentHeld(a)
    BY <1>2 DEF Handler, SaveAgent, Reload, Update, Insert, Notify, NotifyRefused,
                Describe, DeleteObject, DeleteRow, stores, AgentHeld
  <1>3. ASSUME NEW b \in Agent, CreateAgent(b) \/ RemoveAgent(b)
        PROVE  a \notin drawn /\ a \in drawn'
    BY <1>3 DEF CreateAgent, RemoveAgent
  <1>4. ASSUME NEW b \in Agent, NEW e \in Doc, GetUploadUrl(b, e)
        PROVE  FALSE
    BY <1>4 DEF GetUploadUrl
  <1>5. ASSUME NEW e \in Doc, PutObject(e) \/ AgentCore(e)
        PROVE  FALSE
    BY <1>5 DEF PutObject, AgentCore, Indexed, IndexingFailed, LoseJob, stores
  <1>6. ASSUME NEW e \in Doc, NEW text \in Text, PatchDoc(e, text)
        PROVE  FALSE
    BY <1>6 DEF PatchDoc
  <1>7. CASE UNCHANGED vars
    BY <1>7 DEF vars, stores
  <1>8. QED
    BY <1>1, <1>2, <1>3, <1>4, <1>5, <1>6, <1>7 DEF Next

\* What a handler holds it held before, or it has just found it.
LEMMA HeldExisted ==
    ASSUME TypeOK, [Next]_vars, NEW d \in Doc, Held(d)'
    PROVE  Held(d) \/ Exists(d)
  <1>1. ASSUME NEW r \in Req, Call(r)
        PROVE  Held(d) \/ Exists(d)
    <2>1. ASSUME NEW a \in Agent, UpdateAgent(r, a)
          PROVE  Held(d)
      BY <2>1, Moves DEF UpdateAgent, Held, Concerns, At
    <2>2. ASSUME NEW e \in Doc, Confirm(r, e)
          PROVE  Held(d) \/ Exists(d)
      BY <2>2, Moves DEF Confirm, Held, Concerns, At
    <2>3. ASSUME NEW e \in Doc, Remove(r, e)
          PROVE  Held(d)
      BY <2>3, Moves DEF Remove, Held, Concerns, At
    <2>4. QED
      BY <1>1, <2>1, <2>2, <2>3 DEF Call
  <1>2. ASSUME NEW r \in Req, Handler(r)
        PROVE  Held(d)
    <2>1. CASE Reload(r)
      <3>1. PICK rec : /\ Continue(r, rec)
                       /\ rec.pc # "saveAgent" /\ rec.id = requests[r].id
        BY <2>1 DEF Reload
      <3>2. requests'[r] = rec /\ \A q \in Req \ {r} : requests'[q] = requests[q]
        BY <3>1, Moves
      <3>3. QED
        BY <2>1, <3>1, <3>2 DEF Reload, Held, Concerns, At
    <2>2. CASE ~Reload(r)
      <3>1. PICK rec : Continue(r, rec) /\ rec.pc \notin {"reload", "insert"}
        BY <1>2, <2>2 DEF Handler, SaveAgent, Update, Insert, Saved, Notify, NotifyRefused,
              GoOn, Describe, DeleteObject, DeleteRow, GoOn, Respond, Idle
      <3>2. requests'[r] = rec /\ \A q \in Req \ {r} : requests'[q] = requests[q]
        BY <3>1, Moves
      <3>3. QED
        BY <3>1, <3>2 DEF Held, Concerns, At
    <2>3. QED
      BY <2>1, <2>2
  <1>3. ASSUME NEW r \in Req, Fail(r)
        PROVE  Held(d)
    BY <1>3, Moves DEF Fail, Respond, Idle, Held, Concerns, At
  <1>4. CASE UNCHANGED requests
    BY <1>4 DEF Held, Concerns, At
  <1>5. QED
    BY <1>1, <1>2, <1>3, <1>4, QuietSteps

\* Likewise of agents.
LEMMA AgentHeldExisted ==
    ASSUME TypeOK, [Next]_vars, NEW a \in Agent, AgentHeld(a)'
    PROVE  AgentHeld(a) \/ a \in agents
  <1>1. ASSUME NEW r \in Req, Call(r)
        PROVE  AgentHeld(a) \/ a \in agents
    <2>1. ASSUME NEW b \in Agent, UpdateAgent(r, b)
          PROVE  AgentHeld(a) \/ a \in agents
      BY <2>1, Moves DEF UpdateAgent, AgentHeld, At
    <2>2. ASSUME NEW e \in Doc, Confirm(r, e)
          PROVE  AgentHeld(a)
      BY <2>2, Moves DEF Confirm, AgentHeld, At
    <2>3. ASSUME NEW e \in Doc, Remove(r, e)
          PROVE  AgentHeld(a)
      BY <2>3, Moves DEF Remove, AgentHeld, At
    <2>4. QED
      BY <1>1, <2>1, <2>2, <2>3 DEF Call
  <1>2. ASSUME NEW r \in Req, Handler(r) \/ Fail(r)
        PROVE  AgentHeld(a)
    <2>1. PICK rec : Continue(r, rec) /\ rec.pc # "saveAgent"
      BY <1>2 DEF Handler, SaveAgent, Reload, Update, Insert, Saved, Notify,
            NotifyRefused, GoOn, Describe, DeleteObject, DeleteRow, Fail, Respond,
            Idle
    <2>2. requests'[r] = rec /\ \A q \in Req \ {r} : requests'[q] = requests[q]
      BY <2>1, Moves
    <2>3. QED
      BY <2>1, <2>2 DEF AgentHeld, At
  <1>3. CASE UNCHANGED requests
    BY <1>3 DEF AgentHeld, At
  <1>4. QED
    BY <1>1, <1>2, <1>3, QuietSteps

\* What is gone is held by nobody and does not come back.
LEMMA GoneStep ==
    ASSUME TypeOK, IdsDrawn, GoneIsFree, StaysGone, [Next]_vars
    PROVE  GoneIsFree' /\ StaysGone'
  <1>1. ASSUME NEW d \in Doc, d \in gone
        PROVE  ~Exists(d)' /\ ~Held(d)'
    BY <1>1, Appears, HeldExisted DEF IdsDrawn, GoneIsFree, StaysGone
  <1>2. ASSUME NEW a \in Agent, a \in gone
        PROVE  a \notin agents' /\ ~AgentHeld(a)'
    BY <1>2, AgentAppears, AgentHeldExisted DEF IdsDrawn, GoneIsFree, StaysGone
  <1>3. ASSUME NEW d \in Doc, d \in gone' \ gone
        PROVE  ~Exists(d)' /\ ~Held(d)'
    <2>1. ASSUME NEW a \in Agent, RemoveAgent(a)
          PROVE  ~Exists(d)' /\ ~Held(d)'
      <3>1. Exists(d) /\ documents[d].agent = a /\ ~Held(d)
        BY <1>3, <2>1, IdAssumption DEF RemoveAgent
      <3>2. QED
        BY <2>1, <3>1 DEF RemoveAgent, Exists, Held, Concerns, At
    <2>2. ASSUME NEW r \in Req, DeleteRow(r)
          PROVE  ~Exists(d)' /\ ~Held(d)'
      <3>1. requests[r].id = d /\ ~Held(d)
        BY <1>3, <2>2 DEF DeleteRow
      <3>2. ~Held(d)'
        BY <2>2, <3>1, Moves DEF DeleteRow, Respond, Idle, Held, Concerns, At
      <3>3. QED
        BY <2>2, <3>1, <3>2 DEF DeleteRow, Exists, TypeOK
    <2>3. QED
      BY <1>3, <2>1, <2>2, GoneGrows
  <1>4. ASSUME NEW a \in Agent, a \in gone' \ gone
        PROVE  a \notin agents' /\ ~AgentHeld(a)'
    <2>1. ASSUME NEW b \in Agent, RemoveAgent(b)
          PROVE  a \notin agents' /\ ~AgentHeld(a)'
      <3>1. a = b /\ ~AgentHeld(a)
        BY <1>4, <2>1, IdAssumption DEF RemoveAgent
      <3>2. QED
        BY <2>1, <3>1 DEF RemoveAgent, AgentHeld, At
    <2>2. ASSUME NEW r \in Req, DeleteRow(r)
          PROVE  FALSE
      <3>1. requests[r].id \in Doc
        BY <2>2, RequestFields DEF DeleteRow, At
      <3>2. QED
        BY <1>4, <2>2, <3>1, IdAssumption DEF DeleteRow
    <2>3. QED
      BY <1>4, <2>1, <2>2, GoneGrows
  <1>5. agents' \subseteq Agent
    BY TypeStep DEF TypeOK
  <1>6. QED
    BY <1>1, <1>2, <1>3, <1>4, <1>5 DEF GoneIsFree, StaysGone

\* Ids that handlers carry, and those of rows, have been handed out.
LEMMA IdsStep ==
    ASSUME TypeOK, IdsDrawn, [Next]_vars
    PROVE  IdsDrawn'
  <1>1. drawn \subseteq drawn'
    BY DEF Next, Call, UpdateAgent, Confirm, Remove, Handler, SaveAgent, Reload, Update,
           Insert, Notify, NotifyRefused, Describe, DeleteObject, DeleteRow, Fail,
           CreateAgent, RemoveAgent, GetUploadUrl, PutObject, AgentCore, Indexed,
           IndexingFailed, LoseJob, PatchDoc, vars, stores
  <1>2. ASSUME NEW d \in Doc, Exists(d)'
        PROVE  d \in drawn'
    BY <1>1, <1>2, Appears DEF IdsDrawn, Held, Concerns, At
  <1>3. ASSUME NEW a \in Agent, a \in agents'
        PROVE  a \in drawn'
    BY <1>1, <1>3, AgentAppears DEF IdsDrawn, AgentHeld
  <1>4. ASSUME NEW d \in Doc, said'[d] # NoText
        PROVE  d \in drawn'
    <2>1. CASE said'[d] = said[d]
      BY <1>1, <1>4, <2>1 DEF IdsDrawn
    <2>2. CASE \E e \in Doc, text \in Text : SetText(e, text)
      <3>1. PICK e \in Doc, text \in Text : SetText(e, text)
        BY <2>2
      <3>2. said'[d] = said[d] \/ Exists(d)
        BY <3>1 DEF SetText, TypeOK
      <3>3. QED
        BY <1>1, <1>4, <3>2 DEF IdsDrawn
    <2>3. said' = said \/ \E e \in Doc, text \in Text : SetText(e, text)
      <3>1. ASSUME NEW r \in Req, Describe(r)
            PROVE  \E e \in Doc, text \in Text : SetText(e, text)
        <4>1. requests[r].id \in Doc
          BY <3>1, RequestFields DEF Describe, At
        <4>2. QED
          BY <3>1, <4>1 DEF Describe
      <3>2. QED
        BY <3>1 DEF Next, Call, UpdateAgent, Confirm, Remove, Handler, SaveAgent, Reload,
             Update, Insert, Notify, NotifyRefused, DeleteObject, DeleteRow,
             Fail, CreateAgent, RemoveAgent, GetUploadUrl, PutObject, AgentCore, Indexed,
             IndexingFailed, LoseJob, PatchDoc, vars, history
    <2>4. QED
      BY <2>1, <2>2, <2>3
  <1>5. gone' \subseteq drawn'
    <2>1. ASSUME NEW a \in Agent, RemoveAgent(a)
          PROVE  gone' \subseteq drawn'
      BY <1>1, <2>1 DEF RemoveAgent, IdsDrawn
    <2>2. ASSUME NEW r \in Req, DeleteRow(r)
          PROVE  gone' \subseteq drawn'
      BY <1>1, <2>2 DEF DeleteRow, IdsDrawn, At
    <2>3. QED
      BY <1>1, <2>1, <2>2, GoneGrows DEF IdsDrawn
  <1>6. ASSUME NEW q \in Req
        PROVE  /\ At(q, "saveAgent")' => requests'[q].agent \in drawn'
               /\ ~At(q, "idle")' /\ ~At(q, "saveAgent")' => requests'[q].id \in drawn'
    <2>1. CASE requests'[q] = requests[q]
      BY <1>1, <2>1 DEF IdsDrawn, At
    <2>2. ASSUME NEW r \in Req, NEW rec, Continue(r, rec),
                 \/ rec = Idle
                 \/ /\ rec.pc \notin {"idle", "saveAgent"} /\ rec.id = requests[r].id
                    /\ ~At(r, "idle") /\ ~At(r, "saveAgent")
          PROVE  /\ At(q, "saveAgent")' => requests'[q].agent \in drawn'
                 /\ ~At(q, "idle")' /\ ~At(q, "saveAgent")' =>
                        requests'[q].id \in drawn'
      <3>1. CASE q = r
        <4>1. requests'[q] = rec
          BY <2>2, <3>1, Moves
        <4>2. QED
          BY <1>1, <2>2, <3>1, <4>1 DEF IdsDrawn, At, Idle
      <3>2. CASE q # r
        <4>1. requests'[q] = requests[q]
          BY <2>2, <3>2, Moves
        <4>2. QED
          BY <2>1, <4>1
      <3>3. QED
        BY <3>1, <3>2
    <2>3. ASSUME NEW r \in Req, Handler(r) \/ Fail(r)
          PROVE  \E rec : /\ Continue(r, rec)
                          /\ \/ rec = Idle
                             \/ /\ rec.pc \notin {"idle", "saveAgent"}
                                /\ rec.id = requests[r].id
                                /\ ~At(r, "idle") /\ ~At(r, "saveAgent")
      <3>1. CASE Reload(r)
        BY <3>1 DEF Reload, At
      <3>2. CASE Update(r) \/ Notify(r) \/ NotifyRefused(r) \/ DeleteObject(r)
        BY <3>2 DEF Update, Notify, NotifyRefused, DeleteObject, Saved, GoOn, At
      <3>3. CASE Insert(r)
        BY <3>3 DEF Insert, Saved, GoOn, Respond, At
      <3>4. CASE SaveAgent(r) \/ Describe(r) \/ DeleteRow(r) \/ Fail(r)
        BY <3>4 DEF SaveAgent, Describe, DeleteRow, Fail, Respond
      <3>5. QED
        BY <2>3, <3>1, <3>2, <3>3, <3>4 DEF Handler
    <2>4. ASSUME NEW r \in Req, Call(r)
          PROVE  /\ At(q, "saveAgent")' => requests'[q].agent \in drawn'
                 /\ ~At(q, "idle")' /\ ~At(q, "saveAgent")' =>
                        requests'[q].id \in drawn'
      <3>1. CASE q # r
        <4>1. \E rec : Continue(r, rec)
          BY <2>4 DEF Call, UpdateAgent, Confirm, Remove
        <4>2. QED
          BY <2>1, <3>1, <4>1, Moves
      <3>2. CASE q = r
        <4>1. ASSUME NEW a \in Agent, UpdateAgent(r, a)
              PROVE  /\ requests'[q].pc = "saveAgent"
                     /\ requests'[q].agent \in drawn'
          BY <1>1, <3>2, <4>1, Moves DEF UpdateAgent, IdsDrawn
        <4>2. ASSUME NEW d \in Doc, Confirm(r, d)
              PROVE  requests'[q].pc = "reload" /\ requests'[q].id \in drawn'
          BY <1>1, <3>2, <4>2, Moves DEF Confirm, IdsDrawn
        <4>3. ASSUME NEW d \in Doc, Remove(r, d)
              PROVE  requests'[q].pc = "deleteObject" /\ requests'[q].id \in drawn'
          BY <1>1, <3>2, <4>3, Moves DEF Remove, IdsDrawn
        <4>4. QED
          BY <2>4, <4>1, <4>2, <4>3 DEF Call, At
      <3>3. QED
        BY <3>1, <3>2
    <2>5. QED
      BY <2>1, <2>2, <2>3, <2>4, QuietSteps
  <1>7. agents' \subseteq Agent
    BY TypeStep DEF TypeOK
  <1>8. QED
    BY <1>2, <1>3, <1>4, <1>5, <1>6, <1>7 DEF IdsDrawn

(* ---------------------- No object without a row ------------------------ *)

\* A document disappears with its agent, or by a removal that has deleted the
\* object.
LEMMA Disappears ==
    ASSUME TypeOK, [Next]_vars, NEW d \in Doc, Exists(d), ~Exists(d)'
    PROVE  \/ Deleting(d)
           \/ \E a \in Agent : RemoveAgent(a) /\ documents[d].agent = a
  <1>1. ASSUME NEW r \in Req, Call(r) \/ Fail(r)
        PROVE  FALSE
    BY <1>1 DEF Call, Fail, UpdateAgent, Confirm, Remove, stores, Exists
  <1>2. ASSUME NEW r \in Req, Handler(r)
        PROVE  Deleting(d)
    <2>1. CASE DeleteRow(r)
      <3>1. requests[r].id = d
        BY <2>1 DEF DeleteRow, Exists, TypeOK
      <3>2. QED
        BY <2>1, <3>1 DEF DeleteRow, Deleting, Concerns, At
    <2>2. CASE Describe(r)
      <3>1. requests[r].id \in Doc
        BY <2>2, RequestFields DEF Describe, At
      <3>2. QED
        BY <2>2, <3>1, TextKept DEF Describe
    <2>3. CASE Insert(r)
      BY <2>3 DEF Insert, Exists, TypeOK
    <2>4. CASE Update(r)
      <3>1. requests[r].id \in Doc /\ requests[r].row \in Row
        BY <2>4, RequestFields DEF Update, At
      <3>2. requests[r].id = d
        BY <2>4 DEF Update, Exists, TypeOK
      <3>3. documents'[d] = Merged(requests[r].row, documents[d], requests[r].columns)
        BY <2>4, <3>2 DEF Update, TypeOK
      <3>4. documents[d] \in Row
        BY ExistingRow
      <3>5. documents'[d].status \in Status
        BY <3>1, <3>3, <3>4 DEF Merged, Row
      <3>6. QED
        BY <3>5 DEF Exists, NoRow, Status
    <2>5. QED
      BY <1>2, <2>1, <2>2, <2>3, <2>4 DEF Handler, SaveAgent, Reload, Notify,
            NotifyRefused, DeleteObject, stores, Exists
  <1>3. ASSUME NEW a \in Agent, CreateAgent(a)
        PROVE  FALSE
    BY <1>3 DEF CreateAgent, Exists
  <1>4. ASSUME NEW a \in Agent, RemoveAgent(a)
        PROVE  documents[d].agent = a
    BY <1>4 DEF RemoveAgent, Exists
  <1>5. ASSUME NEW a \in Agent, NEW e \in Doc, GetUploadUrl(a, e)
        PROVE  FALSE
    BY <1>5 DEF GetUploadUrl, Exists, TypeOK, NoRow
  <1>6. ASSUME NEW e \in Doc, PutObject(e) \/ AgentCore(e)
        PROVE  FALSE
    <2>1. CASE e # d \/ ~Exists(e)
      BY <1>6, <2>1 DEF PutObject, AgentCore, Indexed, IndexingFailed, LoseJob,
                        UpdateStatus, stores, Exists, TypeOK
    <2>2. CASE e = d
      <3>1. documents[d] \in Row
        BY ExistingRow
      <3>2. documents'[d].status \in Status
        BY <1>6, <2>2, <3>1 DEF PutObject, AgentCore, Indexed, IndexingFailed, LoseJob,
                                UpdateStatus, stores, TypeOK, Row, Status
      <3>3. QED
        BY <3>2 DEF Exists, NoRow, Status
    <2>3. QED
      BY <2>1, <2>2
  <1>7. ASSUME NEW e \in Doc, NEW text \in Text, PatchDoc(e, text)
        PROVE  FALSE
    BY <1>7, TextKept DEF PatchDoc
  <1>8. CASE UNCHANGED vars
    BY <1>8 DEF vars, stores, Exists
  <1>9. QED
    BY <1>1, <1>2, <1>3, <1>4, <1>5, <1>6, <1>7, <1>8 DEF Next

\* A removal comes to delete the row by deleting the object.
LEMMA DeletingBegins ==
    ASSUME TypeOK, [Next]_vars, NEW d \in Doc, Deleting(d)'
    PROVE  \/ Deleting(d)
           \/ \E r \in Req : DeleteObject(r) /\ requests[r].id = d
  <1>1. ASSUME NEW r \in Req, DeleteObject(r)
        PROVE  Deleting(d) \/ requests[r].id = d
    BY <1>1, Moves DEF DeleteObject, GoOn, Deleting, Concerns, At
  <1>2. ASSUME NEW r \in Req, Call(r) \/ Handler(r) \/ Fail(r), ~DeleteObject(r)
        PROVE  Deleting(d)
    <2>1. PICK rec : Continue(r, rec) /\ rec.pc # "deleteRow"
      <3>1. CASE Call(r)
        <4>1. ASSUME NEW a \in Agent, UpdateAgent(r, a)
              PROVE  \E rec : Continue(r, rec) /\ rec.pc # "deleteRow"
          BY <4>1 DEF UpdateAgent
        <4>2. ASSUME NEW e \in Doc, Confirm(r, e)
              PROVE  \E rec : Continue(r, rec) /\ rec.pc # "deleteRow"
          BY <4>2 DEF Confirm
        <4>3. ASSUME NEW e \in Doc, Remove(r, e)
              PROVE  \E rec : Continue(r, rec) /\ rec.pc # "deleteRow"
          BY <4>3 DEF Remove
        <4>4. QED
          BY <3>1, <4>1, <4>2, <4>3 DEF Call
      <3>2. CASE Handler(r) \/ Fail(r)
        BY <1>2, <3>2 DEF Handler, SaveAgent, Reload, Update, Insert, Saved, Notify,
              NotifyRefused, GoOn, Describe, DeleteRow, Fail, Respond, Idle
      <3>3. QED
        BY <1>2, <3>1, <3>2
    <2>2. requests'[r] = rec /\ \A q \in Req \ {r} : requests'[q] = requests[q]
      BY <2>1, Moves
    <2>3. QED
      BY <2>1, <2>2 DEF Deleting, Concerns, At
  <1>3. CASE UNCHANGED requests
    BY <1>3 DEF Deleting, Concerns, At
  <1>4. QED
    BY <1>1, <1>2, <1>3, QuietSteps

\* What changes the bucket, or what strays in it.
LEMMA BucketChanges ==
    ASSUME [Next]_vars
    PROVE  \/ UNCHANGED <<objects, strays>>
           \/ \E a \in Agent : RemoveAgent(a)
           \/ \E e \in Doc : PutObject(e)
           \/ \E r \in Req : DeleteObject(r)
  BY DEF Next, Call, UpdateAgent, Confirm, Remove, Handler, SaveAgent, Reload, Update,
         Insert, Notify, NotifyRefused, Describe, DeleteRow, Fail, CreateAgent,
         GetUploadUrl, AgentCore, Indexed, IndexingFailed, LoseJob, PatchDoc,
         vars, stores, history

\* Every object keeps its row, or has been deleted before the row, or strays.
LEMMA ObjectStep ==
    ASSUME TypeOK, ObjectFirst, CleanedUp, [Next]_vars
    PROVE  ObjectFirst' /\ CleanedUp'
  <1>1. ASSUME NEW d \in Doc, d \in objects' \ strays'
        PROVE  ~Deleting(d)' /\ Exists(d)'
    <2>1. ASSUME NEW a \in Agent, RemoveAgent(a)
          PROVE  ~Deleting(d)' /\ Exists(d)'
      <3>1. d \in objects \ strays
        BY <1>1, <2>1 DEF RemoveAgent
      <3>2. Exists(d) /\ ~Deleting(d)
        BY <3>1 DEF CleanedUp, ObjectFirst
      <3>3. documents'[d] = documents[d]
        BY <1>1, <2>1, <3>1, <3>2 DEF RemoveAgent
      <3>4. QED
        BY <2>1, <3>2, <3>3 DEF RemoveAgent, Exists, Deleting, Concerns, At
    <2>2. ASSUME NEW e \in Doc, PutObject(e)
          PROVE  ~Deleting(d)' /\ Exists(d)'
      <3>1. CASE d = e
        BY <1>1, <2>2, <3>1 DEF PutObject, Exists, Deleting, Concerns, At
      <3>2. CASE d # e
        <4>1. d \in objects \ strays
          BY <1>1, <2>2, <3>2 DEF PutObject
        <4>2. QED
          BY <2>2, <4>1 DEF PutObject, CleanedUp, ObjectFirst, Exists, Deleting,
                            Concerns, At
      <3>3. QED
        BY <3>1, <3>2
    <2>3. ASSUME NEW r \in Req, DeleteObject(r)
          PROVE  ~Deleting(d)' /\ Exists(d)'
      <3>1. d # requests[r].id /\ d \in objects \ strays
        BY <1>1, <2>3 DEF DeleteObject
      <3>2. Exists(d) /\ ~Deleting(d)
        BY <3>1 DEF CleanedUp, ObjectFirst
      <3>3. ~Deleting(d)'
        BY <2>3, <3>1, <3>2, Moves DEF DeleteObject, GoOn, Deleting, Concerns, At
      <3>4. QED
        BY <2>3, <3>2, <3>3 DEF DeleteObject, Exists
    <2>4. CASE /\ UNCHANGED <<objects, strays>>
               /\ ~\E a \in Agent : RemoveAgent(a)
               /\ ~\E r \in Req : DeleteObject(r)
      <3>1. Exists(d) /\ ~Deleting(d)
        BY <1>1, <2>4 DEF CleanedUp, ObjectFirst
      <3>2. QED
        BY <2>4, <3>1, DeletingBegins, Disappears
    <2>5. QED
      BY <2>1, <2>2, <2>3, <2>4, BucketChanges
  <1>2. objects' \subseteq Doc
    BY TypeStep DEF TypeOK
  <1>3. QED
    BY <1>1, <1>2 DEF ObjectFirst, CleanedUp

(* ----------------------------- Theorems -------------------------------- *)

\* The initial state satisfies the inductive invariant.
LEMMA InitInv == Init => IInv
  <1> SUFFICES ASSUME Init
               PROVE  IInv
    OBVIOUS
  <1>1. TypeOK
    BY InitType
  <1>2. \A d \in Doc : ~Exists(d) /\ documents[d].status = "none"
    BY DEF Init, Exists, NoRow
  <1>3. \A r \in Req : At(r, "idle") /\ requests[r].pc = "idle"
    BY DEF Init, At, Idle
  <1>4. QED
    BY <1>1, <1>2, <1>3 DEF Init, IInv, NothingForgotten, LastWordStands, IdsDrawn,
       GoneIsFree, StaysGone, ObjectFirst, CleanedUp, Held, AgentHeld, Deleting,
       Concerns, At

\* Every step keeps the inductive invariant.
LEMMA StepInv ==
    ASSUME IInv, [Next]_vars
    PROVE  IInv'
  BY TypeStep, ForgettingStep, WordStep, IdsStep, GoneStep, ObjectStep DEF IInv

\* The inductive invariant holds in every reachable state.
LEMMA Invariant == Spec => []IInv
  BY InitInv, StepInv, PTL DEF Spec

\* Whatever a stale save of a confirmation undoes, agent-core is asked to do again:
\* a document whose status or number of chunks is out of date is awaited.
THEOREM NeverForgotten == Spec => []NothingForgotten
  <1>1. IInv => NothingForgotten
    BY DEF IInv
  <1>2. QED
    BY <1>1, Invariant, PTL

\* Whatever description a stale save puts back, a confirmation is still to set its
\* own, or has broken off.
THEOREM LastWord == Spec => []LastWordStands
  <1>1. IInv => LastWordStands
    BY DEF IInv
  <1>2. QED
    BY <1>1, Invariant, PTL

\* A removal at any point of failure leaves no object without its row.
THEOREM ObjectsHaveRows == Spec => []CleanedUp
  <1>1. IInv => CleanedUp
    BY DEF IInv
  <1>2. QED
    BY <1>1, Invariant, PTL

\* No save brings back what was removed while nobody held it.
THEOREM NoReturn == Spec => []StaysGone
  <1>1. IInv => StaysGone
    BY DEF IInv
  <1>2. QED
    BY <1>1, Invariant, PTL

=============================================================================
