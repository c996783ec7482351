-------------------------- MODULE MembershipProofs --------------------------
(***************************************************************************)
(* Theorems about Membership, for any sets of organizations, users,         *)
(* addresses, agents, tokens and request slots, finite or not.             *)
(***************************************************************************)
EXTENDS Membership, TLAPS

(* ------------------------- Type correctness ---------------------------- *)

\* What the program counter of a request says about its other fields.
LEMMA RequestFields ==
    ASSUME TypeOK, NEW r \in Req
    PROVE  /\ requests[r] \in Request
           /\ At(r, "saveOrg") => requests[r].email \in Email
           /\ At(r, "saveOwner") => /\ requests[r].email \in Email
                                    /\ requests[r].org \in Org
           /\ At(r, "issueTokens") => requests[r].user \in User
           /\ At(r, "upsert") => /\ requests[r].caller \in Claims
                                 /\ requests[r].email \in Email
                                 /\ requests[r].role \in {"admin", "member"}
                                 /\ requests[r].agents \subseteq Agent
           /\ At(r, "mail") => requests[r].token \in Token
           /\ requests[r].pc \in {"checkExisting", "createUser"} =>
                 requests[r].inv \in Invitation
           /\ requests[r].pc \in {"reload", "updateRole", "insertUser",
                                  "removeTx"} => requests[r].target \in User
           /\ requests[r].pc \in {"deleteRows", "selectRows", "insertRows"} =>
                 /\ requests[r].user \in UserId
                 /\ requests[r].ids \in AgentIds
           /\ requests[r].pc \in {"selectRows", "insertRows"} =>
                 requests[r].rows \subseteq AccessRow
           /\ At(r, "insertRows") => requests[r].found \subseteq AccessRow
  <1>1. requests[r] \in Request
    BY DEF TypeOK
  <1>2. QED
    BY <1>1 DEF Request, AccountsRequest, InvitationsRequest, TeamRequest, Idle,
                At

\* A transaction that is told to skip rows stays what it is.
LEMMA Skips ==
    ASSUME TypeOK, NEW q \in Req, requests[q].pc \in {"selectRows", "insertRows"},
           NEW gone
    PROVE  LET rec == [requests[q] EXCEPT !.rows = @ \ gone]
           IN /\ rec \in Request
              /\ rec.pc = requests[q].pc /\ rec.user = requests[q].user
              /\ rec.rows = requests[q].rows \ gone
              /\ At(q, "insertRows") => rec.found = requests[q].found
  <1>1. CASE At(q, "selectRows")
    <2>1. requests[q] \in [pc: {"selectRows"}, user: UserId, ids: AgentIds,
                           rows: SUBSET AccessRow]
      BY <1>1 DEF TypeOK, Request, AccountsRequest, InvitationsRequest, TeamRequest,
                  Idle, At
    <2>2. [requests[q] EXCEPT !.rows = @ \ gone] \in
             [pc: {"selectRows"}, user: UserId, ids: AgentIds, rows: SUBSET AccessRow]
      BY <2>1
    <2>3. QED
      BY <1>1, <2>1, <2>2 DEF Request, TeamRequest, At
  <1>2. CASE At(q, "insertRows")
    <2>1. requests[q] \in [pc: {"insertRows"}, user: UserId, ids: AgentIds,
                           rows: SUBSET AccessRow, found: SUBSET AccessRow]
      BY <1>2 DEF TypeOK, Request, AccountsRequest, InvitationsRequest, TeamRequest,
                  Idle, At
    <2>2. [requests[q] EXCEPT !.rows = @ \ gone] \in
             [pc: {"insertRows"}, user: UserId, ids: AgentIds,
              rows: SUBSET AccessRow, found: SUBSET AccessRow]
      BY <2>1
    <2>3. QED
      BY <1>2, <2>1, <2>2 DEF Request, TeamRequest, At
  <1>3. QED
    BY <1>1, <1>2 DEF At

\* What an update asks for are rows of its own member.
LEMMA AskedRows ==
    ASSUME TypeOK, NEW r \in Req,
           requests[r].pc \in {"deleteRows", "selectRows", "insertRows"}
    PROVE  /\ Asked(requests[r]) \subseteq AccessRow
           /\ \A row \in Asked(requests[r]) : row.user = requests[r].user
           /\ Asked(requests[r]) = {} => UNION requests[r].ids = {}
  <1>1. requests[r].user \in UserId /\ UNION requests[r].ids \subseteq Agent
    BY RequestFields DEF AgentIds
  <1>2. \A a \in UNION requests[r].ids :
           [user |-> requests[r].user, agent |-> a] \in Asked(requests[r])
    BY DEF Asked, RowsFor
  <1>3. QED
    BY <1>1, <1>2 DEF Asked, RowsFor, AccessRow

\* A step that moves one request to a well-typed record keeps the requests
\* well typed.
LEMMA ContinueType ==
    ASSUME TypeOK, NEW r \in Req, NEW rec \in Request, Continue(r, rec)
    PROVE  requests' \in [Req -> Request]
  BY DEF TypeOK, Continue

\* A slot without handler is well typed.
LEMMA IdleType == Idle \in Request
  BY DEF Request

\* register, login and refresh keep the types.
LEMMA AccountsType ==
    ASSUME TypeOK, NEW r \in Req, AccountsCall(r) \/ AccountsHandler(r)
    PROVE  TypeOK'
  <1>1. CASE Register(r)
    BY <1>1, ContinueType DEF Register, Request, AccountsRequest, TypeOK,
                              tables, clients, Continue
  <1>2. CASE Login(r)
    BY <1>2, ContinueType DEF Login, Request, AccountsRequest, TypeOK,
                              tables, clients, Continue
  <1>3. CASE Refresh(r)
    BY <1>3, ContinueType DEF Refresh, Request, AccountsRequest, TypeOK,
                              tables, clients, Continue
  <1>4. CASE SaveOrg(r)
    BY <1>4, ContinueType, RequestFields
       DEF SaveOrg, Request, AccountsRequest, TypeOK, clients, Continue
  <1>5. CASE SaveOwner(r)
    <2>1. PICK rec \in Request : Continue(r, rec)
      BY <1>5, RequestFields, IdleType
         DEF SaveOwner, Request, AccountsRequest, Continue, NewOwner, User,
             Role, Respond
    <2>2. requests' \in [Req -> Request]
      BY <2>1, ContinueType
    <2>3. \A id \in UserId : NewOwner(id, requests[r]) \in User
      BY <1>5, RequestFields DEF SaveOwner, NewOwner, User, Role
    <2>4. users' \subseteq User /\ issued' \subseteq UserId \cup Agent \cup Token
      BY <1>5, <2>3 DEF SaveOwner, TypeOK
    <2>5. UNCHANGED <<orgs, agents, access, invitations, widgetTokens,
                      refreshKeys, clients>>
      BY <1>5 DEF SaveOwner
    <2>6. QED
      BY <2>2, <2>4, <2>5 DEF TypeOK, clients
  <1>6. CASE IssueTokens(r)
    BY <1>6, ContinueType, RequestFields, IdleType
       DEF IssueTokens, TypeOK, Continue, Respond, TokensIssued, ClaimsOf,
           Claims, User
  <1>7. QED
    BY <1>1, <1>2, <1>3, <1>4, <1>5, <1>6 DEF AccountsCall, AccountsHandler

\* send and accept keep the types.
LEMMA InvitationsType ==
    ASSUME TypeOK, NEW r \in Req, InvitationsCall(r) \/ InvitationsHandler(r)
    PROVE  TypeOK'
  <1>1. CASE Send(r)
    BY <1>1, ContinueType DEF Send, Request, InvitationsRequest, TypeOK,
                              tables, clients, Continue
  <1>2. CASE Accept(r)
    BY <1>2, ContinueType DEF Accept, Request, InvitationsRequest, TypeOK,
                              tables, clients, Continue
  <1>3. CASE Upsert(r)
    <2>1. PICK rec \in Request : Continue(r, rec)
      BY <1>3, IdleType DEF Upsert, Request, InvitationsRequest, Continue,
                            Respond
    <2>2. requests' \in [Req -> Request]
      BY <2>1, ContinueType
    <2>3. ASSUME NEW token \in Token
          PROVE  Offer(requests[r], token) \in Invitation
      BY <1>3, <2>3, RequestFields DEF Upsert, Offer, Invitation, Claims
    <2>4. /\ invitations' \subseteq Invitation
          /\ issued' \subseteq UserId \cup Agent \cup Token
      BY <1>3, <2>3 DEF Upsert, TypeOK, Conflicting
    <2>5. QED
      BY <1>3, <2>2, <2>4 DEF Upsert, TypeOK, clients
  <1>4. CASE Mail(r)
    BY <1>4, ContinueType, RequestFields, IdleType
       DEF Mail, TypeOK, tables, Continue, Respond
  <1>5. CASE CheckExisting(r)
    <2>1. PICK rec \in Request : Continue(r, rec)
      BY <1>5, RequestFields, IdleType
         DEF CheckExisting, Request, InvitationsRequest, Continue, Respond, At
    <2>2. QED
      BY <1>5, <2>1, ContinueType DEF CheckExisting, TypeOK, tables, clients
  <1>6. CASE CreateUser(r)
    <2>1. requests' \in [Req -> Request]
      BY <1>6, ContinueType, IdleType DEF CreateUser, Respond
    <2>2. requests[r].inv \in Invitation
      BY <1>6, RequestFields DEF CreateUser, At
    <2>3. PICK id \in UserId :
             LET inv  == requests[r].inv
                 user == [id |-> id, email |-> inv.email, org |-> inv.org,
                          role |-> inv.role]
             IN /\ issued' = issued \cup {id}
                /\ TokensIssued(user)
                /\ \/ /\ users' = users \cup {user}
                      /\ access' = access \cup RowsFor(id, inv.agents)
                      /\ invitations' = {Closed(row, inv) : row \in invitations}
                   \/ UNCHANGED <<users, access, invitations>>
      BY <1>6 DEF CreateUser
    <2>4. [id |-> id, email |-> requests[r].inv.email,
           org |-> requests[r].inv.org, role |-> requests[r].inv.role] \in User
      BY <2>2 DEF Invitation, User, Role
    <2>5. users' \subseteq User /\ issued' \subseteq UserId \cup Agent \cup Token
      BY <2>3, <2>4 DEF TypeOK
    <2>6. refreshKeys' \subseteq UserId /\ jwts' \subseteq Claims
      BY <2>3, <2>4 DEF TypeOK, TokensIssued, ClaimsOf, Claims, User
    <2>7. access' \subseteq AccessRow
      BY <2>2, <2>3 DEF TypeOK, RowsFor, AccessRow, Invitation
    <2>8. \A row \in Invitation : Closed(row, requests[r].inv) \in Invitation
      BY DEF Closed, Invitation
    <2>9. invitations' \subseteq Invitation
      BY <2>3, <2>8 DEF TypeOK
    <2>10. QED
      BY <1>6, <2>1, <2>5, <2>6, <2>7, <2>9 DEF CreateUser, TypeOK
  <1>7. CASE CreateUserRefused(r)
    BY <1>7, ContinueType, IdleType
       DEF CreateUserRefused, TypeOK, Respond, tables, clients
  <1>8. QED
    BY <1>1, <1>2, <1>3, <1>4, <1>5, <1>6, <1>7
       DEF InvitationsCall, InvitationsHandler

\* changeRole, removeMember and updateAgentAccess keep the types.
LEMMA TeamType ==
    ASSUME TypeOK, NEW r \in Req, TeamCall(r) \/ TeamHandler(r)
    PROVE  TypeOK'
  <1>1. CASE ChangeRole(r)
    <2>1. PICK target \in users, role \in {"admin", "member"} :
             Continue(r, [pc |-> "reload",
                          target |-> [target EXCEPT !.role = role]])
      BY <1>1 DEF ChangeRole, FindMember
    <2>2. [target EXCEPT !.role = role] \in User
      BY <2>1 DEF TypeOK, User, Role
    <2>3. requests' \in [Req -> Request]
      BY <2>1, <2>2, ContinueType DEF Request, TeamRequest
    <2>4. QED
      BY <1>1, <2>3 DEF ChangeRole, TypeOK, tables, clients
  <1>2. CASE RemoveMember(r)
    <2>1. PICK rec \in Request : Continue(r, rec)
      BY <1>2 DEF RemoveMember, Request, TeamRequest, Continue, TypeOK,
                  FindMember
    <2>2. QED
      BY <1>2, <2>1, ContinueType DEF RemoveMember, TypeOK, tables, clients
  <1>3. CASE UpdateAgentAccess(r)
    <2>1. PICK rec \in Request : Continue(r, rec)
      BY <1>3 DEF UpdateAgentAccess, Request, TeamRequest, Continue, TypeOK,
                  User, FindMember
    <2>2. QED
      BY <1>3, <2>1, ContinueType
         DEF UpdateAgentAccess, TypeOK, tables, clients
  <1>4. CASE Reload(r)
    <2>1. PICK rec \in Request : Continue(r, rec)
      BY <1>4, RequestFields, IdleType
         DEF Reload, Request, TeamRequest, Continue, Respond, At
    <2>2. QED
      BY <1>4, <2>1, ContinueType DEF Reload, TypeOK, tables, clients
  <1>5. CASE UpdateRole(r)
    <2>1. requests' \in [Req -> Request]
      BY <1>5, ContinueType, IdleType DEF UpdateRole, Respond
    <2>2. requests[r].target.role \in Role
      BY <1>5, RequestFields DEF UpdateRole, At, User
    <2>3. users' \subseteq User
      BY <1>5, <2>2 DEF UpdateRole, TypeOK, User
    <2>4. QED
      BY <1>5, <2>1, <2>3 DEF UpdateRole, TypeOK, clients
  <1>6. CASE InsertUser(r)
    <2>1. requests' \in [Req -> Request]
      BY <1>6, ContinueType, IdleType DEF InsertUser, Respond
    <2>2. users' \subseteq User
      BY <1>6, RequestFields DEF InsertUser, TypeOK, At
    <2>3. QED
      BY <1>6, <2>1, <2>2 DEF InsertUser, TypeOK, clients
  <1>7. CASE RemoveTx(r)
    <2>1. requests' \in [Req -> Request]
      BY <1>7, ContinueType, IdleType DEF RemoveTx, Respond
    <2>2. \A t \in WidgetToken : Revoked(t, requests[r].target) \in WidgetToken
      BY DEF Revoked, WidgetToken
    <2>3. /\ users' \subseteq User
          /\ access' \subseteq AccessRow
          /\ widgetTokens' \subseteq WidgetToken
      BY <1>7, <2>2 DEF RemoveTx, TypeOK
    <2>4. QED
      BY <1>7, <2>1, <2>3 DEF RemoveTx, TypeOK, clients
  <1>8. CASE DeleteRows(r)
    <2>1. PICK rec \in Request : Continue(r, rec)
      BY <1>8, RequestFields
         DEF DeleteRows, Request, TeamRequest, Continue, At, TypeOK
    <2>2. QED
      BY <1>8, <2>1, ContinueType DEF DeleteRows, TypeOK, tables, clients
  <1>9. CASE SelectRows(r)
    <2>1. At(r, "selectRows") /\ UNCHANGED <<tables, clients>>
      BY <1>9 DEF SelectRows
    <2>2. Asked(requests[r]) \cap Visible(requests[r]) \in SUBSET AccessRow
      BY <2>1, AskedRows DEF At
    <2>3. PICK rec \in Request : Continue(r, rec)
      BY <1>9, <2>1, <2>2, RequestFields
         DEF SelectRows, Request, TeamRequest, Continue, At
    <2>4. QED
      BY <2>1, <2>3, ContinueType DEF TypeOK, tables, clients
  <1>10. CASE InsertRows(r)
    <2>1. requests' \in [Req -> Request]
      <3>1. CASE Respond(r)
        BY <3>1, ContinueType, IdleType DEF Respond
      <3>2. CASE ~Respond(r)
        <4>1. requests' = [q \in Req |->
                             IF q = r THEN Idle
                             ELSE IF requests[q].pc \in {"selectRows", "insertRows"}
                             THEN [requests[q] EXCEPT !.rows = @ \ requests[r].rows]
                             ELSE requests[q]]
          BY <1>10, <3>2 DEF InsertRows
        <4>2. \A q \in Req : requests[q].pc \in {"selectRows", "insertRows"} =>
                 [requests[q] EXCEPT !.rows = @ \ requests[r].rows] \in Request
          BY Skips
        <4>3. QED
          BY <4>1, <4>2, IdleType DEF TypeOK
      <3>3. QED
        BY <3>1, <3>2
    <2>2. access' \subseteq AccessRow
      BY <1>10, AskedRows DEF InsertRows, TypeOK, At
    <2>3. QED
      BY <1>10, <2>1, <2>2 DEF InsertRows, TypeOK, clients
  <1>11. QED
    BY <1>1, <1>2, <1>3, <1>4, <1>5, <1>6, <1>7, <1>8, <1>9, <1>10
       DEF TeamCall, TeamHandler

\* Every step keeps the types.
LEMMA TypeStep ==
    ASSUME TypeOK, [Next]_vars
    PROVE  TypeOK'
  <1>1. CASE UNCHANGED vars
    BY <1>1 DEF vars, tables, clients, TypeOK
  <1>2. CASE \E r \in Req : Call(r) \/ Handler(r)
    BY <1>2, AccountsType, InvitationsType, TeamType DEF Call, Handler
  <1>3. CASE \E r \in Req : Fail(r)
    BY <1>3, ContinueType, IdleType DEF Fail, Respond, TypeOK, tables, clients
  <1>4. CASE Logout
    BY <1>4 DEF Logout, TypeOK, clients
  <1>5. CASE Expire
    BY <1>5 DEF Expire, TypeOK, clients, Invitation
  <1>6. CASE CreateAgent
    BY <1>6 DEF CreateAgent, TypeOK, clients, AgentRow, Claims
  <1>7. CASE RemoveAgent
    BY <1>7 DEF RemoveAgent, TypeOK, clients
  <1>8. QED
    BY <1>1, <1>2, <1>3, <1>4, <1>5, <1>6, <1>7 DEF Next

\* Every table, token and request record keeps its type, whatever the handlers
\* in flight do.
THEOREM TypeCorrect == Spec => []TypeOK
  <1>1. Init => TypeOK
    BY DEF Init, TypeOK, Request
  <1>2. TypeOK /\ [Next]_vars => TypeOK'
    BY TypeStep
  <1>3. QED
    BY <1>1, <1>2, PTL DEF Spec

(* -------------------- The inductive invariant -------------------------- *)

\* Owner rows stay, and a new owner row has an id that was never handed out.
OwnersStay == /\ \A u \in users : IsOwner(u) => u \in users'
              /\ \A u \in users' : IsOwner(u) => u \in users \/ u.id \notin issued
              /\ issued \subseteq issued'
              /\ orgs \subseteq orgs'

\* All requests but one are as they were, except that a transaction may have been
\* told to skip rows.
OthersStay(r) == \A q \in Req \ {r} :
                    \/ requests'[q] = requests[q]
                    \/ requests'[q].pc \in {"selectRows", "insertRows"}

\* Who has an owner keeps it while owners stay.
LEMMA OwnedStays ==
    ASSUME OwnersStay
    PROVE  /\ \A o : Owned(o) => Owned(o)'
           /\ \A id, o : OwnerIs(id, o) => OwnerIs(id, o)'
  BY DEF OwnersStay, Owned, OwnerIs, IsOwner

\* Claims that are true of an owner stay true while owners stay.
LEMMA ClaimsStay ==
    ASSUME OwnersStay, NEW t, GoodClaims(t)
    PROVE  GoodClaims(t)'
  BY OwnedStays DEF GoodClaims, OwnersStay

\* An invitation that was good when it was read stays good.
LEMMA OfferStays ==
    ASSUME OwnersStay, NEW inv, GoodOffer(inv)
    PROVE  GoodOffer(inv)'
  BY OwnedStays DEF GoodOffer

\* Who was not the owner when it was read never becomes one.
LEMMA NeverOwnerStays ==
    ASSUME OwnersStay, NEW user, NeverOwner(user)
    PROVE  NeverOwner(user)'
  BY OwnedStays DEF NeverOwner, OwnersStay, IsOwner

\* A request that does not move stays good, while nobody joins the organization
\* whose owner it is about to write.
LEMMA RequestStays ==
    ASSUME OwnersStay, NEW q \in Req, GoodRequest(q),
           requests'[q] = requests[q],
           At(q, "saveOwner") =>
               /\ \A u \in users' : u.org # requests[q].org
               /\ \A p \in Req : (At(p, "saveOwner"))'
                     /\ requests'[p].org = requests[q].org => p = q
    PROVE  GoodRequest(q)'
  <1>1. (At(q, "issueTokens") => GoodClaims(requests[q].user))'
    BY ClaimsStay DEF GoodRequest, At
  <1>2. (At(q, "upsert") => GoodClaims(requests[q].caller))'
    BY ClaimsStay DEF GoodRequest, At
  <1>3. (requests[q].pc \in {"reload", "updateRole", "insertUser", "removeTx"}
            => NeverOwner(requests[q].target))'
    BY NeverOwnerStays DEF GoodRequest
  <1>4. (requests[q].pc \in {"checkExisting", "createUser"}
            => GoodOffer(requests[q].inv))'
    BY OfferStays DEF GoodRequest
  <1>5. (At(q, "saveOwner") => requests[q].org \in orgs)'
    BY DEF GoodRequest, OwnersStay, At
  <1>6. QED
    BY <1>1, <1>2, <1>3, <1>4, <1>5 DEF GoodRequest, At

\* The frame every action fits: one request moves, and what it writes is good.
LEMMA Preserve ==
    ASSUME IInv, TypeOK', NEW r \in Req, OthersStay(r), OwnersStay,
           GoodRequest(r)', OneAccount', OneOwner', AdminOffersByOwner',
           (\A u \in users : u.org \in orgs)',
           (\A t \in jwts : GoodClaims(t))',
           \A u \in users' : \/ Owned(u.org)
                             \/ At(r, "saveOwner") /\ u.org = requests[r].org
    PROVE  IInv'
  <1>1. ASSUME NEW q \in Req PROVE GoodRequest(q)'
    <2>1. CASE q = r
      BY <2>1
    <2>2. CASE q # r /\ requests'[q] # requests[q]
      BY <2>2 DEF OthersStay, GoodRequest, At
    <2>3. CASE q # r /\ requests'[q] = requests[q]
      <3>1. GoodRequest(q)
        BY DEF IInv
      <3>2. ASSUME At(q, "saveOwner")
            PROVE  \A u \in users' : u.org # requests[q].org
        BY <2>3, <3>1, <3>2 DEF GoodRequest, Owned
      <3>3. ASSUME At(q, "saveOwner"), NEW p \in Req, At(p, "saveOwner")',
                   requests'[p].org = requests[q].org
            PROVE  p = q
        <4>1. CASE p = r
          BY <2>3, <3>3, <4>1 DEF GoodRequest, At
        <4>2. CASE p # r
          BY <3>1, <3>3, <4>2 DEF OthersStay, GoodRequest, At
        <4>3. QED
          BY <4>1, <4>2
      <3>4. QED
        BY <2>3, <3>1, <3>2, <3>3, RequestStays
    <2>4. QED
      BY <2>1, <2>2, <2>3
  <1>2. QED
    BY <1>1 DEF IInv

\* The same, for the actions that leave users as it is.
LEMMA PreserveQuiet ==
    ASSUME IInv, TypeOK', NEW r \in Req, OthersStay(r), GoodRequest(r)',
           users' = users, issued \subseteq issued', orgs \subseteq orgs',
           \A inv \in invitations' :
              /\ Owned(inv.org)
              /\ inv.role = "admin" => OwnerIs(inv.by, inv.org),
           \A t \in jwts' : t \in jwts \/ GoodClaims(t)
    PROVE  IInv'
  <1>1. OwnersStay
    BY DEF OwnersStay
  <1>2. OneAccount' /\ OneOwner'
    BY DEF IInv, OneAccount, OneOwner, Owned, IsOwner
  <1>3. AdminOffersByOwner'
    BY DEF AdminOffersByOwner, OwnerIs, IsOwner
  <1>4. (\A u \in users : u.org \in orgs)' /\ \A u \in users' : Owned(u.org)
    BY DEF IInv, OneOwner
  <1>5. (\A t \in jwts : GoodClaims(t))'
    <2>1. \A t \in jwts' : GoodClaims(t)
      BY DEF IInv
    <2>2. QED
      BY <1>1, <2>1, ClaimsStay
  <1>6. QED
    BY <1>1, <1>2, <1>3, <1>4, <1>5, Preserve

\* The actions that only move one request need no more than this.
LEMMA PreserveRead ==
    ASSUME IInv, TypeOK', NEW r \in Req, NEW rec, Continue(r, rec),
           UNCHANGED <<tables, clients>>, GoodRequest(r)'
    PROVE  IInv'
  <1>1. OthersStay(r)
    BY DEF OthersStay, Continue, IInv, TypeOK
  <1>2. /\ \A inv \in invitations : Owned(inv.org)
        /\ \A inv \in invitations :
              inv.role = "admin" => OwnerIs(inv.by, inv.org)
    BY DEF IInv, OneOwner, AdminOffersByOwner, OwnerIs
  <1>3. QED
    BY <1>1, <1>2, PreserveQuiet DEF tables, clients

\* A handler that has answered carries nothing, and moves no other.
LEMMA RespondGood ==
    ASSUME TypeOK, NEW r \in Req, Respond(r)
    PROVE  GoodRequest(r)' /\ OthersStay(r)
  BY DEF TypeOK, Respond, Continue, Idle, GoodRequest, OthersStay, At

\* A handler that goes on moves no other.
LEMMA ContinueOthers ==
    ASSUME TypeOK, NEW r \in Req, NEW rec, Continue(r, rec)
    PROVE  OthersStay(r) /\ requests'[r] = rec
  BY DEF TypeOK, Continue, OthersStay

\* A member's row, read by findMember and judged not to be the owner's, is not
\* the owner's under any role.
LEMMA MemberFound ==
    ASSUME IInv, NEW target \in users, target.role # "owner",
           NEW role \in {"admin", "member"}
    PROVE  /\ NeverOwner(target)
           /\ NeverOwner([target EXCEPT !.role = role])
  <1>1. target \in User
    BY DEF IInv, TypeOK
  <1>2. NeverOwner(target)
    BY DEF IInv, OneAccount, OneOwner, NeverOwner, IsOwner
  <1>3. /\ [target EXCEPT !.role = role].role = role
        /\ [target EXCEPT !.role = role].id = target.id
        /\ [target EXCEPT !.role = role].org = target.org
    BY <1>1 DEF User
  <1>4. QED
    BY <1>2, <1>3 DEF NeverOwner, IsOwner

\* What is signed for a row of users is true.
LEMMA UserClaims ==
    ASSUME IInv, NEW user \in users
    PROVE  GoodClaims(user)
  BY DEF IInv, OneAccount, OneOwner, GoodClaims, OwnerIs, IsOwner

\* A request that arrives reads, and what it carries on is good.
LEMMA CallsPreserve ==
    ASSUME IInv, TypeOK', NEW r \in Req, Call(r)
    PROVE  IInv'
  <1> USE DEF At
  <1>t. TypeOK
    BY DEF IInv
  <1>1. CASE Register(r)
    <2>1. PICK email : Continue(r, [pc |-> "saveOrg", email |-> email])
      BY <1>1 DEF Register
    <2>2. GoodRequest(r)'
      BY <1>t, <2>1, ContinueOthers DEF GoodRequest
    <2>3. QED
      BY <1>1, <2>1, <2>2, PreserveRead DEF Register
  <1>2. CASE Login(r) \/ Refresh(r)
    <2>1. PICK user \in users : Continue(r, [pc |-> "issueTokens", user |-> user])
      BY <1>2 DEF Login, Refresh
    <2>2. GoodClaims(user)'
      BY <1>2, UserClaims
         DEF Login, Refresh, GoodClaims, Owned, OwnerIs, tables, IsOwner
    <2>3. GoodRequest(r)'
      BY <1>t, <2>1, <2>2, ContinueOthers DEF GoodRequest
    <2>4. QED
      BY <1>2, <2>1, <2>3, PreserveRead DEF Login, Refresh
  <1>3. CASE Send(r)
    <2>1. PICK caller \in jwts, email \in Email, role \in {"admin", "member"},
               as \in SUBSET Agent :
             /\ HasRole(caller, "admin")
             /\ caller.role = "admin" => role # "admin"
             /\ Continue(r, [pc |-> "upsert", caller |-> caller,
                             email |-> email, role |-> role, agents |-> as])
      BY <1>3 DEF Send
    <2>2. role = "admin" => caller.role = "owner"
      BY <2>1, <1>t DEF HasRole, RoleLevel, TypeOK, Claims, Role
    <2>3. GoodClaims(caller)'
      BY <1>3 DEF IInv, Send, GoodClaims, Owned, OwnerIs, tables, IsOwner
    <2>4. GoodRequest(r)'
      BY <1>t, <2>1, <2>2, <2>3, ContinueOthers DEF GoodRequest
    <2>5. QED
      BY <1>3, <2>1, <2>4, PreserveRead DEF Send
  <1>4. CASE Accept(r)
    <2>1. PICK inv \in invitations :
             Continue(r, [pc |-> "checkExisting", inv |-> inv])
      BY <1>4 DEF Accept
    <2>2. GoodOffer(inv)'
      BY <1>4 DEF IInv, OneOwner, AdminOffersByOwner, Accept, GoodOffer, OwnerIs,
                  Owned, tables, IsOwner
    <2>3. GoodRequest(r)'
      BY <1>t, <2>1, <2>2, ContinueOthers DEF GoodRequest
    <2>4. QED
      BY <1>4, <2>1, <2>3, PreserveRead DEF Accept
  <1>5. CASE ChangeRole(r)
    <2>1. PICK target \in users, role \in {"admin", "member"} :
             /\ target.role # "owner"
             /\ Continue(r, [pc |-> "reload",
                             target |-> [target EXCEPT !.role = role]])
      BY <1>5 DEF ChangeRole, Changeable, FindMember
    <2>2. NeverOwner([target EXCEPT !.role = role])
      BY <2>1, MemberFound
    <2>3. NeverOwner([target EXCEPT !.role = role])'
      BY <1>5, <2>2 DEF ChangeRole, tables, NeverOwner, Owned, IsOwner
    <2>4. GoodRequest(r)'
      BY <1>t, <2>1, <2>3, ContinueOthers DEF GoodRequest
    <2>5. QED
      BY <1>5, <2>1, <2>4, PreserveRead DEF ChangeRole
  <1>6. CASE RemoveMember(r)
    <2>1. PICK target \in users :
             /\ target.role # "owner"
             /\ Continue(r, [pc |-> "removeTx", target |-> target])
      BY <1>6 DEF RemoveMember, FindMember
    <2>2. NeverOwner(target)'
      BY <1>6, <2>1, MemberFound
         DEF RemoveMember, tables, NeverOwner, Owned, IsOwner
    <2>3. GoodRequest(r)'
      BY <1>t, <2>1, <2>2, ContinueOthers DEF GoodRequest
    <2>4. QED
      BY <1>6, <2>1, <2>3, PreserveRead DEF RemoveMember
  <1>7. CASE UpdateAgentAccess(r)
    <2>1. PICK id, ids : Continue(r, [pc |-> "deleteRows", user |-> id,
                                      ids |-> ids])
      BY <1>7 DEF UpdateAgentAccess
    <2>2. GoodRequest(r)'
      BY <1>t, <2>1, ContinueOthers DEF GoodRequest
    <2>3. QED
      BY <1>7, <2>1, <2>2, PreserveRead DEF UpdateAgentAccess
  <1>8. QED
    BY <1>1, <1>2, <1>3, <1>4, <1>5, <1>6, <1>7
       DEF Call, AccountsCall, InvitationsCall, TeamCall

\* The handlers of AuthService preserve the invariant.
LEMMA AccountsPreserve ==
    ASSUME IInv, TypeOK', NEW r \in Req, AccountsHandler(r)
    PROVE  IInv'
  <1>t. TypeOK /\ GoodRequest(r)
    BY DEF IInv
  <1>i. /\ \A inv \in invitations : Owned(inv.org)
        /\ \A inv \in invitations :
              inv.role = "admin" => OwnerIs(inv.by, inv.org)
    BY DEF IInv, OneOwner, AdminOffersByOwner, OwnerIs
  <1>1. CASE SaveOrg(r)
    <2>1. PICK org \in Org \ orgs :
             /\ orgs' = orgs \cup {org}
             /\ Continue(r, [pc |-> "saveOwner", email |-> requests[r].email,
                             org |-> org])
      BY <1>1 DEF SaveOrg
    <2>2. /\ OthersStay(r)
          /\ requests'[r] = [pc |-> "saveOwner", email |-> requests[r].email,
                             org |-> org]
      BY <1>t, <2>1, ContinueOthers
    <2>3. \A u \in users' : u.org # org
      BY <1>1, <2>1 DEF SaveOrg, IInv
    <2>4. ASSUME NEW q \in Req, At(q, "saveOwner")', requests'[q].org = org
          PROVE  q = r
      BY <2>1, <2>2, <2>4 DEF OthersStay, At, IInv, GoodRequest
    <2>5. GoodRequest(r)'
      BY <2>1, <2>2, <2>3, <2>4 DEF GoodRequest, At
    <2>6. QED
      BY <1>1, <1>i, <2>1, <2>2, <2>5, PreserveQuiet DEF SaveOrg, clients
  <1>2. CASE SaveOwner(r) /\ users' = users
    <2>1. /\ Respond(r) /\ issued' = issued
      BY <1>2 DEF SaveOwner, Insertable, EmailTaken, NewOwner
    <2>2. QED
      BY <1>2, <1>i, <1>t, <2>1, RespondGood, PreserveQuiet DEF SaveOwner, clients
  <1>3. CASE SaveOwner(r) /\ users' # users
    <2>i. PICK id \in UserId \ issued :
             /\ Insertable(NewOwner(id, requests[r]))
             /\ users' = users \cup {NewOwner(id, requests[r])}
             /\ issued' = issued \cup {id}
             /\ Continue(r, [pc |-> "issueTokens", user |-> NewOwner(id, requests[r])])
      BY <1>3 DEF SaveOwner
    <2>1. PICK new \in {NewOwner(id, requests[r])} :
             /\ new = NewOwner(id, requests[r])
             /\ Insertable(new)
             /\ users' = users \cup {new}
             /\ issued' = issued \cup {id}
             /\ Continue(r, [pc |-> "issueTokens", user |-> new])
      BY <2>i
    <2>2. /\ new.id = id /\ new.org = requests[r].org /\ IsOwner(new)
          /\ new.role = "owner"
          /\ new.email = requests[r].email
      BY <2>1 DEF NewOwner, IsOwner
    <2>3. At(r, "saveOwner") /\ UNCHANGED <<orgs, invitations, jwts>>
      BY <1>3 DEF SaveOwner, clients
    <2>4. /\ \A u \in users : u.org # new.org
          /\ new.org \in orgs
      BY <1>t, <2>2, <2>3 DEF GoodRequest
    <2>5. users' = users \cup {new} /\ issued' = issued \cup {new.id}
      BY <2>1, <2>2
    <2>6. OwnersStay
      BY <2>1, <2>2, <2>3, <2>5 DEF OwnersStay
    <2>7. OneAccount'
      BY <2>1, <2>2, <2>5
         DEF OneAccount, Insertable, EmailTaken, UserExists, IInv
    <2>8. OneOwner'
      <3>1. (\A u \in users : Owned(u.org))'
        BY <2>2, <2>5, <2>6, OwnedStays DEF IInv, OneOwner, Owned
      <3>2. (\A inv \in invitations : Owned(inv.org))'
        BY <1>i, <2>3, <2>6, OwnedStays
      <3>3. (\A u, v \in users :
                IsOwner(u) /\ IsOwner(v) /\ u.org = v.org => u = v)'
        BY <2>4, <2>5 DEF IInv, OneOwner, IsOwner
      <3>4. QED
        BY <3>1, <3>2, <3>3 DEF OneOwner
    <2>9. AdminOffersByOwner'
      BY <1>i, <2>3, <2>6, OwnedStays DEF AdminOffersByOwner, OwnerIs
    <2>10. (\A t \in jwts : GoodClaims(t))'
      BY <2>3, <2>6, ClaimsStay DEF IInv
    <2>11. requests'[r] = [pc |-> "issueTokens", user |-> new] /\ OthersStay(r)
      BY <1>t, <2>1, ContinueOthers
    <2>12. GoodClaims(new)'
      BY <2>2, <2>5 DEF GoodClaims, Owned, OwnerIs, IsOwner
    <2>13. GoodRequest(r)'
      BY <2>11, <2>12 DEF GoodRequest, At
    <2>14. (\A u \in users : u.org \in orgs)'
      BY <2>3, <2>4, <2>5 DEF IInv
    <2>15. \A u \in users' : \/ Owned(u.org)
                             \/ At(r, "saveOwner") /\ u.org = requests[r].org
      BY <2>2, <2>3, <2>5 DEF IInv, OneOwner
    <2>16. QED
      BY <2>6, <2>7, <2>8, <2>9, <2>10, <2>11, <2>13, <2>14, <2>15, Preserve
  <1>4. CASE IssueTokens(r)
    <2>1. GoodClaims(ClaimsOf(requests[r].user))
      BY <1>t, <1>4 DEF IssueTokens, GoodRequest, GoodClaims, ClaimsOf
    <2>2. QED
      BY <1>4, <1>i, <1>t, <2>1, RespondGood, PreserveQuiet
         DEF IssueTokens, TokensIssued
  <1>5. QED
    BY <1>1, <1>2, <1>3, <1>4 DEF AccountsHandler

\* What a new account that is not an owner's disturbs: nothing, when its address
\* and its id are free and its organization has an owner.
LEMMA JoinPreserves ==
    ASSUME IInv, TypeOK', NEW r \in Req, Respond(r), NEW new,
           users' = users \cup {new}, Insertable(new), ~IsOwner(new),
           Owned(new.org), new.id \in issued', issued \subseteq issued',
           UNCHANGED orgs,
           \A inv \in invitations' :
              /\ Owned(inv.org)
              /\ inv.role = "admin" => OwnerIs(inv.by, inv.org),
           \A t \in jwts' : t \in jwts \/ GoodClaims(t)'
    PROVE  IInv'
  <1>1. OthersStay(r) /\ GoodRequest(r)'
    BY RespondGood DEF IInv
  <1>2. OwnersStay
    BY DEF OwnersStay
  <1>3. OneAccount'
    BY DEF IInv, OneAccount, Insertable, EmailTaken, UserExists
  <1>4. OneOwner'
    <2>1. (\A u \in users : Owned(u.org))'
      BY <1>2, OwnedStays DEF IInv, OneOwner
    <2>2. (\A inv \in invitations : Owned(inv.org))'
      BY <1>2, OwnedStays
    <2>3. (\A u, v \in users :
              IsOwner(u) /\ IsOwner(v) /\ u.org = v.org => u = v)'
      BY DEF IInv, OneOwner, IsOwner
    <2>4. QED
      BY <2>1, <2>2, <2>3 DEF OneOwner
  <1>5. AdminOffersByOwner'
    BY <1>2, OwnedStays DEF AdminOffersByOwner, OwnerIs
  <1>6. (\A t \in jwts : GoodClaims(t))'
    BY <1>2, ClaimsStay DEF IInv
  <1>7. (\A u \in users : u.org \in orgs)' /\ \A u \in users' : Owned(u.org)
    BY DEF IInv, OneOwner, Insertable
  <1>8. QED
    BY <1>1, <1>2, <1>3, <1>4, <1>5, <1>6, <1>7, Preserve

\* The handlers of InvitationsService preserve the invariant.
LEMMA InvitationsPreserve ==
    ASSUME IInv, TypeOK', NEW r \in Req, InvitationsHandler(r)
    PROVE  IInv'
  <1>t. TypeOK /\ GoodRequest(r)
    BY DEF IInv
  <1>i. \A inv \in invitations :
              /\ Owned(inv.org)
              /\ inv.role = "admin" => OwnerIs(inv.by, inv.org)
    BY DEF IInv, OneOwner, AdminOffersByOwner, OwnerIs
  <1>1. CASE Upsert(r)
    <2>1. GoodClaims(requests[r].caller)
          /\ (requests[r].role = "admin" => requests[r].caller.role = "owner")
      BY <1>t, <1>1 DEF GoodRequest, Upsert
    <2>2. \A token : /\ Owned(Offer(requests[r], token).org)
                     /\ Offer(requests[r], token).role = "admin" =>
                           OwnerIs(Offer(requests[r], token).by,
                                   Offer(requests[r], token).org)
      BY <2>1 DEF Offer, GoodClaims
    <2>3. \A inv \in invitations' :
              /\ Owned(inv.org)
              /\ inv.role = "admin" => OwnerIs(inv.by, inv.org)
      BY <1>1, <1>i, <2>2 DEF Upsert
    <2>4. GoodRequest(r)' /\ OthersStay(r)
      <3>1. CASE Respond(r)
        BY <3>1, <1>t, RespondGood
      <3>2. CASE \E token : Continue(r, [pc |-> "mail", token |-> token])
        BY <3>2, <1>t, ContinueOthers DEF GoodRequest, At
      <3>3. QED
        BY <1>1, <3>1, <3>2 DEF Upsert
    <2>5. UNCHANGED <<users, orgs, jwts>> /\ issued \subseteq issued'
      BY <1>1 DEF Upsert, clients
    <2>6. QED
      BY <2>3, <2>4, <2>5, PreserveQuiet
  <1>2. CASE Mail(r)
    BY <1>2, <1>i, <1>t, RespondGood, PreserveQuiet DEF Mail, tables
  <1>3. CASE CheckExisting(r)
    <2>1. CASE Respond(r)
      BY <1>3, <1>i, <1>t, <2>1, RespondGood, PreserveQuiet
         DEF CheckExisting, tables, clients
    <2>2. CASE Continue(r, [pc |-> "createUser", inv |-> requests[r].inv])
      <3>1. PICK inv : inv = requests[r].inv
        OBVIOUS
      <3>2. requests'[r] = [pc |-> "createUser", inv |-> inv] /\ OthersStay(r)
        BY <1>t, <2>2, <3>1, ContinueOthers
      <3>3. GoodOffer(inv)'
        BY <1>3, <1>t, <3>1
           DEF CheckExisting, GoodRequest, GoodOffer, OwnerIs, At, Owned, tables, IsOwner
      <3>4. GoodRequest(r)'
        BY <3>2, <3>3 DEF GoodRequest, At
      <3>5. QED
        BY <1>3, <1>i, <3>2, <3>4, PreserveQuiet DEF CheckExisting, tables, clients
    <2>3. QED
      BY <1>3, <2>1, <2>2 DEF CheckExisting
  <1>4. CASE CreateUser(r)
    <2> DEFINE Joining(id) == [id |-> id, email |-> requests[r].inv.email,
                               org |-> requests[r].inv.org,
                               role |-> requests[r].inv.role]
    <2>i. PICK id \in UserId \ issued :
             /\ Insertable(Joining(id))
             /\ issued' = issued \cup {id}
             /\ jwts' = jwts \cup {ClaimsOf(Joining(id))}
             /\ \/ /\ users' = users \cup {Joining(id)}
                   /\ invitations' = {Closed(row, requests[r].inv) :
                                         row \in invitations}
                \/ UNCHANGED <<users, invitations>>
      BY <1>4 DEF CreateUser, TokensIssued
    <2>1. PICK new \in {Joining(id)} :
             /\ new = Joining(id)
             /\ Insertable(new)
             /\ issued' = issued \cup {id}
             /\ jwts' = jwts \cup {ClaimsOf(new)}
             /\ \/ /\ users' = users \cup {new}
                   /\ invitations' = {Closed(row, requests[r].inv) :
                                         row \in invitations}
                \/ UNCHANGED <<users, invitations>>
      BY <2>i
    <2>2. requests[r].inv \in Invitation /\ Owned(requests[r].inv.org)
      BY <1>4, <1>t, RequestFields DEF CreateUser, GoodRequest, GoodOffer, At
    <2>3. /\ new.id = id /\ new.org = requests[r].inv.org
          /\ new.role \in {"admin", "member"} /\ ~IsOwner(new)
          /\ Owned(new.org)
      BY <2>1, <2>2 DEF Invitation, IsOwner
    <2>4. Respond(r) /\ UNCHANGED orgs
      BY <1>4 DEF CreateUser
    <2>5. \A inv \in invitations' :
              /\ Owned(inv.org)
              /\ inv.role = "admin" => OwnerIs(inv.by, inv.org)
      <3>1. \A row \in invitations : \A inv :
               /\ Closed(row, inv).org = row.org
               /\ Closed(row, inv).by = row.by
               /\ Closed(row, inv).role = row.role
        BY <1>t DEF Closed, TypeOK, Invitation
      <3>2. QED
        BY <1>i, <2>1, <3>1
    <2>6. /\ ClaimsOf(new).id \in issued'
          /\ ClaimsOf(new).org = new.org
          /\ ClaimsOf(new).role # "owner"
      BY <2>1, <2>3 DEF ClaimsOf
    <2>7. Owned(new.org)'
      BY <2>1, <2>3 DEF Owned
    <2>8. \A t \in jwts' : t \in jwts \/ GoodClaims(t)'
      BY <2>1, <2>6, <2>7 DEF GoodClaims
    <2>9. CASE users' = users
      <3>1. OwnersStay
        BY <2>1, <2>4, <2>9 DEF OwnersStay
      <3>2. (\A t \in jwts : GoodClaims(t))'
        BY <2>8, <3>1, ClaimsStay DEF IInv
      <3>3. \A inv \in invitations' :
               /\ Owned(inv.org)'
               /\ inv.role = "admin" => OwnerIs(inv.by, inv.org)'
        BY <2>5, <3>1, OwnedStays
      <3>4. OneAccount' /\ OneOwner' /\ AdminOffersByOwner'
        BY <2>1, <2>9, <3>3
           DEF IInv, OneAccount, OneOwner, AdminOffersByOwner, OwnerIs, Owned,
               IsOwner
      <3>5. (\A u \in users : u.org \in orgs)' /\ \A u \in users' : Owned(u.org)
        BY <2>4, <2>9 DEF IInv, OneOwner
      <3>6. QED
        BY <1>t, <2>4, <3>1, <3>2, <3>4, <3>5, RespondGood, Preserve
    <2>10. CASE users' = users \cup {new}
      BY <2>1, <2>3, <2>4, <2>5, <2>8, <2>10, JoinPreserves
    <2>11. QED
      BY <2>1, <2>9, <2>10
  <1>5. CASE CreateUserRefused(r)
    BY <1>5, <1>i, <1>t, RespondGood, PreserveQuiet
       DEF CreateUserRefused, tables, clients
  <1>6. QED
    BY <1>1, <1>2, <1>3, <1>4, <1>5 DEF InvitationsHandler

\* The handlers of TeamService preserve the invariant.
LEMMA TeamPreserves ==
    ASSUME IInv, TypeOK', NEW r \in Req, TeamHandler(r)
    PROVE  IInv'
  <1>t. TypeOK /\ GoodRequest(r)
    BY DEF IInv
  <1>i. \A inv \in invitations :
              /\ Owned(inv.org)
              /\ inv.role = "admin" => OwnerIs(inv.by, inv.org)
    BY DEF IInv, OneOwner, AdminOffersByOwner, OwnerIs
  <1>1. CASE Reload(r)
    <2>1. CASE Respond(r)
      BY <1>1, <1>i, <1>t, <2>1, RespondGood, PreserveQuiet
         DEF Reload, tables, clients
    <2>2. CASE ~Respond(r)
      <3>1. PICK target, pc :
               /\ target = requests[r].target
               /\ pc \in {"updateRole", "insertUser"}
               /\ Continue(r, [pc |-> pc, target |-> target])
        BY <1>1, <2>2 DEF Reload
      <3>2. NeverOwner(target)'
        BY <1>1, <1>t, <3>1
           DEF Reload, GoodRequest, At, NeverOwner, Owned, tables, IsOwner
      <3>3. GoodRequest(r)'
        BY <1>t, <3>1, <3>2, ContinueOthers DEF GoodRequest, At
      <3>4. QED
        BY <1>1, <3>1, <3>3, PreserveRead DEF Reload
    <2>3. QED
      BY <2>1, <2>2
  <1>2. CASE UpdateRole(r)
    <2>1. PICK target : /\ target = requests[r].target
                        /\ target \in User
                        /\ NeverOwner(target)
      BY <1>2, <1>t, RequestFields DEF UpdateRole, GoodRequest, At
    <2> DEFINE after(u) == IF u.id = target.id
                           THEN [u EXCEPT !.role = target.role] ELSE u
    <2>2. users' = {after(u) : u \in users}
      BY <1>2, <2>1 DEF UpdateRole
    <2>3. \A u \in users : /\ after(u).id = u.id
                           /\ after(u).email = u.email
                           /\ after(u).org = u.org
                           /\ IsOwner(u) => after(u) = u
                           /\ IsOwner(after(u)) => after(u) = u
      BY <1>t, <2>1 DEF TypeOK, User, NeverOwner, IsOwner
    <2> HIDE DEF after
    <2>4. Respond(r) /\ UNCHANGED <<orgs, invitations, issued, jwts>>
      BY <1>2 DEF UpdateRole, clients
    <2>5. OwnersStay
      BY <2>2, <2>3, <2>4 DEF OwnersStay
    <2>6. OneAccount'
      BY <2>2, <2>3, <2>4 DEF IInv, OneAccount
    <2>7. OneOwner'
      <3>1. \A u \in users' : Owned(u.org)
        BY <2>2, <2>3 DEF IInv, OneOwner
      <3>2. (\A u, v \in users :
                IsOwner(u) /\ IsOwner(v) /\ u.org = v.org => u = v)'
        BY <2>2, <2>3 DEF IInv, OneOwner
      <3>3. QED
        BY <1>i, <2>4, <2>5, <3>1, <3>2, OwnedStays DEF OneOwner
    <2>8. AdminOffersByOwner'
      BY <1>i, <2>4, <2>5, OwnedStays DEF AdminOffersByOwner, OwnerIs
    <2>9. (\A t \in jwts : GoodClaims(t))'
      BY <2>4, <2>5, ClaimsStay DEF IInv
    <2>10. (\A u \in users : u.org \in orgs)' /\ \A u \in users' : Owned(u.org)
      BY <2>2, <2>3, <2>4 DEF IInv, OneOwner
    <2>11. QED
      BY <1>t, <2>4, <2>5, <2>6, <2>7, <2>8, <2>9, <2>10, RespondGood, Preserve
  <1>3. CASE InsertUser(r) /\ users' = users
    BY <1>3, <1>i, <1>t, RespondGood, PreserveQuiet DEF InsertUser, clients
  <1>4. CASE InsertUser(r) /\ users' # users
    <2>1. PICK target : target = requests[r].target
      OBVIOUS
    <2>2. NeverOwner(target)
      BY <1>4, <1>t, <2>1 DEF InsertUser, GoodRequest, At
    <2>3. users' = users \cup {target} /\ Insertable(target)
      BY <1>4, <2>1 DEF InsertUser
    <2>4. Respond(r) /\ UNCHANGED <<orgs, invitations, issued, jwts>>
      BY <1>4 DEF InsertUser, clients
    <2>5. QED
      BY <1>i, <2>2, <2>3, <2>4, JoinPreserves DEF NeverOwner
  <1>5. CASE RemoveTx(r)
    <2>1. PICK target : target = requests[r].target /\ NeverOwner(target)
      BY <1>5, <1>t DEF RemoveTx, GoodRequest, At
    <2>2. users' \subseteq users /\ \A u \in users : IsOwner(u) => u \in users'
      BY <1>5, <2>1 DEF RemoveTx, NeverOwner
    <2>3. Respond(r) /\ UNCHANGED <<orgs, invitations, issued, jwts>>
      BY <1>5 DEF RemoveTx, clients
    <2>4. OwnersStay
      BY <2>2, <2>3 DEF OwnersStay
    <2>5. OneAccount'
      BY <2>2, <2>3 DEF IInv, OneAccount
    <2>6. \A u \in users' : Owned(u.org)
      BY <2>2 DEF IInv, OneOwner
    <2>7. OneOwner'
      <3>1. (\A u, v \in users :
                IsOwner(u) /\ IsOwner(v) /\ u.org = v.org => u = v)'
        BY <2>2 DEF IInv, OneOwner, IsOwner
      <3>2. QED
        BY <1>i, <2>3, <2>4, <2>6, <3>1, OwnedStays DEF OneOwner
    <2>8. AdminOffersByOwner'
      BY <1>i, <2>3, <2>4, OwnedStays DEF AdminOffersByOwner, OwnerIs
    <2>9. (\A t \in jwts : GoodClaims(t))'
      BY <2>3, <2>4, ClaimsStay DEF IInv
    <2>10. (\A u \in users : u.org \in orgs)'
      BY <2>2, <2>3 DEF IInv
    <2>11. QED
      BY <1>t, <2>3, <2>4, <2>5, <2>6, <2>7, <2>8, <2>9, <2>10, RespondGood,
         Preserve
  <1>6. CASE DeleteRows(r)
    <2>1. PICK rec : Continue(r, rec) /\ rec.pc = "selectRows"
      BY <1>6 DEF DeleteRows
    <2>2. GoodRequest(r)'
      BY <1>t, <2>1, ContinueOthers DEF GoodRequest, At
    <2>3. QED
      BY <1>6, <2>1, <2>2, PreserveRead DEF DeleteRows
  <1>7. CASE SelectRows(r)
    <2>1. PICK rec : Continue(r, rec) /\ rec.pc = "insertRows"
      BY <1>7 DEF SelectRows
    <2>2. GoodRequest(r)'
      BY <1>t, <2>1, ContinueOthers DEF GoodRequest, At
    <2>3. QED
      BY <1>7, <2>1, <2>2, PreserveRead DEF SelectRows
  <1>8. CASE InsertRows(r)
    <2>1. requests'[r] = Idle /\ OthersStay(r)
      <3>1. CASE Respond(r)
        BY <1>t, <3>1, ContinueOthers DEF Respond
      <3>2. CASE ~Respond(r)
        <4>1. requests' = [q \in Req |->
                             IF q = r THEN Idle
                             ELSE IF requests[q].pc \in {"selectRows", "insertRows"}
                             THEN [requests[q] EXCEPT !.rows = @ \ requests[r].rows]
                             ELSE requests[q]]
          BY <1>8, <3>2 DEF InsertRows
        <4>2. \A q \in Req : requests[q].pc \in {"selectRows", "insertRows"} =>
                 [requests[q] EXCEPT !.rows = @ \ requests[r].rows].pc = requests[q].pc
          BY <1>t, Skips
        <4>3. QED
          BY <4>1, <4>2 DEF OthersStay
      <3>3. QED
        BY <3>1, <3>2
    <2>2. GoodRequest(r)'
      BY <2>1 DEF GoodRequest, Idle, At
    <2>3. QED
      BY <1>8, <1>i, <2>1, <2>2, PreserveQuiet DEF InsertRows, clients
  <1>9. QED
    BY <1>1, <1>2, <1>3, <1>4, <1>5, <1>6, <1>7, <1>8 DEF TeamHandler

\* So do logout, the passing of time, and agents that come and go.
LEMMA OthersPreserve ==
    ASSUME IInv, TypeOK', Logout \/ Expire \/ CreateAgent \/ RemoveAgent
    PROVE  IInv'
  <1>1. /\ UNCHANGED <<users, orgs, jwts, requests>>
        /\ issued \subseteq issued'
    BY DEF Logout, Expire, CreateAgent, RemoveAgent, clients
  <1>2. \A inv \in invitations' : \E old \in invitations :
           /\ inv.org = old.org /\ inv.by = old.by /\ inv.role = old.role
    <2>1. CASE Expire
      BY <2>1 DEF Expire, IInv, TypeOK, Invitation
    <2>2. CASE ~Expire
      BY <2>2 DEF Logout, CreateAgent, RemoveAgent
    <2>3. QED
      BY <2>1, <2>2
  <1>3. OneAccount' /\ OneOwner' /\ AdminOffersByOwner'
    BY <1>1, <1>2
       DEF IInv, OneAccount, OneOwner, AdminOffersByOwner, Owned, IsOwner
  <1>4. OwnersStay
    BY <1>1 DEF OwnersStay
  <1>5. (\A t \in jwts : GoodClaims(t))'
    BY <1>1, <1>4, ClaimsStay DEF IInv
  <1>6. ASSUME NEW r \in Req PROVE GoodRequest(r)'
    <2>1. GoodRequest(r)
      BY DEF IInv
    <2>2. At(r, "saveOwner") =>
               /\ \A u \in users' : u.org # requests[r].org
               /\ \A p \in Req : (At(p, "saveOwner"))'
                     /\ requests'[p].org = requests[r].org => p = r
      BY <1>1, <2>1 DEF GoodRequest, At
    <2>3. QED
      BY <1>1, <1>4, <2>1, <2>2, RequestStays
  <1>7. QED
    BY <1>1, <1>3, <1>5, <1>6 DEF IInv

\* IInv is inductive.
LEMMA InvariantStep ==
    ASSUME IInv, [Next]_vars
    PROVE  IInv'
  <1>1. TypeOK'
    BY TypeStep DEF IInv
  <1>2. CASE UNCHANGED vars
    BY <1>2
       DEF vars, tables, clients, IInv, TypeOK, OneAccount, OneOwner, Owned,
           OwnerIs, IsOwner, AdminOffersByOwner, GoodClaims, GoodOffer, GoodRequest, At,
           NeverOwner
  <1>3. CASE \E r \in Req : Call(r) \/ Handler(r)
    BY <1>1, <1>3, CallsPreserve, AccountsPreserve, InvitationsPreserve,
       TeamPreserves DEF Handler
  <1>4. CASE \E r \in Req : Fail(r)
    <2>1. PICK r \in Req : Fail(r)
      BY <1>4
    <2>2. Continue(r, Idle) /\ UNCHANGED <<tables, clients>> /\ GoodRequest(r)'
      BY <2>1, RespondGood DEF Fail, Respond, IInv
    <2>3. QED
      BY <1>1, <2>2, PreserveRead
  <1>5. CASE Logout \/ Expire \/ CreateAgent \/ RemoveAgent
    BY <1>1, <1>5, OthersPreserve
  <1>6. QED
    BY <1>2, <1>3, <1>4, <1>5 DEF Next

\* IInv holds of the empty tables.
LEMMA InvariantInit == Init => IInv
  BY DEF Init, IInv, TypeOK, Request, OneAccount, OneOwner, AdminOffersByOwner,
         GoodRequest, At, Idle

\* IInv always holds.
LEMMA Invariant == Spec => []IInv
  <1>1. IInv /\ [Next]_vars => IInv'
    BY InvariantStep
  <1>2. QED
    BY <1>1, InvariantInit, PTL DEF Spec

(* ------------------------------ Theorems ------------------------------- *)

\* Whatever is interleaved, lost or half done, an organization with members or
\* open offers has exactly one owner.
THEOREM OwnerUnique == Spec => []OneOwner
  <1>1. IInv => OneOwner
    BY DEF IInv
  <1>2. QED
    BY <1>1, Invariant, PTL

\* An access token that says owner is never out of date.
THEOREM OwnerClaims == Spec => []OwnerClaimsTrue
  <1>1. IInv => OwnerClaimsTrue
    BY DEF IInv, GoodClaims, OwnerIs, OwnerClaimsTrue
  <1>2. QED
    BY <1>1, Invariant, PTL

\* An admin's place is only ever offered by the owner.
THEOREM AdminOffers == Spec => []AdminOffersByOwner
  <1>1. IInv => AdminOffersByOwner
    BY DEF IInv
  <1>2. QED
    BY <1>1, Invariant, PTL

\* The other actions leave users alone.
LEMMA UsersKept ==
    ASSUME Next,
           ~\E r \in Req : \/ SaveOwner(r) \/ CreateUser(r) \/ UpdateRole(r)
                           \/ InsertUser(r) \/ RemoveTx(r)
    PROVE  users' = users
  BY DEF Next, Call, Handler, AccountsCall, InvitationsCall, TeamCall,
         AccountsHandler, InvitationsHandler, TeamHandler, Register, Login,
         Refresh, Send, Accept, ChangeRole, RemoveMember,
         UpdateAgentAccess, SaveOrg, IssueTokens, Upsert, Mail,
         CheckExisting, CreateUserRefused, Reload, DeleteRows, SelectRows,
         InsertRows, Fail, Logout, Expire, CreateAgent, RemoveAgent, tables

\* How a step changes users: not at all, by an owner of a new organization, by
\* somebody who joins, by a change of role of somebody who is not an owner, or
\* by the removal of such a one.
LEMMA UsersStep ==
    ASSUME IInv, [Next]_vars
    PROVE  \/ users' = users
           \/ \E new \in User :
                 /\ users' = users \cup {new}
                 /\ ~EmailTaken(new.email)
                 /\ \/ IsOwner(new) /\ \A u \in users : u.org # new.org
                    \/ ~IsOwner(new) /\ Owned(new.org)
           \/ \E old \in users, role \in {"admin", "member"} :
                 /\ ~IsOwner(old)
                 /\ users' = (users \ {old}) \cup {[old EXCEPT !.role = role]}
           \/ \E old \in users : ~IsOwner(old) /\ users' = users \ {old}
  <1>t. TypeOK /\ OneAccount
    BY DEF IInv
  <1>1. CASE UNCHANGED vars
    BY <1>1 DEF vars, tables
  <1>2. CASE \E r \in Req : SaveOwner(r)
    <2>1. PICK r \in Req : SaveOwner(r) /\ GoodRequest(r)
      BY <1>2 DEF IInv
    <2>2. At(r, "saveOwner")
      BY <2>1 DEF SaveOwner
    <2>3. \A id \in UserId :
             LET new == NewOwner(id, requests[r])
             IN /\ new \in User /\ IsOwner(new)
                /\ \A u \in users : u.org # new.org
      BY <1>t, <2>1, <2>2, RequestFields
         DEF NewOwner, User, Role, IsOwner, GoodRequest
    <2>4. QED
      BY <2>1, <2>3 DEF SaveOwner, Insertable
  <1>3. CASE \E r \in Req : CreateUser(r)
    <2>1. PICK r \in Req : CreateUser(r) /\ GoodRequest(r)
      BY <1>3 DEF IInv
    <2>2. requests[r].inv \in Invitation /\ Owned(requests[r].inv.org)
      BY <1>t, <2>1, RequestFields DEF CreateUser, GoodRequest, GoodOffer, At
    <2>3. \A id \in UserId :
             LET new == [id |-> id, email |-> requests[r].inv.email,
                         org |-> requests[r].inv.org,
                         role |-> requests[r].inv.role]
             IN new \in User /\ ~IsOwner(new) /\ Owned(new.org)
      BY <2>2 DEF Invitation, User, Role, IsOwner
    <2>4. QED
      BY <2>1, <2>3 DEF CreateUser, Insertable
  <1>4. CASE \E r \in Req : UpdateRole(r)
    <2>1. PICK r \in Req : UpdateRole(r) /\ GoodRequest(r)
      BY <1>4 DEF IInv
    <2>2. PICK target : /\ target = requests[r].target
                        /\ target \in User
                        /\ NeverOwner(target)
      BY <1>t, <2>1, RequestFields DEF UpdateRole, GoodRequest, At
    <2>3. users' = {IF u.id = target.id THEN [u EXCEPT !.role = target.role]
                    ELSE u : u \in users}
      BY <2>1, <2>2 DEF UpdateRole
    <2>4. CASE \E old \in users : old.id = target.id
      <3>1. PICK old \in users : old.id = target.id
        BY <2>4
      <3>2. \A u \in users : u.id = target.id <=> u = old
        BY <1>t, <3>1 DEF OneAccount
      <3>3. users' = (users \ {old}) \cup {[old EXCEPT !.role = target.role]}
        BY <2>3, <3>1, <3>2
      <3>4. target.role \in {"admin", "member"} /\ ~IsOwner(old)
        BY <2>2, <3>1 DEF User, Role, NeverOwner, IsOwner
      <3>5. QED
        BY <3>1, <3>3, <3>4
    <2>5. CASE ~\E old \in users : old.id = target.id
      BY <2>3, <2>5
    <2>6. QED
      BY <2>4, <2>5
  <1>5. CASE \E r \in Req : InsertUser(r)
    <2>1. PICK r \in Req : InsertUser(r) /\ GoodRequest(r)
      BY <1>5 DEF IInv
    <2>2. requests[r].target \in User /\ NeverOwner(requests[r].target)
      BY <1>t, <2>1, RequestFields DEF InsertUser, GoodRequest, At
    <2>3. QED
      BY <2>1, <2>2 DEF InsertUser, Insertable, NeverOwner
  <1>6. CASE \E r \in Req : RemoveTx(r)
    <2>1. PICK r \in Req : RemoveTx(r) /\ GoodRequest(r)
      BY <1>6 DEF IInv
    <2>2. PICK target : target = requests[r].target /\ NeverOwner(target)
      BY <2>1 DEF RemoveTx, GoodRequest, At
    <2>3. users' = users \/ users' = {u \in users : u.id # target.id}
      BY <2>1, <2>2 DEF RemoveTx
    <2>4. CASE \E old \in users : old.id = target.id
      <3>1. PICK old \in users : old.id = target.id
        BY <2>4
      <3>2. \A u \in users : u.id = target.id <=> u = old
        BY <1>t, <3>1 DEF OneAccount
      <3>3. users' = users \/ users' = users \ {old}
        BY <2>3, <3>2
      <3>4. QED
        BY <2>2, <3>1, <3>3 DEF NeverOwner
    <2>5. CASE ~\E old \in users : old.id = target.id
      BY <2>3, <2>5
    <2>6. QED
      BY <2>4, <2>5
  <1>7. CASE /\ Next
             /\ ~\E r \in Req : \/ SaveOwner(r) \/ CreateUser(r) \/ UpdateRole(r)
                                \/ InsertUser(r) \/ RemoveTx(r)
    BY <1>7, UsersKept
  <1>8. QED
    BY <1>1, <1>2, <1>3, <1>4, <1>5, <1>6, <1>7

\* Who becomes an admin in a step, and by what.
LEMMA AdminStep ==
    ASSUME IInv, [Next]_vars, NEW u \in users', BecomesAdmin(u)
    PROVE  \E r \in Req :
              \/ /\ At(r, "createUser")
                 /\ requests[r].inv.role = "admin" /\ requests[r].inv.email = u.email
                 /\ OwnerIs(requests[r].inv.by, u.org)
              \/ /\ requests[r].pc \in {"updateRole", "insertUser"}
                 /\ requests[r].target.id = u.id /\ requests[r].target.role = "admin"
  <1>n. u.role = "admin" /\ u \notin users
    BY DEF BecomesAdmin
  <1>1. CASE \E r \in Req : CreateUser(r)
    <2>1. PICK r \in Req : CreateUser(r) /\ GoodRequest(r)
      BY <1>1 DEF IInv
    <2>2. At(r, "createUser") /\ GoodOffer(requests[r].inv)
      BY <2>1 DEF CreateUser, GoodRequest, At
    <2>3. \E id \in UserId : u = [id |-> id, email |-> requests[r].inv.email,
                                 org |-> requests[r].inv.org,
                                 role |-> requests[r].inv.role]
      BY <1>n, <2>1 DEF CreateUser
    <2>4. QED
      BY <1>n, <2>2, <2>3 DEF GoodOffer
  <1>2. CASE \E r \in Req : UpdateRole(r)
    <2>1. PICK r \in Req : UpdateRole(r)
      BY <1>2
    <2>2. PICK old \in users : u = IF old.id = requests[r].target.id
                                   THEN [old EXCEPT !.role = requests[r].target.role]
                                   ELSE old
      BY <2>1 DEF UpdateRole
    <2>3. /\ old \in User /\ old.id = requests[r].target.id
          /\ u = [old EXCEPT !.role = requests[r].target.role]
      BY <1>n, <2>2 DEF IInv, TypeOK
    <2>4. u.id = old.id /\ u.role = requests[r].target.role
      BY <2>3 DEF User
    <2>5. QED
      BY <1>n, <2>1, <2>3, <2>4 DEF UpdateRole, At
  <1>3. CASE \E r \in Req : InsertUser(r)
    BY <1>3, <1>n DEF InsertUser, At
  <1>4. CASE \E r \in Req : SaveOwner(r)
    <2>1. PICK r \in Req : SaveOwner(r)
      BY <1>4
    <2>2. PICK id \in UserId : u = NewOwner(id, requests[r])
      BY <1>n, <2>1 DEF SaveOwner
    <2>3. u.role = "owner"
      BY <2>2 DEF NewOwner
    <2>4. QED
      BY <1>n, <2>3
  <1>5. CASE \E r \in Req : RemoveTx(r)
    BY <1>5, <1>n DEF RemoveTx
  <1>6. CASE UNCHANGED vars
    BY <1>6, <1>n DEF vars, tables
  <1>7. CASE /\ Next
             /\ ~\E r \in Req : \/ SaveOwner(r) \/ CreateUser(r) \/ UpdateRole(r)
                                \/ InsertUser(r) \/ RemoveTx(r)
    BY <1>7, <1>n, UsersKept
  <1>8. QED
    BY <1>1, <1>2, <1>3, <1>4, <1>5, <1>6, <1>7

\* Admins are made by the owner: by an invitation of the owner's, whoever may have
\* resent it since it was read, or by changeRole.
THEOREM AdminsMade == Spec => AdminsByOwner
  <1> DEFINE Made ==
         \A u \in users' : BecomesAdmin(u) =>
            \E r \in Req :
              \/ /\ At(r, "createUser")
                 /\ requests[r].inv.role = "admin" /\ requests[r].inv.email = u.email
                 /\ OwnerIs(requests[r].inv.by, u.org)
              \/ /\ requests[r].pc \in {"updateRole", "insertUser"}
                 /\ requests[r].target.id = u.id /\ requests[r].target.role = "admin"
  <1>1. IInv /\ [Next]_vars => Made
    BY AdminStep
  <1>2. IInv /\ [Next]_vars => [Made]_vars
    BY <1>1
  <1>3. QED
    BY <1>2, Invariant, PTL DEF Spec, AdminsByOwner

\* No step removes an owner or touches its row.
THEOREM OwnersKept == Spec => OwnerKept
  <1>1. IInv /\ [Next]_vars => \A u \in users : IsOwner(u) => u \in users'
    BY UsersStep
  <1>2. IInv /\ [Next]_vars => [\A u \in users : IsOwner(u) => u \in users']_vars
    BY <1>1
  <1>3. QED
    BY <1>2, Invariant, PTL DEF Spec, OwnerKept

(* ------------------- Membership implements Roster ---------------------- *)

\* Each step is one of Roster's, or leaves the members alone.
LEMMA RosterStep ==
    ASSUME IInv, [Next]_vars
    PROVE  AbstractRoster!Next \/ Members' = Members
  <1> USE DEF AbstractRoster!Free, AbstractRoster!HasOwner, AbstractRoster!Entry,
              AbstractRoster!Lower, Seen
  <1>t. users \subseteq User /\ OneAccount
    BY DEF IInv, TypeOK
  <1>1. CASE users' = users
    BY <1>1 DEF Members
  <1>2. CASE \E new \in User :
                 /\ users' = users \cup {new}
                 /\ ~EmailTaken(new.email)
                 /\ \/ IsOwner(new) /\ \A u \in users : u.org # new.org
                    \/ ~IsOwner(new) /\ Owned(new.org)
    <2>1. PICK new \in User :
                 /\ users' = users \cup {new}
                 /\ ~EmailTaken(new.email)
                 /\ \/ IsOwner(new) /\ \A u \in users : u.org # new.org
                    \/ ~IsOwner(new) /\ Owned(new.org)
      BY <1>2
    <2>2. /\ new.email \in Email /\ new.org \in Org
          /\ new.role = "owner" \/ new.role \in {"admin", "member"}
      BY DEF User, Role
    <2>3. Members' = Members \cup {Seen(new)}
      BY <2>1 DEF Members
    <2>4. \A m \in Members : m.email # new.email
      BY <2>1 DEF Members, EmailTaken
    <2>5. CASE IsOwner(new)
      <3>1. \A m \in Members : m.org # new.org
        BY <2>1, <2>5 DEF Members, IsOwner
      <3>2. AbstractRoster!Found
        BY <2>2, <2>3, <2>4, <2>5, <3>1 DEF AbstractRoster!Found, Members, IsOwner
      <3>3. QED
        BY <3>2 DEF AbstractRoster!Next
    <2>6. CASE ~IsOwner(new)
      <3>1. \E m \in Members : m.org = new.org /\ m.role = "owner"
        <4>1. PICK u \in users : u.org = new.org /\ IsOwner(u)
          BY <2>1, <2>6 DEF Owned
        <4>2. Seen(u) \in Members
          BY DEF Members
        <4>3. QED
          BY <4>1, <4>2 DEF IsOwner
      <3>2. AbstractRoster!Join
        BY <2>2, <2>3, <2>4, <2>6, <3>1 DEF AbstractRoster!Join, Members, IsOwner
      <3>3. QED
        BY <3>2 DEF AbstractRoster!Next
    <2>7. QED
      BY <2>5, <2>6
  <1>3. CASE \E old \in users, role \in {"admin", "member"} :
                 /\ ~IsOwner(old)
                 /\ users' = (users \ {old}) \cup {[old EXCEPT !.role = role]}
    <2>1. PICK old \in users, role \in {"admin", "member"} :
                 /\ ~IsOwner(old)
                 /\ users' = (users \ {old}) \cup {[old EXCEPT !.role = role]}
      BY <1>3
    <2>2. old.role \in {"admin", "member"}
      BY <1>t, <2>1 DEF User, Role, IsOwner
    <2>3. \A u \in users : Seen(u) = Seen(old) => u = old
      BY <1>t DEF OneAccount
    <2>4. Seen([old EXCEPT !.role = role])
             = [email |-> old.email, org |-> old.org, role |-> role]
      BY <1>t DEF User
    <2>5. Members' = (Members \ {Seen(old)})
                        \cup {[email |-> old.email, org |-> old.org, role |-> role]}
      <3>1. Members' = {Seen(u) : u \in users \ {old}}
                          \cup {Seen([old EXCEPT !.role = role])}
        BY <2>1 DEF Members
      <3>2. {Seen(u) : u \in users \ {old}} = Members \ {Seen(old)}
        <4> HIDE DEF Seen
        <4>1. QED
          BY <2>3 DEF Members
      <3>3. QED
        BY <2>4, <3>1, <3>2
    <2>6. Seen(old) \in Members
      BY DEF Members
    <2>7. AbstractRoster!SetRole
      BY <2>2, <2>5, <2>6 DEF AbstractRoster!SetRole, Members
    <2>8. QED
      BY <2>7 DEF AbstractRoster!Next
  <1>4. CASE \E old \in users : ~IsOwner(old) /\ users' = users \ {old}
    <2>1. PICK old \in users : ~IsOwner(old) /\ users' = users \ {old}
      BY <1>4
    <2>2. old.role \in {"admin", "member"}
      BY <1>t, <2>1 DEF User, Role, IsOwner
    <2>3. \A u \in users : Seen(u) = Seen(old) => u = old
      BY <1>t DEF OneAccount
    <2>4. Members' = Members \ {Seen(old)}
      BY <2>1, <2>3 DEF Members
    <2>5. Seen(old) \in Members
      BY DEF Members
    <2>6. AbstractRoster!Leave
      BY <2>2, <2>4, <2>5 DEF AbstractRoster!Leave, Members
    <2>7. QED
      BY <2>6 DEF AbstractRoster!Next
  <1>5. QED
    BY <1>1, <1>2, <1>3, <1>4, UsersStep

\* The interleaved handlers implement the abstract roster: every step founds,
\* joins, changes a role, leaves, or shows nothing.
THEOREM Implementation == Spec => ImplementsRoster
  <1>1. Init => AbstractRoster!Init
    BY DEF Init, AbstractRoster!Init, Members
  <1>2. IInv /\ [Next]_vars => [AbstractRoster!Next]_Members
    BY RosterStep
  <1>3. QED
    BY <1>1, <1>2, Invariant, PTL DEF Spec, ImplementsRoster, AbstractRoster!Spec

(* --------------------------- Invitations ------------------------------- *)

\* Which handlers write invitations, and which delete rows of access.
LEMMA WhoWrites ==
    ASSUME NEW r \in Req, Call(r) \/ Handler(r) \/ Fail(r)
    PROVE  /\ invitations' = invitations \/ Upsert(r) \/ CreateUser(r)
           /\ access \subseteq access' \/ RemoveTx(r) \/ InsertRows(r)
  <1>1. CASE AccountsCall(r) \/ AccountsHandler(r)
    <2>1. invitations' = invitations /\ access' = access
      BY <1>1 DEF AccountsCall, AccountsHandler, Register, Login, Refresh, SaveOrg,
                  SaveOwner, IssueTokens, tables
    <2>2. QED
      BY <2>1
  <1>2. CASE InvitationsCall(r) \/ Fail(r) \/ TeamCall(r)
    <2>1. invitations' = invitations /\ access' = access
      BY <1>2 DEF InvitationsCall, Send, Accept, Fail, TeamCall, ChangeRole,
                  RemoveMember, UpdateAgentAccess, tables
    <2>2. QED
      BY <2>1
  <1>3. CASE InvitationsHandler(r)
    BY <1>3 DEF InvitationsHandler, Upsert, Mail, CheckExisting, CreateUser,
                CreateUserRefused, tables
  <1>4. CASE TeamHandler(r) /\ ~RemoveTx(r) /\ ~InsertRows(r)
    <2>1. invitations' = invitations /\ access' = access
      BY <1>4 DEF TeamHandler, Reload, UpdateRole, InsertUser, DeleteRows,
                  SelectRows, tables
    <2>2. QED
      BY <2>1
  <1>5. CASE RemoveTx(r) \/ InsertRows(r)
    BY <1>5 DEF RemoveTx, InsertRows
  <1>6. QED
    BY <1>1, <1>2, <1>3, <1>4, <1>5 DEF Call, Handler

\* Closing an accepted invitation changes nothing in it.
LEMMA ClosedKeeps ==
    ASSUME NEW inv \in Invitation, inv.status = "accepted", NEW other
    PROVE  Closed(inv, other) = inv
  BY DEF Closed, Invitation

\* A step keeps the accepted invitations as they are.
LEMMA AcceptedStep ==
    ASSUME TypeOK, [Next]_vars, NEW inv \in invitations, inv.status = "accepted"
    PROVE  inv \in invitations'
  <1>t. inv \in Invitation
    BY DEF TypeOK
  <1>1. CASE \E r \in Req : Upsert(r)
    <2>1. PICK r \in Req : Upsert(r)
      BY <1>1
    <2>2. CASE Reopenable(requests[r])
      <3>1. inv \notin Conflicting(requests[r])
        BY <2>2 DEF Reopenable
      <3>2. QED
        BY <2>1, <3>1 DEF Upsert
    <2>3. CASE ~Reopenable(requests[r])
      BY <2>1, <2>3 DEF Upsert
    <2>4. QED
      BY <2>2, <2>3
  <1>2. CASE \E r \in Req : CreateUser(r)
    <2>1. PICK r \in Req : CreateUser(r)
      BY <1>2
    <2>2. \/ invitations' = invitations
          \/ invitations' = {Closed(row, requests[r].inv) : row \in invitations}
      BY <2>1 DEF CreateUser
    <2>3. Closed(inv, requests[r].inv) = inv
      BY <1>t, ClosedKeeps
    <2>4. QED
      BY <2>2, <2>3
  <1>3. CASE Expire
    BY <1>3 DEF Expire
  <1>4. CASE UNCHANGED vars
    BY <1>4 DEF vars, tables
  <1>5. CASE /\ Next /\ ~Expire
             /\ ~\E r \in Req : Upsert(r) \/ CreateUser(r)
    <2>1. CASE \E r \in Req : Call(r) \/ Handler(r) \/ Fail(r)
      BY <1>5, <2>1, WhoWrites
    <2>2. CASE Logout \/ CreateAgent \/ RemoveAgent
      BY <2>2 DEF Logout, CreateAgent, RemoveAgent
    <2>3. QED
      BY <1>5, <2>1, <2>2 DEF Next
  <1>6. QED
    BY <1>1, <1>2, <1>3, <1>4, <1>5

\* An accepted invitation is never reopened, nor given another link or role.
THEOREM AcceptedStays == Spec => AcceptedIsFinal
  <1>1. TypeOK /\ [Next]_vars =>
           \A inv \in invitations : inv.status = "accepted" => inv \in invitations'
    BY AcceptedStep
  <1>2. TypeOK /\ [Next]_vars =>
           [\A inv \in invitations : inv.status = "accepted" => inv \in invitations']_vars
    BY <1>1
  <1>3. QED
    BY <1>2, TypeCorrect, PTL DEF Spec, AcceptedIsFinal

(* ------------------------------ Access --------------------------------- *)

InTransaction == {"selectRows", "insertRows"}

\* A handler that goes on elsewhere leaves the rows of transactions alone.
LEMMA OwnRowsElsewhere ==
    ASSUME TypeOK, OwnRows, NEW r \in Req, NEW rec, Continue(r, rec),
           rec.pc \notin InTransaction
    PROVE  OwnRows'
  <1>1. /\ requests'[r] = rec
        /\ \A q \in Req \ {r} : requests'[q] = requests[q]
    BY DEF TypeOK, Continue
  <1>2. QED
    BY <1>1 DEF OwnRows, InTransaction, At

\* Who answers is in no transaction.
LEMMA OwnRowsRespond ==
    ASSUME TypeOK, OwnRows, NEW r \in Req, Respond(r)
    PROVE  OwnRows'
  BY OwnRowsElsewhere DEF Respond, Idle, InTransaction

\* Only the handlers of updateAgentAccess go on within a transaction.
LEMMA OnlyTransactions ==
    ASSUME TypeOK, OwnRows, NEW r \in Req, Call(r) \/ Handler(r) \/ Fail(r),
           ~DeleteRows(r), ~SelectRows(r), ~InsertRows(r)
    PROVE  OwnRows'
  <1> USE OwnRowsElsewhere, OwnRowsRespond DEF InTransaction
  <1>1. CASE AccountsCall(r)
    BY <1>1 DEF AccountsCall, Register, Login, Refresh
  <1>2. CASE AccountsHandler(r)
    BY <1>2 DEF AccountsHandler, SaveOrg, SaveOwner, IssueTokens
  <1>3. CASE InvitationsCall(r)
    BY <1>3 DEF InvitationsCall, Send, Accept
  <1>4. CASE InvitationsHandler(r)
    BY <1>4 DEF InvitationsHandler, Upsert, Mail, CheckExisting, CreateUser,
                CreateUserRefused
  <1>5. CASE TeamCall(r)
    <2>1. CASE ChangeRole(r)
      <3>1. PICK target : Continue(r, [pc |-> "reload", target |-> target])
        BY <2>1 DEF ChangeRole
      <3>2. QED
        BY <3>1
    <2>2. CASE RemoveMember(r)
      BY <2>2 DEF RemoveMember
    <2>3. CASE UpdateAgentAccess(r)
      BY <2>3 DEF UpdateAgentAccess
    <2>4. QED
      BY <1>5, <2>1, <2>2, <2>3 DEF TeamCall
  <1>6. CASE Reload(r)
    BY <1>6 DEF Reload
  <1>7. CASE UpdateRole(r) \/ InsertUser(r) \/ RemoveTx(r) \/ Fail(r)
    <2>1. Respond(r)
      BY <1>7 DEF UpdateRole, InsertUser, RemoveTx, Fail
    <2>2. QED
      BY <2>1
  <1>8. QED
    BY <1>1, <1>2, <1>3, <1>4, <1>5, <1>6, <1>7 DEF Call, Handler, TeamHandler

\* OwnRows is inductive.
LEMMA OwnRowsStep ==
    ASSUME TypeOK, OwnRows, [Next]_vars
    PROVE  OwnRows'
  <1>1. ASSUME NEW r \in Req, DeleteRows(r)
        PROVE  OwnRows'
    <2>1. PICK user, rows, rec :
             /\ Continue(r, rec)
             /\ rec.pc = "selectRows" /\ rec.user = user /\ rec.rows = rows
             /\ \A row \in rows : row.user = user
      BY <1>1 DEF DeleteRows
    <2>2. /\ requests'[r] = rec
          /\ \A q \in Req \ {r} : requests'[q] = requests[q]
      BY <2>1 DEF TypeOK, Continue
    <2>3. QED
      BY <2>1, <2>2 DEF OwnRows, At
  <1>2. ASSUME NEW r \in Req, SelectRows(r)
        PROVE  OwnRows'
    <2> DEFINE req == requests[r]
               rec == [pc |-> "insertRows", user |-> req.user, ids |-> req.ids,
                       rows |-> req.rows, found |-> Asked(req) \cap Visible(req)]
    <2>1. /\ requests'[r] = rec
          /\ \A q \in Req \ {r} : requests'[q] = requests[q]
      BY <1>2 DEF SelectRows, TypeOK, Continue
    <2>2. \A row \in req.rows : row.user = req.user
      BY <1>2 DEF SelectRows, OwnRows, At
    <2>3. Asked(rec) = Asked(req)
      BY DEF Asked
    <2>4. rec.found \subseteq Asked(rec) \ rec.rows
      BY <2>3 DEF Visible
    <2>5. ASSUME NEW q \in Req, q # r
          PROVE  /\ requests'[q].pc \in InTransaction =>
                       \A row \in requests'[q].rows : row.user = requests'[q].user
                 /\ At(q, "insertRows")' =>
                       requests'[q].found \subseteq
                          Asked(requests'[q]) \ requests'[q].rows
      BY <2>1, <2>5 DEF OwnRows, InTransaction, At
    <2>6. Asked(rec)' = Asked(rec)
      BY <2>1 DEF Asked, RowsFor
    <2>7. /\ requests'[r].pc \in InTransaction =>
                \A row \in requests'[r].rows : row.user = requests'[r].user
          /\ At(r, "insertRows")' =>
                requests'[r].found \subseteq Asked(requests'[r]) \ requests'[r].rows
      BY <2>1, <2>2, <2>4
    <2>8. QED
      BY <2>5, <2>7 DEF OwnRows, InTransaction, At
  <1>3. ASSUME NEW r \in Req, InsertRows(r)
        PROVE  OwnRows'
    <2>1. CASE Respond(r)
      BY <2>1, OwnRowsRespond
    <2>2. CASE ~Respond(r)
      <3>1. requests' = [q \in Req |->
                           IF q = r THEN Idle
                           ELSE IF requests[q].pc \in InTransaction
                           THEN [requests[q] EXCEPT !.rows = @ \ requests[r].rows]
                           ELSE requests[q]]
        BY <1>3, <2>2 DEF InsertRows, InTransaction
      <3>2. ASSUME NEW q \in Req, requests'[q].pc \in InTransaction
            PROVE  /\ requests[q].pc = requests'[q].pc
                   /\ requests'[q].user = requests[q].user
                   /\ requests'[q].rows \subseteq requests[q].rows
                   /\ At(q, "insertRows") => requests'[q].found = requests[q].found
        BY <3>1, <3>2, Skips DEF InTransaction, Idle
      <3>3. ASSUME NEW q \in Req, requests'[q].pc \in InTransaction
            PROVE  requests'[q].ids = requests[q].ids
        <4>1. /\ requests[q].pc \in InTransaction
              /\ requests'[q] = [requests[q] EXCEPT !.rows = @ \ requests[r].rows]
          BY <3>1, <3>2, <3>3 DEF InTransaction, Idle
        <4>2. QED
          BY <4>1
      <3>4. ASSUME NEW q \in Req, requests'[q].pc \in InTransaction
            PROVE  Asked(requests'[q]) = Asked(requests[q])
        BY <3>2, <3>3, <3>4 DEF Asked
      <3>5. QED
        BY <3>2, <3>4 DEF OwnRows, InTransaction, At
    <2>3. QED
      BY <2>1, <2>2
  <1>4. ASSUME NEW r \in Req, Call(r) \/ Handler(r) \/ Fail(r),
               ~DeleteRows(r), ~SelectRows(r), ~InsertRows(r)
        PROVE  OwnRows'
    BY <1>4, OnlyTransactions
  <1>5. CASE Logout \/ Expire \/ CreateAgent \/ RemoveAgent \/ UNCHANGED vars
    BY <1>5 DEF Logout, Expire, CreateAgent, RemoveAgent, vars, OwnRows, At
  <1>6. QED
    BY <1>1, <1>2, <1>3, <1>4, <1>5 DEF Next

\* Transactions always delete the rows of their own member.
LEMMA OwnRowsAlways == Spec => []OwnRows
  <1>1. Init => OwnRows
    BY DEF Init, OwnRows, Idle, At
  <1>2. TypeOK /\ OwnRows /\ [Next]_vars => OwnRows'
    BY OwnRowsStep
  <1>3. QED
    BY <1>1, <1>2, TypeCorrect, PTL DEF Spec

\* How somebody without rows can appear.
LEMMA NewcomersOpen ==
    ASSUME [Next]_vars, NEW id \in UserId, Unrestricted(id)', ~UserExists(id)
    PROVE  \E r \in Req : Opens(r, id)
  <1>1. PICK u \in users' : u.id = id /\ u \notin users
    BY DEF Unrestricted, UserExists
  <1>2. PICK r \in Req : \/ SaveOwner(r) \/ CreateUser(r) \/ UpdateRole(r)
                         \/ InsertUser(r) \/ RemoveTx(r)
    BY <1>1, UsersKept DEF vars, tables
  <1>3. CASE SaveOwner(r)
    BY <1>3 DEF SaveOwner, Opens
  <1>4. CASE CreateUser(r)
    <2>1. PICK new : /\ users' = users \cup {new}
                     /\ access' = access \cup RowsFor(new.id, requests[r].inv.agents)
      BY <1>1, <1>4 DEF CreateUser
    <2>2. new.id = id
      BY <1>1, <2>1
    <2>3. ASSUME NEW a \in requests[r].inv.agents
          PROVE  FALSE
      <3>1. [user |-> id, agent |-> a] \in access'
        BY <2>1, <2>2 DEF RowsFor
      <3>2. QED
        BY <3>1 DEF Unrestricted
    <2>4. QED
      BY <1>4, <2>3 DEF CreateUser, Opens
  <1>5. CASE InsertUser(r)
    BY <1>1, <1>5 DEF InsertUser, Opens
  <1>6. CASE UpdateRole(r)
    <2>1. PICK v \in users : u = IF v.id = requests[r].target.id
                                 THEN [v EXCEPT !.role = requests[r].target.role]
                                 ELSE v
      BY <1>1, <1>6 DEF UpdateRole
    <2>2. QED
      BY <1>1, <2>1 DEF UserExists
  <1>7. CASE RemoveTx(r)
    BY <1>1, <1>7 DEF RemoveTx
  <1>8. QED
    BY <1>2, <1>3, <1>4, <1>5, <1>6, <1>7

\* The commit of an update that leaves its member without rows.
LEMMA CommitOpens ==
    ASSUME TypeOK, OwnRows, NEW r \in Req, InsertRows(r), NEW id \in UserId,
           NEW mine \in access, mine.user = id, mine \notin access',
           \A row \in access' : row.user # id
    PROVE  Opens(r, id)
  <1> DEFINE req == requests[r]
  <1>1. /\ At(r, "insertRows")
        /\ access' = (access \ req.rows) \cup (Asked(req) \ req.found)
    BY DEF InsertRows
  <1>2. req.user = id
    BY <1>1 DEF OwnRows, At
  <1>3. /\ \A row \in Asked(req) : row.user = id
        /\ Asked(req) = {} => UNION req.ids = {}
    BY <1>1, <1>2, AskedRows DEF At
  <1>4. Asked(req) \subseteq req.found
    BY <1>1, <1>3
  <1>5. req.found \subseteq Asked(req) \ req.rows
    BY <1>1 DEF OwnRows
  <1>6. req.found \cap access = {}
    BY <1>1, <1>3, <1>5
  <1>7. QED
    BY <1>1, <1>2, <1>3, <1>4, <1>6 DEF Opens

\* How a step can leave somebody without rows.
LEMMA OpenedStep ==
    ASSUME TypeOK, OwnRows, [Next]_vars, NEW id \in UserId,
           Unrestricted(id)', ~Unrestricted(id)
    PROVE  \/ \E r \in Req : Opens(r, id)
           \/ \E gone \in agents \ agents' : \A row \in access :
                 row.user = id => row.agent = gone.id
  <1>1. CASE ~UserExists(id)
    BY <1>1, NewcomersOpen
  <1>2. CASE UserExists(id)
    <2>c. PICK mine \in access : mine.user = id /\ mine \notin access'
      BY <1>2 DEF Unrestricted
    <2>1. CASE \E r \in Req : RemoveTx(r)
      <3>1. PICK r \in Req : RemoveTx(r)
        BY <2>1
      <3>2. id = requests[r].target.id
        BY <2>c, <3>1 DEF RemoveTx
      <3>3. \A v \in users' : v.id # requests[r].target.id
        BY <2>c, <3>1 DEF RemoveTx
      <3>4. QED
        BY <3>2, <3>3 DEF Unrestricted, UserExists
    <2>2. CASE \E r \in Req : InsertRows(r)
      BY <2>c, <2>2, CommitOpens DEF Unrestricted
    <2>3. CASE RemoveAgent
      <3>1. PICK gone \in agents : /\ agents' = agents \ {gone}
                                   /\ access' = {a \in access : a.agent # gone.id}
        BY <2>3 DEF RemoveAgent
      <3>2. \A row \in access : row.user = id => row.agent = gone.id
        BY <3>1 DEF Unrestricted
      <3>3. QED
        BY <3>1, <3>2
    <2>4. CASE UNCHANGED vars
      BY <2>c, <2>4 DEF vars, tables
    <2>5. CASE /\ Next /\ ~RemoveAgent
               /\ ~\E r \in Req : RemoveTx(r) \/ InsertRows(r)
      <3>1. CASE \E r \in Req : Call(r) \/ Handler(r) \/ Fail(r)
        BY <2>c, <2>5, <3>1, WhoWrites
      <3>2. CASE Logout \/ Expire \/ CreateAgent
        BY <2>c, <3>2 DEF Logout, Expire, CreateAgent
      <3>3. QED
        BY <2>5, <3>1, <3>2 DEF Next
    <2>6. QED
      BY <2>1, <2>2, <2>3, <2>4, <2>5
  <1>3. QED
    BY <1>1, <1>2

\* The ways into the state without rows, in which one may use every agent, are the
\* ones that Opened lists: whatever updates overlap or break off.
THEOREM Opening == Spec => Opened
  <1> DEFINE Listed ==
         \A id \in UserId : Unrestricted(id)' /\ ~Unrestricted(id) =>
            \/ \E r \in Req : Opens(r, id)
            \/ \E gone \in agents \ agents' : \A row \in access :
                  row.user = id => row.agent = gone.id
  <1>1. TypeOK /\ OwnRows /\ [Next]_vars => Listed
    BY OpenedStep
  <1>2. TypeOK /\ OwnRows /\ [Next]_vars => [Listed]_vars
    BY <1>1
  <1>3. QED
    BY <1>2, TypeCorrect, OwnRowsAlways, PTL DEF Spec, Opened
=============================================================================
