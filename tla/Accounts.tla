------------------------------ MODULE Accounts ------------------------------
(***************************************************************************)
(* AuthService: register, login, refresh, logout.  register is not a       *)
(* transaction: the organization is committed before its owner is.         *)
(***************************************************************************)
EXTENDS Tables

AccountsRequest ==
    [pc: {"saveOrg"}, email: Email]
        \cup [pc: {"saveOwner"}, email: Email, org: Org]
        \cup [pc: {"issueTokens"}, user: User]

\* What issueTokens leaves behind: the refresh hash in the cache, and the
\* access token in the client's cookie.
TokensIssued(user) ==
    /\ refreshKeys' = refreshKeys \cup {user.id}
    /\ jwts' = jwts \cup {ClaimsOf(user)}

\* register: findOne by email; 409 when it is taken.
Register(r) ==
    /\ At(r, "idle")
    /\ \E email \in Email :
          /\ ~EmailTaken(email)
          /\ Continue(r, [pc |-> "saveOrg", email |-> email])
    /\ UNCHANGED <<tables, clients>>

SaveOrg(r) ==
    /\ At(r, "saveOrg")
    /\ \E org \in Org \ orgs :
          /\ orgs' = orgs \cup {org}
          /\ Continue(r, [pc |-> "saveOwner", email |-> requests[r].email,
                          org |-> org])
    /\ UNCHANGED <<users, agents, access, invitations, widgetTokens, refreshKeys, issued,
                   clients>>

\* Mutant of NewOwner: the column's default role.
NewDefault(id, req) ==
    [id |-> id, email |-> req.email, org |-> req.org, role |-> "member"]
NewOwner(id, req) ==
    [id |-> id, email |-> req.email, org |-> req.org, role |-> "owner"]

\* The insert meets the unique index on email: a loser of the race is told
\* 500 and its organization stays behind without an owner.
SaveOwner(r) ==
    /\ At(r, "saveOwner")
    /\ \/ \E id \in UserId \ issued :
             LET user == NewOwner(id, requests[r])
             IN /\ Insertable(user)
                /\ users' = users \cup {user}
                /\ issued' = issued \cup {id}
                /\ Continue(r, [pc |-> "issueTokens", user |-> user])
       \/ /\ EmailTaken(requests[r].email)
          /\ Respond(r)
          /\ UNCHANGED <<users, issued>>
    /\ UNCHANGED <<orgs, agents, access, invitations, widgetTokens, refreshKeys, clients>>

\* login: the row is read, then bcrypt runs before the tokens are signed.
Login(r) ==
    /\ At(r, "idle")
    /\ \E user \in users : Continue(r, [pc |-> "issueTokens", user |-> user])
    /\ UNCHANGED <<tables, clients>>

\* refresh, past the comparison with the cached hash; 401 for a user that is
\* gone although its key is still cached.
Refresh(r) ==
    /\ At(r, "idle")
    /\ \E user \in users :
          /\ user.id \in refreshKeys
          /\ Continue(r, [pc |-> "issueTokens", user |-> user])
    /\ UNCHANGED <<tables, clients>>

IssueTokens(r) ==
    /\ At(r, "issueTokens")
    /\ TokensIssued(requests[r].user)
    /\ Respond(r)
    /\ UNCHANGED <<orgs, users, agents, access, invitations, widgetTokens, issued,
                   mailbox>>

\* logout deletes the cached hash; the access token stays valid.
Logout ==
    /\ \E caller \in jwts : refreshKeys' = refreshKeys \ {caller.id}
    /\ UNCHANGED <<orgs, users, agents, access, invitations, widgetTokens, issued,
                   clients, requests>>

AccountsHandler(r) == SaveOrg(r) \/ SaveOwner(r) \/ IssueTokens(r)
AccountsCall(r)    == Register(r) \/ Login(r) \/ Refresh(r)
=============================================================================
