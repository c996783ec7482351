---------------------------- MODULE Invitations -----------------------------
(***************************************************************************)
(* InvitationsService: send (and resend), accept.  validate only reads.    *)
(***************************************************************************)
EXTENDS Accounts

InvitationsRequest ==
    [pc: {"upsert"}, caller: Claims, email: Email, role: {"admin", "member"},
     agents: SUBSET Agent]
        \cup [pc: {"mail"}, token: Token]
        \cup [pc: {"checkExisting", "createUser"}, inv: Invitation]

SameInvitation(inv, org, email) == inv.org = org /\ inv.email = email
Mailed(inv) == inv.token \in mailbox

\* send, up to its first query: the caller's role is the one its access token
\* was signed with, the membership check is one read.
Send(r) ==
    /\ At(r, "idle")
    /\ \E caller \in jwts, email \in Email, role \in {"admin", "member"},
          as \in SUBSET Agent :
          /\ HasRole(caller, "admin")
          /\ caller.role = "admin" => role # "admin"
          /\ ~\E u \in users : u.email = email /\ u.org = caller.org
          /\ Continue(r, [pc |-> "upsert", caller |-> caller, email |-> email,
                          role |-> role, agents |-> as])
    /\ UNCHANGED <<tables, clients>>

\* The row with the same (org_id, email), if there is one.
Conflicting(req) ==
    {inv \in invitations : SameInvitation(inv, req.caller.org, req.email)}

\* Mutant of Offer: DO UPDATE without "role = excluded.role".
OfferKeepsRole(req, token) ==
    [org |-> req.caller.org, email |-> req.email,
     role |-> IF Conflicting(req) = {} THEN req.role
              ELSE (CHOOSE inv \in Conflicting(req) : TRUE).role,
     token |-> token, by |-> req.caller.id, agents |-> req.agents,
     status |-> "pending"]

\* The row an INSERT ... ON CONFLICT (org_id, email) DO UPDATE writes.
Offer(req, token) ==
    [org |-> req.caller.org, email |-> req.email, role |-> req.role,
     token |-> token, by |-> req.caller.id, agents |-> req.agents,
     status |-> "pending"]

\* Mutant of Reopenable: the upsert without its WHERE.
AlwaysReopenable(req) == TRUE

\* The WHERE of the upsert: only a row not yet accepted is overwritten.
Reopenable(req) == \A inv \in Conflicting(req) : inv.status # "accepted"

Upsert(r) ==
    /\ At(r, "upsert")
    /\ LET req == requests[r]
       IN \/ /\ Reopenable(req)
             /\ UserExists(req.caller.id)
             /\ \E token \in Token \ issued :
                   /\ invitations' = (invitations \ Conflicting(req))
                                         \cup {Offer(req, token)}
                   /\ issued' = issued \cup {token}
                   /\ Continue(r, [pc |-> "mail", token |-> token])
          \* 409 on an accepted row; invited_by must reference a user.
          \/ /\ ~Reopenable(req) \/ ~UserExists(req.caller.id)
             /\ Respond(r)
             /\ UNCHANGED <<invitations, issued>>
    /\ UNCHANGED <<orgs, users, agents, access, widgetTokens, refreshKeys, clients>>

\* sendInvite; it may throw instead (Fail), and the invitation stays valid.
Mail(r) ==
    /\ At(r, "mail")
    /\ mailbox' = mailbox \cup {requests[r].token}
    /\ Respond(r)
    /\ UNCHANGED <<tables, jwts>>

\* accept: the row is found by the hash of the token the client was mailed.
Accept(r) ==
    /\ At(r, "idle")
    /\ \E inv \in invitations :
          /\ Mailed(inv)
          /\ inv.status = "pending"
          /\ Continue(r, [pc |-> "checkExisting", inv |-> inv])
    /\ UNCHANGED <<tables, clients>>

\* One account per address, in whatever organization; then bcrypt runs.
CheckExisting(r) ==
    /\ At(r, "checkExisting")
    /\ LET inv == requests[r].inv
       IN IF EmailTaken(inv.email)
          THEN Respond(r)
          ELSE Continue(r, [pc |-> "createUser", inv |-> inv])
    /\ UNCHANGED <<tables, clients>>

\* What UPDATE ... SET accepted_at WHERE id = inv.id does to a row: the row is
\* found by its id, whatever a resend has put in it since it was read.
Closed(row, inv) ==
    IF SameInvitation(row, inv.org, inv.email)
    THEN [row EXCEPT !.status = "accepted"] ELSE row

\* The transaction of accept.  Its inserts and its update wait for whoever
\* holds the same keys, so it takes effect as a whole, at its commit.
\* issueTokens runs inside: the tokens are out before the commit.
CreateUser(r) ==
    /\ At(r, "createUser")
    /\ \E id \in UserId \ issued :
          LET inv  == requests[r].inv
              user == [id |-> id, email |-> inv.email, org |-> inv.org,
                       role |-> inv.role]
          IN /\ Insertable(user)
             /\ \A a \in inv.agents : AgentExists(a)
             /\ issued' = issued \cup {id}
             /\ TokensIssued(user)
             /\ \/ /\ users' = users \cup {user}
                   /\ access' = access \cup RowsFor(id, inv.agents)
                   /\ invitations' = {Closed(row, inv) : row \in invitations}
                \* The commit fails: the cookies name a user that never was.
                \/ UNCHANGED <<users, access, invitations>>
    /\ Respond(r)
    /\ UNCHANGED <<orgs, agents, widgetTokens, mailbox>>

\* The insert of the user, or of a row for a deleted agent, is refused.
CreateUserRefused(r) ==
    /\ At(r, "createUser")
    /\ LET inv == requests[r].inv
       IN EmailTaken(inv.email) \/ \E a \in inv.agents : ~AgentExists(a)
    /\ Respond(r)
    /\ UNCHANGED <<tables, clients>>

\* 72 hours go by.
Expire ==
    /\ \E inv \in invitations :
          /\ inv.status = "pending"
          /\ invitations' = (invitations \ {inv})
                                \cup {[inv EXCEPT !.status = "expired"]}
    /\ UNCHANGED <<orgs, users, agents, access, widgetTokens, refreshKeys, issued, clients,
                   requests>>

InvitationsHandler(r) ==
    Upsert(r) \/ Mail(r) \/ CheckExisting(r) \/ CreateUser(r)
        \/ CreateUserRefused(r)
InvitationsCall(r) == Send(r) \/ Accept(r)
=============================================================================
