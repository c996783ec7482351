----------------------------- MODULE Membership -----------------------------
(***************************************************************************)
(* Accounts, invitations and the team run against the same tables.         *)
(***************************************************************************)
EXTENDS Invitations, Team

Request == {Idle} \cup AccountsRequest \cup InvitationsRequest \cup TeamRequest

Init ==
    /\ orgs = {} /\ users = {} /\ agents = {} /\ access = {}
    /\ invitations = {} /\ widgetTokens = {} /\ refreshKeys = {}
    /\ issued = {} /\ jwts = {} /\ mailbox = {}
    /\ requests = [r \in Req |-> Idle]

\* A handler dies where it stands: the process crashes, a query or the mail
\* service fails.  What it has committed stays.
Fail(r) ==
    /\ ~At(r, "idle")
    /\ Respond(r)
    /\ UNCHANGED <<tables, clients>>

Handler(r) == AccountsHandler(r) \/ InvitationsHandler(r) \/ TeamHandler(r)
Call(r)    == AccountsCall(r) \/ InvitationsCall(r) \/ TeamCall(r)

Next ==
    \/ \E r \in Req : Call(r) \/ Handler(r) \/ Fail(r)
    \/ Logout \/ Expire \/ CreateAgent \/ RemoveAgent

Spec == Init /\ [][Next]_vars

-----------------------------------------------------------------------------
\* The tables, what clients hold, and what handlers carry are well typed.
TypeOK ==
    /\ orgs \subseteq Org
    /\ users \subseteq User
    /\ agents \subseteq AgentRow
    /\ access \subseteq AccessRow
    /\ invitations \subseteq Invitation
    /\ widgetTokens \subseteq WidgetToken
    /\ refreshKeys \subseteq UserId
    /\ issued \subseteq UserId \cup Agent \cup Token
    /\ jwts \subseteq Claims
    /\ mailbox \subseteq Token
    /\ requests \in [Req -> Request]

-----------------------------------------------------------------------------
(* Safety.                                                                 *)

IsOwner(u) == u.role = "owner"
Owned(org) == \E u \in users : u.org = org /\ IsOwner(u)

\* Every organization that has members or open offers has an owner, and only
\* one: register commits the organization before the owner, invitations and
\* role changes write from rows read earlier (auth.service.ts register,
\* team.service.ts changeRole).
OneOwner ==
    /\ \A u \in users : Owned(u.org)
    /\ \A inv \in invitations : Owned(inv.org)
    /\ \A u, v \in users : IsOwner(u) /\ IsOwner(v) /\ u.org = v.org => u = v

\* An access token lives for an hour whatever happens to its user, so RolesGuard
\* judges by old claims.  For the owner's they never go wrong: who holds them is
\* the owner of that organization today.
OwnerClaimsTrue ==
    \A t \in jwts : t.role = "owner" =>
        \E u \in users : IsOwner(u) /\ u.id = t.id /\ u.org = t.org

\* "Admins cannot invite other admins": an admin's place is only ever offered
\* by the owner, also when an admin resends an invitation the owner made and
\* when the sender's own role changed between the check and the upsert.
AdminOffersByOwner ==
    \A inv \in invitations : inv.role = "admin" =>
        \E u \in users : IsOwner(u) /\ u.id = inv.by /\ u.org = inv.org

\* No step removes an owner or touches its row: "Cannot remove the owner",
\* "Cannot change the owner's role", although removeMember and changeRole write
\* by an id they checked earlier.
OwnerKept == [][\A u \in users : IsOwner(u) => u \in users']_vars

\* The same, up to the member who joins: accept carries an invitation across its
\* awaits while others resend it.  Somebody becomes an admin by an invitation of
\* the owner, whoever resent it since, or by changeRole, and in no other way.
OwnerIs(id, org) == \E u \in users : IsOwner(u) /\ u.id = id /\ u.org = org
BecomesAdmin(u)  == u.role = "admin" /\ u \notin users
AdminsByOwner ==
    [][\A u \in users' : BecomesAdmin(u) =>
          \E r \in Req :
              \/ /\ At(r, "createUser")
                 /\ requests[r].inv.role = "admin" /\ requests[r].inv.email = u.email
                 /\ OwnerIs(requests[r].inv.by, u.org)
              \/ /\ requests[r].pc \in {"updateRole", "insertUser"}
                 /\ requests[r].target.id = u.id /\ requests[r].target.role = "admin"]_vars

\* An accepted invitation is never reopened or given another link: the upsert
\* "no-ops if already accepted", and accept closes the row that is there.
AcceptedIsFinal ==
    [][\A inv \in invitations : inv.status = "accepted" => inv \in invitations']_vars

Unrestricted(id) == UserExists(id) /\ \A row \in access : row.user # id

\* Who has no rows may use every agent of the organization.  The ways into that
\* state are all here: to register; to accept an invitation that names no agents;
\* to be saved again by a changeRole that read the row before it was removed; the
\* commit of an update that was given null or an empty list; the deletion of the
\* last agent one had.  Neither updates that overlap nor one that fails half way
\* are among them; an update that asked for agents only if somebody else had
\* granted each of them meanwhile and they are gone again.  The code treats an
\* empty list like null (team.service.ts updateAgentAccess), although the comment
\* of the DTO says that it stands for no agents at all.
Opens(r, id) ==
    LET req == requests[r]
    IN \/ At(r, "saveOwner")
       \/ At(r, "createUser") /\ req.inv.agents = {}
       \/ At(r, "insertUser") /\ req.target.id = id
       \/ /\ At(r, "insertRows") /\ req.user = id
          /\ \/ UNION req.ids = {}
             \/ req.found # {} /\ req.found \cap access = {}
Opened ==
    [][\A id \in UserId : Unrestricted(id)' /\ ~Unrestricted(id) =>
          \/ \E r \in Req : Opens(r, id)
          \/ \E gone \in agents \ agents' : \A row \in access :
                row.user = id => row.agent = gone.id]_vars

\* Behind it: a transaction deletes the rows of its own member only, and what it
\* asked for and found there is not among them.
OwnRows ==
    \A r \in Req :
        /\ requests[r].pc \in {"selectRows", "insertRows"} =>
              \A row \in requests[r].rows : row.user = requests[r].user
        /\ At(r, "insertRows") =>
              requests[r].found \subseteq Asked(requests[r]) \ requests[r].rows

\* The refinement mapping: a member is its address, organization and role.
Seen(u) == [email |-> u.email, org |-> u.org, role |-> u.role]
Members == {Seen(u) : u \in users}
AbstractRoster == INSTANCE Roster WITH roster <- Members

\* Seen from the members, the handlers of AuthService, InvitationsService and
\* TeamService do nothing but found, join, change role and leave, one at a time.
ImplementsRoster == AbstractRoster!Spec

-----------------------------------------------------------------------------
(* The inductive invariant behind OneOwner, OwnerClaimsTrue and             *)
(* AdminOffersByOwner: what a handler carries across its awaits has not     *)
(* gone wrong, as far as owners are concerned.                             *)

GoodClaims(t)     == /\ t.id \in issued
                     /\ Owned(t.org)
                     /\ t.role = "owner" => OwnerIs(t.id, t.org)
NeverOwner(user)  == /\ ~IsOwner(user)
                     /\ user.id \in issued
                     /\ Owned(user.org)
                     /\ \A u \in users : u.id = user.id => ~IsOwner(u)
GoodOffer(inv)    == /\ Owned(inv.org)
                     /\ inv.role = "admin" => OwnerIs(inv.by, inv.org)

OneAccount ==
    /\ \A u \in users : u.id \in issued
    /\ \A u, v \in users : u.id = v.id \/ u.email = v.email => u = v

GoodRequest(r) ==
    LET req == requests[r]
    IN /\ At(r, "saveOwner") =>
             /\ \A u \in users : u.org # req.org
             /\ \A q \in Req :
                   At(q, "saveOwner") /\ requests[q].org = req.org => q = r
             /\ req.org \in orgs
       /\ At(r, "issueTokens") => GoodClaims(req.user)
       /\ At(r, "upsert") => /\ GoodClaims(req.caller)
                             /\ req.role = "admin" => req.caller.role = "owner"
       /\ req.pc \in {"checkExisting", "createUser"} => GoodOffer(req.inv)
       /\ req.pc \in {"reload", "updateRole", "insertUser", "removeTx"} =>
             NeverOwner(req.target)

IInv ==
    /\ TypeOK
    /\ OneAccount
    /\ OneOwner
    /\ AdminOffersByOwner
    /\ \A u \in users : u.org \in orgs
    /\ \A t \in jwts : GoodClaims(t)
    /\ \A r \in Req : GoodRequest(r)

-----------------------------------------------------------------------------
(* What comments of the repository say, and the code does not keep.        *)

\* team.service.ts, removeMember: "Delete user", and the answer "Member
\* removed".  A row that was deleted never comes back: a new row has an id that
\* was never used.
RemovedStaysRemoved ==
    [][\A u \in users' : UserExists(u.id) \/ u.id \notin issued]_vars

\* org-invitation.entity.ts: "Array -> member can only access these specific
\* agent IDs".  Deleting an agent never lets a confined member into another.
DeleteNeverWidens ==
    [][agents' \subseteq agents /\ agents' # agents =>
          \A u \in users, row \in agents' : MayUse(u, row.id)' => MayUse(u, row.id)]_vars

=============================================================================
