------------------------------- MODULE Tables -------------------------------
(***************************************************************************)
(* The state the HTTP handlers share: the Postgres tables, seen as sets of *)
(* rows, the tokens that clients hold, and the handlers in flight.  A      *)
(* handler is cut at each of its awaits: between two cuts other handlers   *)
(* run, and what it read before a cut is carried in its request record.    *)
(***************************************************************************)
EXTENDS Naturals, FiniteSets

CONSTANTS
    Org, UserId, Agent,     \* uuids the application draws from
    Email,                  \* the addresses people register and invite
    Token,                  \* tokens of invitations (random bytes) and widgets (JWTs)
    Req                     \* slots for the HTTP requests in flight

VARIABLES
    orgs,           \* organizations: a set of ids
    users,          \* users: rows [id, email, org, role]
    agents,         \* agents: rows [id, org]
    access,         \* user_agent_access: rows [user, agent]
    invitations,    \* org_invitations: rows, see Invitation
    widgetTokens,   \* widget_auth_tokens: rows, see WidgetToken
    refreshKeys,    \* user ids whose refresh:<id> key is in the cache
    issued,         \* ids and tokens handed out so far: none is drawn twice
    jwts,           \* access tokens held by clients: the claims they carry
    mailbox,        \* invitation tokens that reached their addressee
    requests        \* the handler each slot runs and where it stands

tables  == <<orgs, users, agents, access, invitations, widgetTokens, refreshKeys,
             issued>>
clients == <<jwts, mailbox>>
vars    == <<tables, clients, requests>>

-----------------------------------------------------------------------------
Role == {"owner", "admin", "member"}

\* ROLE_LEVEL and the comparison RolesGuard makes for @Roles(min).
RoleLevel(role) == CASE role = "owner" -> 3 [] role = "admin" -> 2 [] OTHER -> 1
HasRole(caller, min) == RoleLevel(caller.role) >= RoleLevel(min)

User       == [id: UserId, email: Email, org: Org, role: Role]
Claims     == [id: UserId, org: Org, role: Role]
AgentRow   == [id: Agent, org: Org]
AccessRow  == [user: UserId, agent: Agent]
WidgetToken == [token: Token, agent: Agent, email: Email, revoked: BOOLEAN,
                expired: BOOLEAN]
\* agents = {} stands for agent_restrictions NULL and for an empty array: the
\* code treats both alike.
Invitation == [org: Org, email: Email, role: {"admin", "member"}, token: Token,
               by: UserId, agents: SUBSET Agent,
               status: {"pending", "expired", "accepted"}]

\* Mutant of ClaimsOf: an entity loaded without its organization.
ClaimsNoOrg(user) == [id |-> user.id, role |-> user.role]

\* The payload issueTokens signs for a row of users.
ClaimsOf(user) == [id |-> user.id, org |-> user.org, role |-> user.role]

-----------------------------------------------------------------------------
(* Foreign keys and unique indexes of the schema.                          *)

UserExists(id)     == \E u \in users : u.id = id
EmailTaken(email)  == \E u \in users : u.email = email
AgentExists(a)     == \E row \in agents : row.id = a
\* Mutant of Insertable: no unique index on users.email.
InsertableById(user) == ~UserExists(user.id) /\ user.org \in orgs
Insertable(user)   == /\ ~EmailTaken(user.email)
                      /\ ~UserExists(user.id)
                      /\ user.org \in orgs
RowsFor(user, as)  == [user: {user}, agent: as]

\* checkUserAccess in the widget: no rows means every agent of the org.
MayUse(user, agent) ==
    \/ user.role \in {"owner", "admin"}
    \/ \A row \in access : row.user # user.id
    \/ [user |-> user.id, agent |-> agent] \in access

-----------------------------------------------------------------------------
(* Request records.                                                        *)

Idle == [pc |-> "idle"]
At(r, pc)        == requests[r].pc = pc
Continue(r, rec) == requests' = [requests EXCEPT ![r] = rec]
Respond(r)       == Continue(r, Idle)

=============================================================================
