-------------------------------- MODULE Team --------------------------------
(***************************************************************************)
(* TeamService: changeRole, removeMember, updateAgentAccess; the create and *)
(* remove of AgentsService, whose rows the access table refers to.         *)
(* The roles asked for by the controller (@Roles) and by the service are    *)
(* checked on the claims of the access token; the target is read once, by   *)
(* findMember, and never again before the write.                           *)
(***************************************************************************)
EXTENDS Tables

\* agentIds of a request to updateAgentAccess: {} for null, {as} for a list.
AgentIds == {{}} \cup {{as} : as \in SUBSET Agent}

TeamRequest ==
    [pc: {"reload", "insertUser", "updateRole", "removeTx"}, target: User]
        \cup [pc: {"deleteRows"}, user: UserId, ids: AgentIds]
        \cup [pc: {"selectRows"}, user: UserId, ids: AgentIds, rows: SUBSET AccessRow]
        \cup [pc: {"insertRows"}, user: UserId, ids: AgentIds, rows: SUBSET AccessRow,
              found: SUBSET AccessRow]

FindMember(caller) == {u \in users : u.org = caller.org}

\* Mutant of Changeable: the service leaves it all to RolesGuard.
AnyMember(caller, target) == TRUE
Changeable(caller, target) == target.id # caller.id /\ target.role # "owner"

\* changeRole: owner only, not oneself, not the owner.  The entity saved is
\* the row as it was read, with its new role.
ChangeRole(r) ==
    /\ At(r, "idle")
    /\ \E caller \in jwts, role \in {"admin", "member"} :
          /\ HasRole(caller, "owner")
          /\ \E target \in FindMember(caller) :
                /\ Changeable(caller, target)
                /\ Continue(r, [pc |-> "reload",
                                target |-> [target EXCEPT !.role = role]])
    /\ UNCHANGED <<tables, clients>>

\* TypeORM's save: it selects the row by id and, by what it finds, has
\* nothing to write, updates the columns that differ, or inserts the entity.
Reload(r) ==
    /\ At(r, "reload")
    /\ LET target == requests[r].target
       IN IF target \in users THEN Respond(r)
          ELSE Continue(r, [pc |-> IF UserExists(target.id) THEN "updateRole"
                                   ELSE "insertUser",
                            target |-> target])
    /\ UNCHANGED <<tables, clients>>

UpdateRole(r) ==
    /\ At(r, "updateRole")
    /\ LET target == requests[r].target
       IN users' = {IF u.id = target.id THEN [u EXCEPT !.role = target.role]
                    ELSE u : u \in users}
    /\ Respond(r)
    /\ UNCHANGED <<orgs, agents, access, invitations, widgetTokens, refreshKeys, issued,
                   clients>>

\* The member was removed since findMember read it: save brings it back,
\* unless its address was registered again.
InsertUser(r) ==
    /\ At(r, "insertUser")
    /\ LET target == requests[r].target
       IN users' = IF Insertable(target) THEN users \cup {target} ELSE users
    /\ Respond(r)
    /\ UNCHANGED <<orgs, agents, access, invitations, widgetTokens, refreshKeys, issued,
                   clients>>

\* removeMember: not oneself, not the owner; an admin removes members only.
RemoveMember(r) ==
    /\ At(r, "idle")
    /\ \E caller \in jwts :
          /\ HasRole(caller, "admin")
          /\ \E target \in FindMember(caller) :
                /\ target.id # caller.id
                /\ target.role # "owner"
                /\ caller.role = "admin" => target.role = "member"
                /\ Continue(r, [pc |-> "removeTx", target |-> target])
    /\ UNCHANGED <<tables, clients>>

\* DELETE of the user, by id alone, cascades to its access rows; a user named
\* by invited_by cannot be deleted (the key has no ON DELETE action).
Invited(id) == \E inv \in invitations : inv.by = id

\* The transaction first revokes the widget tokens of the member's address, for
\* the agents of the organization.
Revoked(t, target) ==
    IF t.email = target.email /\ [id |-> t.agent, org |-> target.org] \in agents
    THEN [t EXCEPT !.revoked = TRUE] ELSE t

RemoveTx(r) ==
    /\ At(r, "removeTx")
    /\ LET target == requests[r].target
       IN IF Invited(target.id)
          THEN UNCHANGED <<users, access, widgetTokens>>
          ELSE /\ widgetTokens' = {Revoked(t, target) : t \in widgetTokens}
               /\ users' = {u \in users : u.id # target.id}
               /\ access' = {row \in access : row.user # target.id}
    /\ Respond(r)
    /\ UNCHANGED <<orgs, agents, invitations, refreshKeys, issued, clients>>

-----------------------------------------------------------------------------
(* updateAgentAccess: DELETE, and what save makes of a list (SELECT, then   *)
(* INSERT what it did not find), in one READ COMMITTED transaction.  Here   *)
(* transactions end in any order, and those of removeMember and remove are  *)
(* one step, at their commit; which waits for which, and how Postgres       *)
(* breaks a circle, is in AgentAccess, whose steps are steps of this module. *)

UpdateAgentAccess(r) ==
    /\ At(r, "idle")
    /\ \E caller \in jwts, ids \in AgentIds :
          /\ HasRole(caller, "admin")
          /\ \E target \in FindMember(caller) :
                /\ target.role = "member"
                /\ Continue(r, [pc |-> "deleteRows", user |-> target.id, ids |-> ids])
    /\ UNCHANGED <<tables, clients>>

\* DELETE sees the rows committed when it starts.
DeleteRows(r) ==
    /\ At(r, "deleteRows")
    /\ LET req == requests[r]
       IN Continue(r, [pc |-> "selectRows", user |-> req.user, ids |-> req.ids,
                       rows |-> {row \in access : row.user = req.user}])
    /\ UNCHANGED <<tables, clients>>

\* Mutant of Visible: a query outside the transaction, which sees what it deleted.
VisibleOutside(req) == access
Visible(req)        == access \ req.rows
Asked(req)          == RowsFor(req.user, UNION req.ids)

\* A null or empty list asks for no rows and skips save.
SelectRows(r) ==
    /\ At(r, "selectRows")
    /\ LET req == requests[r]
       IN Continue(r, [pc |-> "insertRows", user |-> req.user, ids |-> req.ids,
                       rows |-> req.rows, found |-> Asked(req) \cap Visible(req)])
    /\ UNCHANGED <<tables, clients>>

\* INSERT and COMMIT.  A foreign key that is missing, or a row that was there
\* after all, rolls everything back.  A DELETE of others that saw the same rows
\* finds them gone.
InsertRows(r) ==
    /\ At(r, "insertRows")
    /\ LET req == requests[r]
           new == Asked(req) \ req.found
       IN IF /\ \A row \in new : AgentExists(row.agent) /\ UserExists(row.user)
             /\ new \cap (access \ req.rows) = {}
          THEN /\ access' = (access \ req.rows) \cup new
               /\ requests' =
                     [q \in Req |->
                        IF q = r THEN Idle
                        ELSE IF requests[q].pc \in {"selectRows", "insertRows"}
                        THEN [requests[q] EXCEPT !.rows = @ \ req.rows]
                        ELSE requests[q]]
          ELSE /\ UNCHANGED access
               /\ Respond(r)
    /\ UNCHANGED <<orgs, users, agents, invitations, widgetTokens, refreshKeys, issued,
                   clients>>

-----------------------------------------------------------------------------
(* AgentsService.create and remove: one write each.                        *)

CreateAgent ==
    /\ \E caller \in jwts, a \in Agent \ issued :
          /\ HasRole(caller, "admin")
          /\ agents' = agents \cup {[id |-> a, org |-> caller.org]}
          /\ issued' = issued \cup {a}
    /\ UNCHANGED <<orgs, users, access, invitations, widgetTokens, refreshKeys, clients,
                   requests>>

\* Its access rows and widget tokens go with it (ON DELETE CASCADE).
RemoveAgent ==
    /\ \E caller \in jwts, row \in agents :
          /\ HasRole(caller, "admin")
          /\ row.org = caller.org
          /\ agents' = agents \ {row}
          /\ access' = {a \in access : a.agent # row.id}
          /\ widgetTokens' = {t \in widgetTokens : t.agent # row.id}
    /\ UNCHANGED <<orgs, users, invitations, refreshKeys, issued, clients,
                   requests>>

TeamHandler(r) ==
    Reload(r) \/ UpdateRole(r) \/ InsertUser(r) \/ RemoveTx(r)
        \/ DeleteRows(r) \/ SelectRows(r) \/ InsertRows(r)
TeamCall(r) == ChangeRole(r) \/ RemoveMember(r) \/ UpdateAgentAccess(r)
=============================================================================
