------------------------------- MODULE MCTeam -------------------------------
(***************************************************************************)
(* Membership from a team that is already there: an owner, somebody whom    *)
(* the owner invited, and agents of which an invited member may use some.   *)
(* Spec reaches TeamInit by Register, Send, Mail and Accept, CreateAgent    *)
(* for each agent, and UpdateAgentAccess.                                   *)
(***************************************************************************)
EXTENDS Membership, TLC

CONSTANTS o1, u1, u2, e1, e2, t1,
          SecondRole,   \* the role of the one who was invited
          Granted       \* the agents a member is confined to

Owner  == [id |-> u1, email |-> e1, org |-> o1, role |-> "owner"]
Second == [id |-> u2, email |-> e2, org |-> o1, role |-> SecondRole]

TeamInit ==
    /\ orgs = {o1} /\ users = {Owner, Second}
    /\ agents = [id: Agent, org: {o1}]
    /\ access = RowsFor(u2, Granted)
    /\ invitations = {[org |-> o1, email |-> e2, role |-> SecondRole, token |-> t1,
                       by |-> u1, agents |-> {}, status |-> "accepted"]}
    /\ widgetTokens = {} /\ refreshKeys = {u1, u2}
    /\ issued = {u1, u2, t1} \cup Agent
    /\ jwts = {ClaimsOf(Owner), ClaimsOf(Second)}
    /\ mailbox = {t1}
    /\ requests = [r \in Req |-> Idle]

TeamSpec == TeamInit /\ [][Next]_vars

\* Nobody logs out: a bound on the run of offers, where keys matter to nothing.
KeysKept == {u1, u2} \subseteq refreshKeys

\* Only what TeamInit does not name may be exchanged.
Symmetry == Permutations(Req)
=============================================================================
