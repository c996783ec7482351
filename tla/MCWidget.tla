------------------------------ MODULE MCWidget ------------------------------
(***************************************************************************)
(* WidgetAuth for an owner, and a member who may use some of the agents.    *)
(***************************************************************************)
EXTENDS WidgetAuth, TLC

CONSTANTS o1, u1, u2, e1, e2,
          Granted,      \* the agents the member may use; all, if there are none
          Removing      \* whether the owner is there to remove members and agents

Owner  == [id |-> u1, email |-> e1, org |-> o1, role |-> "owner"]
Member == [id |-> u2, email |-> e2, org |-> o1, role |-> "member"]

WidgetInit ==
    /\ orgs = {o1} /\ users = {Owner, Member}
    /\ agents = [id: Agent, org: {o1}]
    /\ access = RowsFor(u2, Granted)
    /\ invitations = {} /\ widgetTokens = {} /\ refreshKeys = {}
    /\ issued = {u1, u2} \cup Agent
    /\ jwts = IF Removing THEN {ClaimsOf(Owner)} ELSE {}
    /\ mailbox = {}
    /\ requests = [r \in Req |-> Idle]
    /\ otps = {} /\ made = 0 /\ cache = {}
    /\ reach = [a \in Agent |-> "private"]
    /\ tries = [c \in Code |-> 0] /\ lost = [c \in Code |-> 0]

WidgetSpec == WidgetInit /\ [][Next]_all

Symmetry == Permutations(Req) \cup Permutations(Token)
=============================================================================
