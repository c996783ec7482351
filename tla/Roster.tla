------------------------------- MODULE Roster -------------------------------
(***************************************************************************)
(* What accounts, invitations and the team promise together: who belongs   *)
(* to which organization, in which role.  An address has one account; an    *)
(* organization is founded with its owner, who never leaves and never       *)
(* changes role; everybody else joins an organization that has an owner.    *)
(***************************************************************************)
CONSTANTS Org, Email

VARIABLE roster     \* a set of [email, org, role]

Entry(e, o, role) == [email |-> e, org |-> o, role |-> role]
Free(e)           == \A m \in roster : m.email # e
HasOwner(o)       == \E m \in roster : m.org = o /\ m.role = "owner"
Lower             == {"admin", "member"}

Init == roster = {}

Found == \E e \in Email, o \in Org :
            /\ Free(e)
            /\ \A m \in roster : m.org # o
            /\ roster' = roster \cup {Entry(e, o, "owner")}

Join == \E e \in Email, o \in Org, role \in Lower :
            /\ Free(e)
            /\ HasOwner(o)
            /\ roster' = roster \cup {Entry(e, o, role)}

SetRole == \E m \in roster, role \in Lower :
            /\ m.role \in Lower
            /\ roster' = (roster \ {m}) \cup {Entry(m.email, m.org, role)}

Leave == \E m \in roster :
            /\ m.role \in Lower
            /\ roster' = roster \ {m}

Next == Found \/ Join \/ SetRole \/ Leave
Spec == Init /\ [][Next]_roster
=============================================================================
