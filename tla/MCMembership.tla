---------------------------- MODULE MCMembership ----------------------------
(***************************************************************************)
(* Instances of Membership for TLC.                                        *)
(***************************************************************************)
EXTENDS Membership, TLC

Symmetry == Permutations(Org) \cup Permutations(UserId) \cup Permutations(Email)
              \cup Permutations(Agent) \cup Permutations(Token)
              \cup Permutations(Req)

=============================================================================
