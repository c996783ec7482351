---------------------------- MODULE MCWorkspace ----------------------------
(***************************************************************************)
(* Workspace for an agent of one of two organizations; and, apart from it,  *)
(* Origins for lists of domains over two labels.                           *)
(***************************************************************************)
EXTENDS Workspace, Origins, TLC

CONSTANTS o1, com, app

AllHome == [a \in Agent |-> o1]
Symmetry == UNION {Permutations(S) : S \in {Req, Secret, Tool, Conv}}

Labels == {com, app}
Low(l) == [name |-> l, upper |-> FALSE]
Names  == {<<Low(com)>>, <<Low(com), Low(app)>>, <<Low(app)>>}
Capitals == {<<Low(com), [name |-> app, upper |-> TRUE]>>}
LocalHosts == {<<Low(app)>>}

Lists == [blank: {FALSE}, entries: SUBSET (Names \cup Capitals)]
            \cup {[blank |-> TRUE, entries |-> {}]}
Sites == [kind: {"url"}, host: Names] \cup [kind: {"absent", "malformed"}]

ASSUME GatesAssumption ==
    \A production \in BOOLEAN, row \in [active: BOOLEAN, allowed: Lists], site \in Sites :
        GatesCompare(production, row, site)
=============================================================================
