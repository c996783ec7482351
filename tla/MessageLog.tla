----------------------------- MODULE MessageLog -----------------------------
(***************************************************************************)
(* What the messages of a conversation promise: the conversation grows at   *)
(* its end only, and whoever pages through it has been shown a beginning.   *)
(***************************************************************************)
EXTENDS SequencesExt

CONSTANTS Conv, Msg, Reader

VARIABLES
    log,    \* the messages of each conversation, in order
    view    \* what each reader has been shown

Init == /\ log = [c \in Conv |-> <<>>]
        /\ view = [r \in Reader |-> <<>>]

\* A transaction may append to several conversations, several messages each.
Grow == /\ log' \in [Conv -> Seq(Msg)]
        /\ \A c \in Conv : IsPrefix(log[c], log'[c])
        /\ UNCHANGED view

Show == /\ view' \in [Reader -> Seq(Msg)]
        /\ \A r \in Reader : view'[r] # view[r] =>
              /\ IsPrefix(view[r], view'[r])
              /\ \E c \in Conv : IsPrefix(view'[r], log[c])
        /\ UNCHANGED log

Next == Grow \/ Show
Spec == Init /\ [][Next]_<<log, view>>
=============================================================================
