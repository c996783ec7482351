------------------------------ MODULE MCMessages ------------------------------
(***************************************************************************)
(* Two conversations, each with a lock of its own.  Where hashtext gives    *)
(* both the same lock there is only more waiting.                          *)
(***************************************************************************)
EXTENDS MessageSequence, TLC

CONSTANTS c1, c2, k1, k2

MCLockKey == c1 :> k1 @@ c2 :> k2
=============================================================================
