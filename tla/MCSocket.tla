------------------------------ MODULE MCSocket ------------------------------
(* Instance of Socket for TLC.                                             *)
EXTENDS Socket, TLC

CONSTANTS c1, c2

\* One message is longer than what the receiver asks for, one shorter.
LongAndShort == c1 :> 3 @@ c2 :> 1
=============================================================================
