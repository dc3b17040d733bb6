---------------------------- MODULE MCChatSystem ----------------------------
(* Instance of ChatSystem for TLC.                                         *)
EXTENDS ChatSystem, TLC

CONSTANTS c1, c2, ann, bob

\* Two users with different names.  A client that is started again registers
\* its name a second time, so that equal names occur as well.
OneNameEach == c1 :> {ann} @@ c2 :> {bob}

\* Bound: once threads have raced, nothing is claimed of the lists any more, and
\* whether they were received in part is not followed up.
WholeListsAfterRace == raced => cut = {} /\ long = {}
=============================================================================
