---------------------------- MODULE ChatService -----------------------------
(***************************************************************************)
(* What the store-and-forward part of the chat system promises a user      *)
(* (README.md, 3.0): messages for user u wait in box[u], in the order in   *)
(* which the server accepted them, and move to got[u] in that order.  None *)
(* is delivered twice, none to somebody else.  A batch that is on its way  *)
(* when the connection fails is lost as a whole.                           *)
(***************************************************************************)
EXTENDS Naturals, Sequences

CONSTANTS Users, Messages

VARIABLES box, got

Init ==
  /\ box = [u \in Users |-> << >>]
  /\ got = [u \in Users |-> << >>]

Accept(u, m) ==
  /\ box' = [box EXCEPT ![u] = Append(@, m)]
  /\ UNCHANGED got

Deliver(u, n) ==
  /\ got' = [got EXCEPT ![u] = @ \o SubSeq(box[u], 1, n)]
  /\ box' = [box EXCEPT ![u] = SubSeq(@, n + 1, Len(@))]

Lose(u, n) ==
  /\ box' = [box EXCEPT ![u] = SubSeq(@, n + 1, Len(@))]
  /\ UNCHANGED got

\* A restart of the server forgets all messages.  What clients that still use
\* their old IDs see from then on is outside of the promise.
Restart ==
  /\ box' = [u \in Users |-> << >>]
  /\ got' = [u \in Users |-> << >>]

Next ==
  \/ Restart
  \/ \E u \in Users :
       \/ \E m \in Messages : Accept(u, m)
       \/ \E n \in 1 .. Len(box[u]) : Deliver(u, n) \/ Lose(u, n)

Spec == Init /\ [][Next]_<<box, got>>
=============================================================================
