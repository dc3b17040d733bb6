-------------------------------- MODULE MCApp -------------------------------
(* Instances of App for TLC: the servers the client may talk to.           *)
EXTENDS App

\* A server that implements README.md, 4.3, over a network that may fail and
\* that may deliver every response in two segments.
ProtocolServer ==
  [REGISTER |-> {"reply", "cut", "reset"},
   USERS |-> {"reply", "cut", "zeros", "reset"},
   SEND |-> {"reply", "cut", "reset"}, RECV |-> {"reply", "cut", "reset"}]

\* One over a network that does not fail, with lists that fit.
ReliableServer == [r \in {"REGISTER", "USERS", "SEND", "RECV"} |-> {"reply"}]

\* ServerApp: nothing is sent for SEND and RECV requests, and the
\* connection is closed.
ServerAppAnswers ==
  [REGISTER |-> {"reply"}, USERS |-> {"reply", "zeros"},
   SEND |-> {"eof"}, RECV |-> {"eof"}]
=============================================================================
