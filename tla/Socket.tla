------------------------------- MODULE Socket -------------------------------
(***************************************************************************)
(* The TCP classes of tcp_lib: ServerSocket (server_socket.h), on which    *)
(* the server listens, and Socket (socket.h), one end of a connection.     *)
(*                                                                         *)
(* Each client calls connectB and then sendB for one message; on the       *)
(* server a thread takes the accepted descriptor and calls either          *)
(* receiveNb until it does not return 0, as handleRequest does, or         *)
(* receiveB.  An iteration of a blocking call's loop is one step.  An      *)
(* iteration that changes nothing (EALREADY, EAGAIN, an end of file, which *)
(* receiveNb also reports as 0) is a stuttering step: the loop spins.      *)
(*                                                                         *)
(* The byte at offset k of a client's message is named k + 1, so that      *)
(* bytes out of order, twice or from behind the buffer can be told apart.  *)
(***************************************************************************)
EXTENDS Naturals, Sequences

CONSTANTS
  Clients,     \* client processes, one connection each
  MsgLen,      \* bytes each client passes to sendB
  Want,        \* bytes the server asks receiveB or receiveNb for
  BufSize,     \* bytes the kernel buffers hold
  Backlog,     \* kListenBacklog
  MaxStarts    \* bound: times the server is started

ASSUME SizeAssumption  == MsgLen \in [Clients -> Nat] /\ Want \in Nat \ {0}
ASSUME BoundAssumption == BufSize \in Nat \ {0} /\ Backlog \in Nat \ {0}
ASSUME StartAssumption == MaxStarts \in Nat

VARIABLES
  bindable,    \* the server's address can be bound
  lst,         \* the listening socket
  starts,      \* times the server was started
  backlog,     \* established connections that accept() has not returned
  tcp,         \* the kernel's state of a client's connection
  wire,        \* bytes in the kernel buffers, in order
  client,      \* the client's call, or how it ended
  sent_count,  \* curr_count of sendB
  server,      \* the server thread's call, or how it ended
  recv_count,  \* curr_count of receiveB
  buffer       \* the memory behind receiveB's pData

kernel    == <<backlog, tcp, wire>>
sender    == <<client, sent_count>>
receiver  == <<server, recv_count, buffer>>
listening == <<bindable, lst, starts>>
vars      == <<listening, kernel, sender, receiver>>

-----------------------------------------------------------------------------
Init ==
  /\ bindable \in BOOLEAN
  /\ lst = "down"
  /\ starts = 0
  /\ backlog = << >>
  /\ tcp = [c \in Clients |-> "none"]
  /\ wire = [c \in Clients |-> << >>]
  /\ client = [c \in Clients |-> "idle"]
  /\ sent_count = [c \in Clients |-> 0]
  /\ server = [c \in Clients |-> "none"]
  /\ recv_count = [c \in Clients |-> 0]
  /\ buffer = [c \in Clients |-> [i \in 1 .. Want |-> 0]]

-----------------------------------------------------------------------------
(* ServerSocket.                                                           *)

Binds_WithoutReuse == bindable /\ \A c \in Clients : tcp[c] \notin {"shut", "reset"}

\* SO_REUSEADDR: connections of an earlier server that the kernel still
\* tears down do not keep the port.
Binds == bindable

\* The constructor.  A failure of bind is only logged; listen then binds the
\* socket to a free port, where nobody looks for it.  Only a failure of
\* listen ends the process.
ServerSocketCtor ==
  /\ lst = "down"
  /\ starts < MaxStarts
  /\ starts' = starts + 1
  /\ lst' \in {IF Binds THEN "listening" ELSE "elsewhere", "down"}
  /\ UNCHANGED <<bindable, kernel, sender, receiver>>

\* The kernel completes the handshake, refuses the connection, or drops the
\* request of a client until it gives up.
Handshake(c) ==
  /\ tcp[c] = "syn"
  /\ IF lst = "listening" /\ Len(backlog) < Backlog
     THEN /\ tcp' = [tcp EXCEPT ![c] = "established"]
          /\ backlog' = Append(backlog, c)
     ELSE /\ tcp' = [tcp EXCEPT ![c] = "refused"]
          /\ UNCHANGED backlog
  /\ UNCHANGED <<listening, wire, sender, receiver>>

\* accept() returns a connection and a thread takes it over.  getConnection
\* returns FALSE otherwise, and its caller tries again.
GetConnection ==
  /\ lst = "listening"
  /\ backlog # << >>
  /\ \E call \in {"receiveNb", "receiveB"} :
       server' = [server EXCEPT ![Head(backlog)] = call]
  /\ backlog' = Tail(backlog)
  /\ UNCHANGED <<listening, tcp, wire, sender, recv_count, buffer>>

\* What close() of the server's end does to a connection in state s: bytes
\* that were not read make it a reset.
Closed(s, bytes) ==
  IF s # "established" THEN s ELSE IF bytes = << >> THEN "shut" ELSE "reset"

Waiting(c) == \E i \in 1 .. Len(backlog) : backlog[i] = c

Serving(c) == server[c] \notin {"none", "closed", "dead"}

\* The server process ends: ~ServerSocket resets the connections it has not
\* accepted, ~Socket closes the others.
ServerDies ==
  /\ lst # "down"
  /\ lst' = "down"
  /\ tcp' = [c \in Clients |->
               IF Waiting(c) THEN "reset" ELSE
               IF Serving(c) THEN Closed(tcp[c], wire[c]) ELSE tcp[c]]
  /\ wire' = [c \in Clients |-> << >>]
  /\ backlog' = << >>
  /\ server' = [c \in Clients |-> IF Serving(c) THEN "dead" ELSE server[c]]
  /\ UNCHANGED <<bindable, starts, sender, recv_count, buffer>>

-----------------------------------------------------------------------------
(* Socket: the client's end.                                               *)

\* The constructor made a non-blocking socket; connectB starts.
ConnectB(c) ==
  /\ client[c] = "idle"
  /\ client' = [client EXCEPT ![c] = "connectB"]
  /\ UNCHANGED <<listening, kernel, sent_count, receiver>>

\* One connectNb of connectB's loop.  The first call starts the handshake
\* (EINPROGRESS); a call after a failure reports it once, and the next one
\* starts again; a call on an established connection ends the loop.
ConnectNb(c) ==
  /\ client[c] = "connectB"
  /\ \/ /\ tcp[c] = "none"
        /\ tcp' = [tcp EXCEPT ![c] = "syn"]
        /\ UNCHANGED <<client, server>>
     \/ /\ tcp[c] \in {"refused", "reset"}
        /\ tcp' = [tcp EXCEPT ![c] = "none"]
        /\ server' = [server EXCEPT ![c] = "none"]
        /\ UNCHANGED client
     \/ /\ tcp[c] \in {"established", "shut"}
        /\ client' = [client EXCEPT ![c] = "connected"]
        /\ UNCHANGED <<tcp, server>>
  /\ UNCHANGED <<listening, backlog, wire, sent_count, recv_count, buffer>>

More_OffByOne(curr_count, target_count) == curr_count <= target_count

\* The condition of the loops of sendB and receiveB.
More(curr_count, target_count) == curr_count < target_count

\* sendB starts; of an empty message nothing is sent.
SendB(c) ==
  /\ client[c] = "connected"
  /\ client' = [client EXCEPT ![c] =
       IF More(sent_count[c], MsgLen[c]) THEN "sendB" ELSE "true"]
  /\ UNCHANGED <<listening, kernel, sent_count, receiver>>

Remaining_Whole(curr_count, target_count) == target_count

Remaining(curr_count, target_count) == target_count - curr_count

Chunk_NoOffset(curr_count, n) == [i \in 1 .. n |-> i]

\* The n bytes at pData + curr_count.
Chunk(curr_count, n) == [i \in 1 .. n |-> curr_count + i]

\* sendB after sendNb returned n.
Sent(c, n) ==
  /\ sent_count' = [sent_count EXCEPT ![c] = @ + n]
  /\ client' = [client EXCEPT ![c] =
       IF More(sent_count[c] + n, MsgLen[c]) THEN "sendB" ELSE "true"]

\* One sendNb of sendB's loop: the kernel takes as many bytes as it likes.
\* Once the peer has closed, bytes go nowhere and are answered by a reset;
\* after the reset send() fails (sendB returns FALSE) or raises SIGPIPE.
SendNb(c) ==
  /\ client[c] = "sendB"
  /\ \/ /\ tcp[c] = "established"
        /\ \E n \in 1 .. Remaining(sent_count[c], MsgLen[c]) :
             /\ Len(wire[c]) + n <= BufSize
             /\ wire' = [wire EXCEPT ![c] = @ \o Chunk(sent_count[c], n)]
             /\ Sent(c, n)
        /\ UNCHANGED tcp
     \/ /\ tcp[c] = "shut"
        /\ \E n \in 1 .. Remaining(sent_count[c], MsgLen[c]) : Sent(c, n)
        /\ \E s \in {"shut", "reset"} : tcp' = [tcp EXCEPT ![c] = s]
        /\ UNCHANGED wire
     \/ /\ tcp[c] = "reset"
        /\ \E end \in {"false", "killed"} : client' = [client EXCEPT ![c] = end]
        /\ UNCHANGED <<tcp, wire, sent_count>>
  /\ UNCHANGED <<listening, backlog, receiver>>

\* ~Socket: what is in the kernel buffers is still delivered, and then the
\* end of file.
CloseClient(c) ==
  /\ client[c] \in {"true", "false"}
  /\ client' = [client EXCEPT ![c] = "closed"]
  /\ UNCHANGED <<listening, kernel, sent_count, receiver>>

\* The client process ends in the middle of a call.  Its kernel closes the
\* connection, or the connection is aborted and bytes under way are lost.
ClientDies(c) ==
  /\ client[c] \in {"connectB", "connected", "sendB"}
  /\ client' = [client EXCEPT ![c] = "died"]
  /\ \/ /\ tcp' = [tcp EXCEPT ![c] = IF @ = "syn" THEN "none" ELSE @]
        /\ UNCHANGED wire
     \/ /\ tcp[c] = "established"
        /\ tcp' = [tcp EXCEPT ![c] = "aborted"]
        /\ \E k \in 0 .. Len(wire[c]) :
             wire' = [wire EXCEPT ![c] = SubSeq(@, 1, k)]
  /\ UNCHANGED <<listening, backlog, sent_count, receiver>>

-----------------------------------------------------------------------------
(* Socket: the server's end.                                               *)

Placed_NoOffset(buf, curr_count, bytes) ==
  [i \in DOMAIN buf |-> IF i \in DOMAIN bytes THEN bytes[i] ELSE buf[i]]

\* recv() writes the bytes to pData + curr_count.
Placed(buf, curr_count, bytes) ==
  [i \in DOMAIN buf |->
     IF i - curr_count \in DOMAIN bytes THEN bytes[i - curr_count] ELSE buf[i]]

\* recv() hands over n bytes.
Receive(c, n) ==
  /\ n <= Len(wire[c])
  /\ buffer' = [buffer EXCEPT ![c] =
       Placed(@, recv_count[c], SubSeq(wire[c], 1, n))]
  /\ wire' = [wire EXCEPT ![c] = SubSeq(@, n + 1, Len(@))]
  /\ recv_count' = [recv_count EXCEPT ![c] = @ + n]

\* recv() fails when a connection was aborted and nothing is left to read.
ReceiveError(c) ==
  /\ tcp[c] = "aborted"
  /\ wire[c] = << >>
  /\ server' = [server EXCEPT ![c] = "false"]
  /\ UNCHANGED <<wire, recv_count, buffer>>

\* receiveNb, repeated until it does not return 0.
ReceiveNb(c) ==
  /\ server[c] = "receiveNb"
  /\ \/ /\ \E n \in 1 .. Want : Receive(c, n)
        /\ server' = [server EXCEPT ![c] = "got"]
     \/ ReceiveError(c)
  /\ UNCHANGED <<listening, backlog, tcp, sender>>

\* One receiveNb of receiveB's loop.
ReceiveB(c) ==
  /\ server[c] = "receiveB"
  /\ \/ \E n \in 1 .. Remaining(recv_count[c], Want) :
          /\ Receive(c, n)
          /\ server' = [server EXCEPT ![c] =
               IF More(recv_count[c] + n, Want) THEN "receiveB" ELSE "true"]
     \/ ReceiveError(c)
  /\ UNCHANGED <<listening, backlog, tcp, sender>>

\* ~Socket at the end of the thread.
CloseServer(c) ==
  /\ server[c] \in {"got", "true", "false"}
  /\ server' = [server EXCEPT ![c] = "closed"]
  /\ tcp' = [tcp EXCEPT ![c] = Closed(@, wire[c])]
  /\ wire' = [wire EXCEPT ![c] = << >>]
  /\ UNCHANGED <<listening, backlog, sender, recv_count, buffer>>

-----------------------------------------------------------------------------
\* What the clients' and the server's threads do inside a call.
ClientCall(c) == ConnectNb(c) \/ SendNb(c)
ServerCall(c) == ReceiveNb(c) \/ ReceiveB(c) \/ CloseServer(c)

Next ==
  \/ ServerSocketCtor \/ GetConnection \/ ServerDies
  \/ \E c \in Clients :
       \/ ConnectB(c) \/ SendB(c) \/ CloseClient(c) \/ ClientDies(c)
       \/ Handshake(c)
       \/ ClientCall(c)
       \/ ServerCall(c)

Spec == Init /\ [][Next]_vars

\* The loops poll, the kernel answers a connection request and the server's
\* threads run to their end.  Nobody has to start a call or a server.
Fairness ==
  /\ WF_vars(GetConnection)
  /\ \A c \in Clients :
       WF_vars(Handshake(c)) /\ WF_vars(ClientCall(c)) /\ WF_vars(ServerCall(c))

FairSpec == Spec /\ Fairness

-----------------------------------------------------------------------------
(* Properties                                                              *)

\* Types.  No byte comes from behind the message or goes behind the buffer,
\* and a connection in the queue of accept() has no thread yet.
TypeOK ==
  /\ bindable \in BOOLEAN
  /\ lst \in {"down", "listening", "elsewhere"}
  /\ starts \in 0 .. MaxStarts
  /\ backlog \in Seq(Clients) /\ Len(backlog) <= Backlog
  /\ tcp \in [Clients -> {"none", "syn", "refused", "established", "shut",
                          "reset", "aborted"}]
  /\ wire \in [Clients -> Seq(Nat)]
  /\ client \in [Clients -> {"idle", "connectB", "connected", "sendB", "true",
                             "false", "killed", "closed", "died"}]
  /\ sent_count \in [Clients -> Nat]
  /\ server \in [Clients -> {"none", "receiveNb", "receiveB", "got", "true",
                             "false", "closed", "dead"}]
  /\ recv_count \in [Clients -> 0 .. Want]
  /\ buffer \in [Clients -> [1 .. Want -> Nat]]
  /\ \A c \in Clients :
       sent_count[c] <= MsgLen[c] /\ (Waiting(c) => server[c] = "none")

Received(c) == SubSeq(buffer[c], 1, recv_count[c])

\* What receiveNb and receiveB leave in the caller's buffer is a beginning
\* of the message, and the whole of what was asked for when receiveB returns
\* TRUE: however the kernel splits the stream, and whatever breaks it.
BytesInOrder ==
  \A c \in Clients :
    /\ Received(c) = Chunk(0, recv_count[c])
    /\ server[c] = "true" => recv_count[c] = Want

\* As long as a connection stands, every byte that sendB counts as sent is
\* in the receiver's buffer or on its way, once and in order: TRUE means that
\* the whole message is.
BytesAccounted ==
  \A c \in Clients :
    tcp[c] = "established" =>
      /\ Received(c) \o wire[c] = Chunk(0, sent_count[c])
      /\ client[c] = "true" => sent_count[c] = MsgLen[c]

\* connectB returns when a server stays up on an address it may use: also
\* when the server was not there at first, had a full queue, or was started
\* again while the kernel was still tearing down its old connections.
ConnectReturns ==
  <>[](lst # "down" /\ bindable) =>
    \A c \in Clients : client[c] = "connectB" ~> client[c] # "connectB"

\* sendB returns (or its process ends), although the peer may be slow, read
\* only a part of the message, close the connection or die.
SendReturns == \A c \in Clients : client[c] = "sendB" ~> client[c] # "sendB"

\* receiveB returns once the peer is in sendB, unless the peer has handed over
\* fewer bytes than are waited for and sends no more: it died, or the whole
\* message was shorter.  Then receiveB waits for ever, on the end of file too
\* when the peer closes the connection as usual.
ReceiveReturns ==
  \A c \in Clients :
    server[c] = "receiveB" /\ client[c] = "sendB" ~>
      \/ server[c] # "receiveB"
      \/ client[c] \in {"died", "true", "closed"} /\ sent_count[c] < Want

-----------------------------------------------------------------------------
(* The inductive invariant behind BytesInOrder and BytesAccounted.         *)

\* A connection waits for accept() once, and stands or was aborted by the
\* client; one that stands waits or is served.
QueueShape ==
  /\ \A i, j \in 1 .. Len(backlog) : backlog[i] = backlog[j] => i = j
  /\ \A c \in Clients :
       /\ Waiting(c) => tcp[c] \in {"established", "aborted"}
       /\ tcp[c] = "established" => Serving(c) \/ Waiting(c)
       /\ tcp[c] \in {"none", "syn", "refused"} => server[c] = "none"

\* How far a sending call can have come: nothing was sent before there was a
\* connection.
SenderShape ==
  \A c \in Clients :
    /\ tcp[c] = "syn" => client[c] = "connectB"
    /\ client[c] \in {"idle", "connectB", "connected"} => sent_count[c] = 0
    /\ tcp[c] \in {"none", "syn", "refused"} => sent_count[c] = 0
    /\ client[c] = "true" => sent_count[c] = MsgLen[c]

\* How far a receiving call can have come.
ReceiverShape ==
  \A c \in Clients :
    /\ server[c] \in {"none", "receiveNb"} => recv_count[c] = 0
    /\ server[c] = "true" => recv_count[c] = Want

\* The stream: the buffer holds the bytes up to recv_count, the kernel those
\* that follow, and together, while the connection stands, all that were sent.
StreamShape ==
  \A c \in Clients :
    /\ \A i \in 1 .. recv_count[c] : buffer[c][i] = i
    /\ \A i \in 1 .. Len(wire[c]) : wire[c][i] = recv_count[c] + i
    /\ recv_count[c] + Len(wire[c]) <= sent_count[c]
    /\ tcp[c] = "established" => recv_count[c] + Len(wire[c]) = sent_count[c]
    /\ tcp[c] \notin {"established", "aborted"} => wire[c] = << >>

StreamInv ==
  TypeOK /\ QueueShape /\ SenderShape /\ ReceiverShape /\ StreamShape

=============================================================================
