---------------------------- MODULE Socket_proofs ---------------------------
(* Proofs about Socket, for every value of its constants.                  *)
EXTENDS Socket, SequenceTheorems, TLAPS

-----------------------------------------------------------------------------
(* Pieces of the stream.                                                   *)

\* A chunk is a sequence of consecutive bytes.
LEMMA ChunkProperties ==
  ASSUME NEW k \in Nat, NEW n \in Nat
  PROVE  /\ Chunk(k, n) \in Seq(Nat)
         /\ Len(Chunk(k, n)) = n
         /\ \A i \in 1 .. n : Chunk(k, n)[i] = k + i
  BY SizeAssumption DEF Chunk

\* send() puts bytes behind those that wait: bytes that follow each other,
\* from the r-th on, still do.
LEMMA StreamGrows ==
  ASSUME NEW w \in Seq(Nat), NEW r \in Nat, NEW n \in Nat,
         \A i \in 1 .. Len(w) : w[i] = r + i
  PROVE  LET v == w \o Chunk(r + Len(w), n)
         IN  /\ v \in Seq(Nat)
             /\ Len(v) = Len(w) + n
             /\ \A i \in 1 .. Len(v) : v[i] = r + i
<1> DEFINE u == Chunk(r + Len(w), n)
<1>1. u \in Seq(Nat) /\ Len(u) = n /\ \A i \in 1 .. n : u[i] = r + Len(w) + i
  <2>1. r + Len(w) \in Nat
    OBVIOUS
  <2> QED
    BY <2>1, ChunkProperties
<1> HIDE DEF u
<1>2. /\ w \o u \in Seq(Nat)
      /\ Len(w \o u) = Len(w) + Len(u)
      /\ \A i \in 1 .. Len(w) + Len(u) :
           (w \o u)[i] = IF i <= Len(w) THEN w[i] ELSE u[i - Len(w)]
  BY <1>1, ConcatProperties
<1>3. Len(w) \in Nat
  OBVIOUS
<1>4. ASSUME NEW i \in 1 .. Len(w) + n
      PROVE  (w \o u)[i] = r + i
  <2>1. CASE i <= Len(w)
    BY <1>1, <1>2, <1>3, <2>1
  <2>2. CASE ~(i <= Len(w))
    <3>1. i - Len(w) \in 1 .. n
      BY <1>3, <2>2
    <3> QED
      BY <1>1, <1>2, <1>3, <2>2, <3>1
  <2> QED
    BY <2>1, <2>2
<1> QED
  BY <1>1, <1>2, <1>4 DEF u

\* recv() takes n bytes from the front of those that wait.
LEMMA BytesLeft ==
  ASSUME NEW S, NEW w \in Seq(S), NEW n \in 0 .. Len(w)
  PROVE  /\ SubSeq(w, n + 1, Len(w)) \in Seq(S)
         /\ Len(SubSeq(w, n + 1, Len(w))) = Len(w) - n
         /\ \A i \in 1 .. Len(w) - n : SubSeq(w, n + 1, Len(w))[i] = w[n + i]
<1>1. SubSeq(w, n + 1, Len(w)) \in Seq(S)
  OBVIOUS
<1>2. Len(SubSeq(w, n + 1, Len(w))) = Len(w) - n
  OBVIOUS
<1>3. \A i \in 1 .. Len(w) - n : SubSeq(w, n + 1, Len(w))[i] = w[n + i]
  OBVIOUS
<1> QED
  BY <1>1, <1>2, <1>3

LEMMA BytesTaken ==
  ASSUME NEW S, NEW w \in Seq(S), NEW n \in 0 .. Len(w)
  PROVE  /\ SubSeq(w, 1, n) \in Seq(S)
         /\ Len(SubSeq(w, 1, n)) = n
         /\ DOMAIN SubSeq(w, 1, n) = 1 .. n
         /\ \A i \in 1 .. n : SubSeq(w, 1, n)[i] = w[i] /\ w[i] \in S
<1>1. SubSeq(w, 1, n) \in Seq(S)
  OBVIOUS
<1>2. Len(SubSeq(w, 1, n)) = n
  OBVIOUS
<1>3. \A i \in 1 .. n : SubSeq(w, 1, n)[i] = w[i] /\ w[i] \in S
  OBVIOUS
<1> QED
  BY <1>1, <1>2, <1>3, LenProperties

\* ... and puts them behind the bytes that were received before.
LEMMA PlacedBytes ==
  ASSUME NEW b \in [1 .. Want -> Nat], NEW r \in 0 .. Want,
         NEW w \in Seq(Nat), NEW n \in 0 .. Len(w), r + n <= Want
  PROVE  LET p == Placed(b, r, SubSeq(w, 1, n))
         IN  /\ p \in [1 .. Want -> Nat]
             /\ \A i \in 1 .. r : p[i] = b[i]
             /\ \A i \in r + 1 .. r + n : p[i] = w[i - r]
<1> DEFINE v == SubSeq(w, 1, n)
<1>1. /\ DOMAIN v = 1 .. n
      /\ \A i \in 1 .. n : v[i] = w[i] /\ v[i] \in Nat
  BY BytesTaken, SizeAssumption
<1> HIDE DEF v
<1>2. ASSUME NEW i \in 1 .. Want
      PROVE  /\ i - r \in DOMAIN v <=> i \in r + 1 .. r + n
             /\ i - r \in DOMAIN v => v[i - r] = w[i - r] /\ v[i - r] \in Nat
  BY <1>1, SizeAssumption
<1>3. Placed(b, r, v) =
        [i \in 1 .. Want |-> IF i - r \in DOMAIN v THEN v[i - r] ELSE b[i]]
  BY DEF Placed
<1>4. Placed(b, r, v) \in [1 .. Want -> Nat]
  BY <1>2, <1>3
<1>5. \A i \in 1 .. r : Placed(b, r, v)[i] = b[i]
  BY <1>2, <1>3, SizeAssumption
<1>6. \A i \in r + 1 .. r + n : Placed(b, r, v)[i] = w[i - r]
  BY <1>2, <1>3, SizeAssumption
<1> QED
  BY <1>4, <1>5, <1>6 DEF v

-----------------------------------------------------------------------------
(* The invariant.                                                          *)

LEMMA InitStream == Init => StreamInv
<1> SUFFICES ASSUME Init PROVE StreamInv
  OBVIOUS
<1>1. TypeOK
  <2>1. [i \in 1 .. Want |-> 0] \in [1 .. Want -> Nat]
    BY SizeAssumption
  <2>2. wire \in [Clients -> Seq(Nat)] /\ backlog \in Seq(Clients)
    BY DEF Init
  <2> QED
    BY <2>1, <2>2, SizeAssumption, BoundAssumption, StartAssumption
       DEF Init, TypeOK
<1>2. QueueShape /\ SenderShape /\ ReceiverShape /\ StreamShape
  BY SizeAssumption
     DEF Init, QueueShape, SenderShape, ReceiverShape, StreamShape, Waiting
<1> QED
  BY <1>1, <1>2 DEF StreamInv

\* The listening socket's own steps.
LEMMA ServerSocketCtorStep == StreamInv /\ ServerSocketCtor => StreamInv'
<1> SUFFICES ASSUME StreamInv, ServerSocketCtor PROVE StreamInv'
  OBVIOUS
<1> USE DEF StreamInv, ServerSocketCtor, kernel, sender, receiver
<1>1. TypeOK'
  BY StartAssumption DEF TypeOK, Waiting
<1>2. QueueShape' /\ SenderShape' /\ ReceiverShape' /\ StreamShape'
  BY DEF QueueShape, SenderShape, ReceiverShape, StreamShape, Waiting, Serving
<1> QED
  BY <1>1, <1>2

\* accept() takes the first connection out of the queue, where it was once.
LEMMA GetConnectionStep == StreamInv /\ GetConnection => StreamInv'
<1> SUFFICES ASSUME StreamInv, GetConnection PROVE StreamInv'
  OBVIOUS
<1> USE DEF StreamInv, GetConnection, sender, listening
<1> DEFINE h == Head(backlog)
<1>1. /\ h = backlog[1]
      /\ 1 \in 1 .. Len(backlog)
      /\ h \in Clients
      /\ Len(backlog) \in Nat
      /\ backlog' \in Seq(Clients)
      /\ Len(backlog') = Len(backlog) - 1
      /\ \A i \in 1 .. Len(backlog') : backlog'[i] = backlog[i + 1]
  BY DEF TypeOK
<1>2. PICK call \in {"receiveNb", "receiveB"} : server' = [server EXCEPT ![h] = call]
  OBVIOUS
<1> HIDE DEF h
<1>3. Waiting(h)
  BY <1>1 DEF Waiting
<1>4. ASSUME NEW c \in Clients
      PROVE  Waiting(c)' <=> Waiting(c) /\ c # h
  <2>1. ASSUME NEW i \in 1 .. Len(backlog'), backlog'[i] = c
        PROVE  Waiting(c) /\ c # h
    <3>1. i + 1 \in 1 .. Len(backlog) /\ i + 1 # 1 /\ backlog[i + 1] = c
      BY <1>1, <2>1
    <3> QED
      BY <1>1, <3>1 DEF QueueShape, Waiting
  <2>2. ASSUME NEW i \in 1 .. Len(backlog), backlog[i] = c, c # h
        PROVE  Waiting(c)'
    <3>1. i # 1
      BY <1>1, <2>2
    <3>2. i - 1 \in 1 .. Len(backlog') /\ backlog'[i - 1] = c
      BY <1>1, <2>2, <3>1
    <3> QED
      BY <3>2 DEF Waiting
  <2> QED
    BY <2>1, <2>2 DEF Waiting
<1>5. TypeOK'
  BY <1>1, <1>2, <1>4, BoundAssumption DEF TypeOK
<1>6. QueueShape'
  <2>1. \A i, j \in 1 .. Len(backlog') : backlog'[i] = backlog'[j] => i = j
    <3> SUFFICES ASSUME NEW i \in 1 .. Len(backlog'), NEW j \in 1 .. Len(backlog'),
                        backlog'[i] = backlog'[j]
                 PROVE  i = j
      OBVIOUS
    <3>1. i + 1 \in 1 .. Len(backlog) /\ j + 1 \in 1 .. Len(backlog)
      BY <1>1
    <3>2. i + 1 = j + 1
      BY <1>1, <3>1 DEF QueueShape
    <3> QED
      BY <1>1, <3>2
  <2>2. ASSUME NEW c \in Clients
        PROVE  /\ Waiting(c)' => tcp'[c] \in {"established", "aborted"}
               /\ tcp'[c] = "established" => Serving(c)' \/ Waiting(c)'
               /\ tcp'[c] \in {"none", "syn", "refused"} => server'[c] = "none"
    BY <1>2, <1>3, <1>4, <1>1 DEF QueueShape, Serving, TypeOK
  <2> QED
    BY <2>1, <2>2 DEF QueueShape
<1>7. ReceiverShape'
  BY <1>1, <1>2, <1>3 DEF TypeOK, ReceiverShape
<1>8. SenderShape' /\ StreamShape'
  BY DEF SenderShape, StreamShape
<1> QED
  BY <1>5, <1>6, <1>7, <1>8

\* When the server dies every connection it had is shut or reset, and none
\* stands any more.
LEMMA ServerDiesStep == StreamInv /\ ServerDies => StreamInv'
<1> SUFFICES ASSUME StreamInv, ServerDies PROVE StreamInv'
  OBVIOUS
<1> USE DEF StreamInv, ServerDies, sender
<1>1. ASSUME NEW c \in Clients
      PROVE  /\ tcp'[c] \in {tcp[c], "reset", "shut"}
             /\ tcp[c] \in {"none", "syn", "refused"} => tcp'[c] = tcp[c]
             /\ tcp'[c] # "established"
             /\ wire'[c] = << >>
             /\ ~Waiting(c)'
             /\ server'[c] \in {server[c], "dead"}
             /\ server[c] = "none" => server'[c] = "none"
  <2>1. /\ tcp'[c] = IF Waiting(c) THEN "reset" ELSE
                     IF Serving(c) THEN Closed(tcp[c], wire[c]) ELSE tcp[c]
        /\ wire'[c] = << >> /\ backlog' = << >>
        /\ server'[c] = IF Serving(c) THEN "dead" ELSE server[c]
    BY DEF TypeOK
  <2>2. /\ Waiting(c) => tcp[c] \in {"established", "aborted"}
        /\ tcp[c] = "established" => Serving(c) \/ Waiting(c)
        /\ tcp[c] \in {"none", "syn", "refused"} => server[c] = "none"
    BY DEF QueueShape
  <2>3. /\ tcp[c] = "established" => Closed(tcp[c], wire[c]) \in {"shut", "reset"}
        /\ tcp[c] # "established" => Closed(tcp[c], wire[c]) = tcp[c]
    BY DEF Closed
  <2>4. server[c] = "none" => ~Serving(c)
    BY DEF Serving
  <2>5. ~Waiting(c)'
    BY <2>1 DEF Waiting
  <2> QED
    BY <2>1, <2>2, <2>3, <2>4, <2>5
<1>2. TypeOK'
  <2>1. tcp' \in [Clients -> {"none", "syn", "refused", "established", "shut",
                              "reset", "aborted"}]
    BY <1>1 DEF TypeOK
  <2>2. wire' \in [Clients -> Seq(Nat)] /\ backlog' \in Seq(Clients)
    OBVIOUS
  <2> QED
    BY <1>1, <2>1, <2>2, BoundAssumption DEF TypeOK
<1>3. QueueShape'
  <2>1. \A i \in 1 .. Len(backlog') : FALSE
    OBVIOUS
  <2>2. \A c \in Clients :
          tcp'[c] \in {"none", "syn", "refused"} => server'[c] = "none"
    BY <1>1 DEF QueueShape
  <2> QED
    BY <1>1, <2>1, <2>2 DEF QueueShape
<1>4. SenderShape'
  BY <1>1 DEF SenderShape, TypeOK
<1>5. ReceiverShape'
  BY <1>1 DEF ReceiverShape, TypeOK
<1>6. StreamShape'
  <2>1. \A c \in Clients : recv_count[c] + Len(wire[c]) >= recv_count[c]
    BY DEF TypeOK
  <2> QED
    BY <1>1, <2>1 DEF StreamShape, TypeOK
<1> QED
  BY <1>2, <1>3, <1>4, <1>5, <1>6

-----------------------------------------------------------------------------
(* The client's end.                                                       *)

\* The handshake puts the connection, which nobody has used, into the queue.
LEMMA HandshakeStep ==
  ASSUME StreamInv, NEW c \in Clients, Handshake(c)
  PROVE  StreamInv'
<1> USE DEF StreamInv, sender, receiver, listening
<1>0. /\ tcp[c] = "syn"
      /\ UNCHANGED <<listening, wire, sender, receiver>>
  BY DEF Handshake
<1>1. /\ sent_count[c] = 0 /\ recv_count[c] = 0
      /\ wire[c] = << >> /\ Len(wire[c]) = 0
      /\ server[c] = "none" /\ ~Waiting(c)
  BY <1>0 DEF SenderShape, StreamShape, QueueShape, ReceiverShape
<1>2. CASE lst = "listening" /\ Len(backlog) < Backlog
  <2>1. /\ backlog' \in Seq(Clients)
        /\ Len(backlog) \in Nat
        /\ Len(backlog') = Len(backlog) + 1
        /\ \A i \in 1 .. Len(backlog) : backlog'[i] = backlog[i]
        /\ backlog'[Len(backlog) + 1] = c
    <3>1. backlog' = Append(backlog, c) /\ backlog \in Seq(Clients)
      BY <1>2 DEF Handshake, TypeOK
    <3> QED
      BY <3>1, AppendProperties, LenProperties
  <2>2. ASSUME NEW d \in Clients
        PROVE  Waiting(d)' <=> Waiting(d) \/ d = c
    <3>1. ASSUME NEW i \in 1 .. Len(backlog'), backlog'[i] = d
          PROVE  Waiting(d) \/ d = c
      <4>1. CASE i = Len(backlog) + 1
        BY <2>1, <3>1, <4>1
      <4>2. CASE i # Len(backlog) + 1
        <5>1. i \in 1 .. Len(backlog) /\ backlog[i] = d
          BY <2>1, <3>1, <4>2
        <5> QED
          BY <5>1 DEF Waiting
      <4> QED
        BY <4>1, <4>2
    <3>2. ASSUME NEW i \in 1 .. Len(backlog), backlog[i] = d
          PROVE  Waiting(d)'
      <4>1. i \in 1 .. Len(backlog') /\ backlog'[i] = d
        BY <2>1, <3>2
      <4> QED
        BY <4>1 DEF Waiting
    <3>3. Waiting(c)'
      <4>1. Len(backlog) + 1 \in 1 .. Len(backlog')
        BY <2>1
      <4> QED
        BY <2>1, <4>1 DEF Waiting
    <3> QED
      BY <3>1, <3>2, <3>3 DEF Waiting
  <2>3. tcp' = [tcp EXCEPT ![c] = "established"]
    BY <1>2 DEF Handshake
  <2>4. TypeOK'
    <3>1. Len(backlog') <= Backlog
      BY <1>2, <2>1, BoundAssumption
    <3>2. \A d \in Clients : Waiting(d)' => server'[d] = "none"
      BY <1>0, <1>1, <2>2 DEF TypeOK
    <3> QED
      BY <1>0, <2>1, <2>3, <3>1, <3>2 DEF TypeOK
  <2>5. QueueShape'
    <3>1. \A i, j \in 1 .. Len(backlog') : backlog'[i] = backlog'[j] => i = j
      <4> SUFFICES ASSUME NEW i \in 1 .. Len(backlog'), NEW j \in 1 .. Len(backlog'),
                          backlog'[i] = backlog'[j], i # j
                   PROVE  FALSE
        OBVIOUS
      <4>1. \A k \in 1 .. Len(backlog) : backlog[k] # c
        BY <1>1 DEF Waiting
      <4>2. CASE i \in 1 .. Len(backlog) /\ j \in 1 .. Len(backlog)
        BY <2>1, <4>2 DEF QueueShape
      <4>3. CASE i \notin 1 .. Len(backlog) \/ j \notin 1 .. Len(backlog)
        BY <2>1, <4>1, <4>3
      <4> QED
        BY <4>2, <4>3
    <3>2. ASSUME NEW d \in Clients
          PROVE  /\ Waiting(d)' => tcp'[d] \in {"established", "aborted"}
                 /\ tcp'[d] = "established" => Serving(d)' \/ Waiting(d)'
                 /\ tcp'[d] \in {"none", "syn", "refused"} => server'[d] = "none"
      BY <1>0, <2>2, <2>3 DEF QueueShape, Serving, TypeOK
    <3> QED
      BY <3>1, <3>2 DEF QueueShape
  <2>6. SenderShape'
    BY <1>0, <1>1, <2>3 DEF SenderShape, TypeOK
  <2>7. ReceiverShape'
    BY <1>0 DEF ReceiverShape
  <2>8. StreamShape'
    <3>1. \A d \in Clients : d # c => tcp'[d] = tcp[d]
      BY <2>3 DEF TypeOK
    <3> QED
      BY <1>0, <1>1, <3>1 DEF StreamShape
  <2> QED
    BY <2>4, <2>5, <2>6, <2>7, <2>8
<1>3. CASE ~(lst = "listening" /\ Len(backlog) < Backlog)
  <2>1. tcp' = [tcp EXCEPT ![c] = "refused"] /\ UNCHANGED backlog
    BY <1>3 DEF Handshake
  <2>2. TypeOK'
    BY <1>0, <2>1 DEF TypeOK, Waiting
  <2>3. QueueShape'
    BY <1>0, <1>1, <2>1 DEF TypeOK, QueueShape, Waiting, Serving
  <2>4. SenderShape'
    BY <1>0, <1>1, <2>1 DEF TypeOK, SenderShape
  <2>5. ReceiverShape'
    BY <1>0 DEF ReceiverShape
  <2>6. StreamShape'
    BY <1>0, <1>1, <2>1 DEF TypeOK, StreamShape
  <2> QED
    BY <2>2, <2>3, <2>4, <2>5, <2>6
<1> QED
  BY <1>2, <1>3

\* Calls that only start or end.
LEMMA CallStep ==
  ASSUME StreamInv, NEW c \in Clients, ConnectB(c) \/ SendB(c) \/ CloseClient(c)
  PROVE  StreamInv'
<1> USE DEF StreamInv, ConnectB, SendB, CloseClient, kernel, receiver, listening
<1>1. TypeOK'
  BY DEF TypeOK, Waiting
<1>2. QueueShape' /\ ReceiverShape' /\ StreamShape'
  BY DEF QueueShape, ReceiverShape, StreamShape, Waiting, Serving
<1>3. SenderShape'
  BY SizeAssumption DEF SenderShape, TypeOK, More
<1> QED
  BY <1>1, <1>2, <1>3

\* A client that is still connecting has sent nothing, so that it may give
\* up a connection and start another one.
LEMMA ConnectNbStep ==
  ASSUME StreamInv, NEW c \in Clients, ConnectNb(c)
  PROVE  StreamInv'
<1>1. TypeOK /\ QueueShape /\ SenderShape /\ ReceiverShape /\ StreamShape
  BY DEF StreamInv
<1>2. /\ client[c] = "connectB"
      /\ UNCHANGED <<lst, bindable, starts, backlog, wire, sent_count, recv_count, buffer>>
  BY DEF ConnectNb, listening
<1>3. /\ \A d \in Clients : d # c =>
           tcp'[d] = tcp[d] /\ client'[d] = client[d] /\ server'[d] = server[d]
      /\ \/ /\ tcp[c] = "none" /\ tcp'[c] = "syn"
            /\ client'[c] = client[c] /\ server'[c] = server[c]
         \/ /\ tcp[c] \in {"refused", "reset"} /\ tcp'[c] = "none"
            /\ client'[c] = client[c] /\ server'[c] = "none"
         \/ /\ tcp[c] \in {"established", "shut"} /\ tcp'[c] = tcp[c]
            /\ client'[c] = "connected" /\ server'[c] = server[c]
  BY <1>1 DEF ConnectNb, TypeOK
<1>4. /\ sent_count[c] = 0 /\ recv_count[c] = 0
      /\ Len(wire[c]) = 0
  BY <1>1, <1>2 DEF SenderShape, StreamShape, TypeOK
<1>5. \A d \in Clients : Waiting(d)' = Waiting(d)
  BY <1>2 DEF Waiting
<1>6. TypeOK'
  <2>1. /\ tcp' \in [Clients -> {"none", "syn", "refused", "established", "shut",
                                 "reset", "aborted"}]
        /\ client' \in [Clients -> {"idle", "connectB", "connected", "sendB",
                                    "true", "false", "killed", "closed", "died"}]
        /\ server' \in [Clients -> {"none", "receiveNb", "receiveB", "got", "true",
                                    "false", "closed", "dead"}]
    BY <1>1 DEF ConnectNb, TypeOK
  <2>2. \A d \in Clients : Waiting(d)' => server'[d] = "none"
    BY <1>1, <1>3, <1>5 DEF TypeOK
  <2> QED
    BY <1>1, <1>2, <2>1, <2>2 DEF TypeOK
<1>7. QueueShape'
  <2>1. \A d \in Clients : d # c => Serving(d)' = Serving(d)
    BY <1>3 DEF Serving
  <2>2. tcp'[c] = "established" => tcp[c] = "established" /\ Serving(c)' = Serving(c)
    BY <1>3 DEF Serving
  <2>3. \A d \in Clients :
          /\ Waiting(d) => tcp[d] \in {"established", "aborted"}
          /\ tcp[d] = "established" => Serving(d) \/ Waiting(d)
          /\ tcp[d] \in {"none", "syn", "refused"} => server[d] = "none"
    BY <1>1 DEF QueueShape
  <2>4. ASSUME NEW d \in Clients
        PROVE  /\ Waiting(d)' => tcp'[d] \in {"established", "aborted"}
               /\ tcp'[d] = "established" => Serving(d)' \/ Waiting(d)'
               /\ tcp'[d] \in {"none", "syn", "refused"} => server'[d] = "none"
    <3>1. CASE d = c
      BY <1>3, <1>5, <2>2, <2>3, <3>1
    <3>2. CASE d # c
      BY <1>3, <1>5, <2>1, <2>3, <3>2
    <3> QED
      BY <3>1, <3>2
  <2> QED
    BY <1>1, <1>2, <2>4 DEF QueueShape
<1>8. SenderShape'
  BY <1>1, <1>2, <1>3, <1>4 DEF SenderShape
<1>9. ReceiverShape'
  BY <1>1, <1>2, <1>3, <1>4 DEF ReceiverShape
<1>10. StreamShape'
  <2>1. tcp'[c] = "established" => tcp[c] = "established"
    BY <1>3
  <2>2. wire[c] = << >>
    BY <1>1, <1>4 DEF TypeOK
  <2> QED
    BY <1>1, <1>2, <1>3, <2>1, <2>2 DEF StreamShape
<1> QED
  BY <1>6, <1>7, <1>8, <1>9, <1>10 DEF StreamInv

\* How sendB's counter and result change when send() took n bytes.
LEMMA SentStep ==
  ASSUME StreamInv, NEW c \in Clients, client[c] = "sendB",
         NEW n \in 1 .. Remaining(sent_count[c], MsgLen[c]), Sent(c, n)
  PROVE  /\ n \in Nat /\ sent_count[c] + n <= MsgLen[c]
         /\ sent_count' = [sent_count EXCEPT ![c] = sent_count[c] + n]
         /\ sent_count' \in [Clients -> Nat]
         /\ \E l \in {"sendB", "true"} :
              /\ client' = [client EXCEPT ![c] = l]
              /\ l = "true" => sent_count[c] + n = MsgLen[c]
<1>1. sent_count \in [Clients -> Nat] /\ sent_count[c] \in Nat
  BY DEF StreamInv, TypeOK
<1>2. n \in Nat /\ sent_count[c] + n <= MsgLen[c]
  BY <1>1, SizeAssumption DEF Remaining
<1>3. /\ sent_count' = [sent_count EXCEPT ![c] = sent_count[c] + n]
      /\ client' = [client EXCEPT ![c] =
           IF sent_count[c] + n < MsgLen[c] THEN "sendB" ELSE "true"]
  BY DEF Sent, More
<1>4. sent_count' \in [Clients -> Nat]
  BY <1>1, <1>2, <1>3, SizeAssumption
<1>5. CASE sent_count[c] + n < MsgLen[c]
  BY <1>2, <1>3, <1>4, <1>5
<1>6. CASE ~(sent_count[c] + n < MsgLen[c])
  BY <1>1, <1>2, <1>3, <1>4, <1>6, SizeAssumption
<1> QED
  BY <1>5, <1>6

\* send() appends to the stream while the connection stands; after that its
\* bytes go nowhere.
LEMMA SendNbStep ==
  ASSUME StreamInv, NEW c \in Clients, SendNb(c)
  PROVE  StreamInv'
<1> USE DEF receiver, listening
<1>0. TypeOK /\ QueueShape /\ SenderShape /\ ReceiverShape /\ StreamShape
  BY DEF StreamInv
<1>1. /\ sent_count[c] \in Nat
      /\ wire[c] \in Seq(Nat) /\ Len(wire[c]) \in Nat
      /\ recv_count[c] \in 0 .. Want
  BY <1>0 DEF TypeOK
<1>2. client[c] = "sendB" /\ UNCHANGED <<listening, backlog, receiver>>
  BY DEF SendNb
<1>3. CASE tcp[c] = "established"
  <2>1. PICK n \in 1 .. Remaining(sent_count[c], MsgLen[c]) :
          /\ wire' = [wire EXCEPT ![c] = wire[c] \o Chunk(sent_count[c], n)]
          /\ Sent(c, n)
    BY <1>3 DEF SendNb
  <2>2. UNCHANGED tcp
    BY <1>3 DEF SendNb
  <2>3. /\ n \in Nat /\ sent_count[c] + n <= MsgLen[c]
        /\ sent_count' = [sent_count EXCEPT ![c] = sent_count[c] + n]
        /\ sent_count' \in [Clients -> Nat]
        /\ \E l \in {"sendB", "true"} :
             /\ client' = [client EXCEPT ![c] = l]
             /\ l = "true" => sent_count[c] + n = MsgLen[c]
    BY <1>2, <2>1, SentStep
  <2>4. /\ sent_count[c] = recv_count[c] + Len(wire[c])
        /\ \A i \in 1 .. Len(wire[c]) : wire[c][i] = recv_count[c] + i
    BY <1>0, <1>3 DEF StreamShape
  <2>5. /\ wire'[c] \in Seq(Nat)
        /\ Len(wire'[c]) = Len(wire[c]) + n
        /\ \A i \in 1 .. Len(wire'[c]) : wire'[c][i] = recv_count[c] + i
    <3>1. PICK w \in Seq(Nat), r \in Nat :
            w = wire[c] /\ r = recv_count[c] /\ sent_count[c] = r + Len(w)
      BY <1>1, <2>4, SizeAssumption
    <3>2. \A i \in 1 .. Len(w) : w[i] = r + i
      BY <2>3, <2>4, <3>1
    <3>3. PICK v : v = w \o Chunk(r + Len(w), n)
      OBVIOUS
    <3>4. /\ v \in Seq(Nat)
          /\ Len(v) = Len(w) + n
          /\ \A i \in 1 .. Len(v) : v[i] = r + i
      <4>1. n \in Nat
        BY <2>3
      <4> QED
        BY <3>2, <3>3, <4>1, StreamGrows, Zenon
    <3>5. wire'[c] = v
      BY <1>0, <2>1, <3>1, <3>3 DEF TypeOK
    <3> QED
      BY <3>1, <3>4, <3>5
  <2>6. TypeOK'
    <3>1. wire' \in [Clients -> Seq(Nat)]
      BY <1>0, <2>1, <2>5 DEF TypeOK
    <3>2. client' \in [Clients -> {"idle", "connectB", "connected", "sendB", "true",
                                  "false", "killed", "closed", "died"}]
      BY <1>0, <2>3 DEF TypeOK
    <3>3. \A d \in Clients : Waiting(d)' = Waiting(d)
      BY <1>2 DEF Waiting
    <3> QED
      BY <1>0, <1>2, <2>2, <2>3, <3>1, <3>2, <3>3 DEF TypeOK
  <2>7. QueueShape' /\ ReceiverShape'
    BY <1>0, <1>2, <2>2 DEF QueueShape, ReceiverShape, Waiting, Serving
  <2>8. SenderShape'
    BY <1>0, <1>2, <1>3, <2>2, <2>3 DEF SenderShape, TypeOK
  <2>9. StreamShape'
    <3>1. ASSUME NEW d \in Clients, d # c
          PROVE  wire'[d] = wire[d] /\ sent_count'[d] = sent_count[d]
      BY <1>0, <2>1, <2>3, <3>1 DEF TypeOK
    <3>2. sent_count'[c] = sent_count[c] + n
      BY <1>0, <2>3 DEF TypeOK
    <3>3. recv_count[c] + Len(wire'[c]) = sent_count'[c]
      <4>1. PICK a \in Nat, r \in Nat, k \in Nat :
              a = sent_count[c] /\ r = recv_count[c] /\ k = Len(wire[c])
        BY <1>1, SizeAssumption
      <4>2. a = r + k /\ Len(wire'[c]) = k + n /\ sent_count'[c] = a + n
        BY <2>4, <2>5, <3>2, <4>1
      <4>3. r + (k + n) = (r + k) + n
        BY <2>3
      <4> QED
        BY <4>1, <4>2, <4>3
    <3>4. sent_count'[c] \in Nat /\ recv_count[c] + Len(wire'[c]) <= sent_count'[c]
      BY <1>1, <2>3, <3>2, <3>3
    <3> QED
      BY <1>0, <1>2, <1>3, <2>2, <2>5, <3>1, <3>3, <3>4 DEF StreamShape
  <2> QED
    BY <2>6, <2>7, <2>8, <2>9 DEF StreamInv
<1>4. CASE tcp[c] = "shut"
  <2>1. PICK n \in 1 .. Remaining(sent_count[c], MsgLen[c]) : Sent(c, n)
    BY <1>4 DEF SendNb
  <2>2. /\ n \in Nat /\ sent_count[c] + n <= MsgLen[c]
        /\ sent_count' = [sent_count EXCEPT ![c] = sent_count[c] + n]
        /\ sent_count' \in [Clients -> Nat]
        /\ \E l \in {"sendB", "true"} :
             /\ client' = [client EXCEPT ![c] = l]
             /\ l = "true" => sent_count[c] + n = MsgLen[c]
    BY <1>2, <2>1, SentStep
  <2>3. /\ \E t \in {"shut", "reset"} : tcp' = [tcp EXCEPT ![c] = t]
        /\ UNCHANGED wire
    BY <1>4 DEF SendNb
  <2>4. TypeOK'
    <3>1. \A d \in Clients : Waiting(d)' = Waiting(d)
      BY <1>2 DEF Waiting
    <3> QED
      BY <1>0, <1>2, <2>2, <2>3, <3>1 DEF TypeOK
  <2>5. QueueShape' /\ ReceiverShape'
    <3>1. \A d \in Clients : Waiting(d)' = Waiting(d) /\ Serving(d)' = Serving(d)
      BY <1>2 DEF Waiting, Serving
    <3>2. /\ \A d \in Clients : d # c => tcp'[d] = tcp[d]
          /\ tcp'[c] \in {"shut", "reset"} /\ ~Waiting(c)
      BY <1>0, <1>4, <2>3 DEF TypeOK, QueueShape
    <3> QED
      BY <1>0, <1>2, <3>1, <3>2 DEF QueueShape, ReceiverShape
  <2>6. SenderShape'
    BY <1>0, <1>2, <1>4, <2>2, <2>3 DEF SenderShape, TypeOK
  <2>7. StreamShape'
    <3>1. \A d \in Clients :
            /\ sent_count[d] \in Nat /\ sent_count'[d] \in Nat
            /\ sent_count[d] <= sent_count'[d]
            /\ recv_count[d] + Len(wire[d]) \in Nat
      <4>1. \A d \in Clients :
              sent_count[d] \in Nat /\ recv_count[d] \in 0 .. Want
              /\ Len(wire[d]) \in Nat /\ sent_count'[d] \in Nat
        BY <1>0, <2>2 DEF TypeOK
      <4>2. \A d \in Clients :
              sent_count'[d] = IF d = c THEN sent_count[c] + n ELSE sent_count[d]
        BY <1>0, <2>2 DEF TypeOK
      <4> QED
        BY <2>2, <4>1, <4>2, SizeAssumption
    <3>2. \A d \in Clients :
            recv_count[d] + Len(wire[d]) <= sent_count'[d]
      BY <1>0, <3>1 DEF StreamShape
    <3>3. /\ \A d \in Clients : d # c =>
               tcp'[d] = tcp[d] /\ sent_count'[d] = sent_count[d]
          /\ tcp'[c] \in {"shut", "reset"}
          /\ wire[c] = << >>
      BY <1>0, <1>4, <2>2, <2>3 DEF StreamShape, TypeOK
    <3> QED
      BY <1>0, <1>2, <2>3, <3>2, <3>3 DEF StreamShape
  <2> QED
    BY <2>4, <2>5, <2>6, <2>7 DEF StreamInv
<1>5. CASE tcp[c] = "reset"
  <2>1. /\ \E end \in {"false", "killed"} : client' = [client EXCEPT ![c] = end]
        /\ UNCHANGED <<tcp, wire, sent_count>>
    BY <1>5 DEF SendNb
  <2>2. TypeOK'
    BY <1>0, <1>2, <2>1 DEF TypeOK, Waiting
  <2>3. QueueShape' /\ ReceiverShape' /\ StreamShape'
    BY <1>0, <1>2, <2>1 DEF QueueShape, ReceiverShape, StreamShape, Waiting, Serving
  <2>4. SenderShape'
    BY <1>0, <1>5, <2>1 DEF SenderShape, TypeOK
  <2> QED
    BY <2>2, <2>3, <2>4 DEF StreamInv
<1> QED
  BY <1>3, <1>4, <1>5 DEF SendNb

\* A client that dies leaves a beginning of what was under way, or all of it.
LEMMA ClientDiesStep ==
  ASSUME StreamInv, NEW c \in Clients, ClientDies(c)
  PROVE  StreamInv'
<1> USE DEF StreamInv, receiver, listening
<1>1. /\ wire[c] \in Seq(Nat) /\ Len(wire[c]) \in Nat
      /\ recv_count[c] \in 0 .. Want
  BY DEF TypeOK
<1>2. /\ client' = [client EXCEPT ![c] = "died"]
      /\ UNCHANGED <<listening, backlog, sent_count, receiver>>
  BY DEF ClientDies
<1>3. CASE /\ tcp' = [tcp EXCEPT ![c] = IF @ = "syn" THEN "none" ELSE @]
           /\ UNCHANGED wire
  <2>1. TypeOK'
    BY <1>2, <1>3 DEF TypeOK, Waiting
  <2>2. QueueShape'
    <3>1. \A d \in Clients :
            /\ tcp'[d] = tcp[d] \/ (tcp[d] = "syn" /\ tcp'[d] = "none")
            /\ Waiting(d)' <=> Waiting(d)
            /\ Serving(d)' <=> Serving(d)
      BY <1>2, <1>3 DEF TypeOK, Waiting, Serving
    <3> QED
      BY <1>2, <3>1 DEF QueueShape
  <2>3. SenderShape'
    BY <1>2, <1>3 DEF SenderShape, TypeOK
  <2>4. ReceiverShape'
    BY <1>2 DEF ReceiverShape
  <2>5. StreamShape'
    BY <1>2, <1>3 DEF StreamShape, TypeOK
  <2> QED
    BY <2>1, <2>2, <2>3, <2>4, <2>5
<1>4. CASE /\ tcp[c] = "established"
           /\ tcp' = [tcp EXCEPT ![c] = "aborted"]
           /\ \E k \in 0 .. Len(wire[c]) :
                wire' = [wire EXCEPT ![c] = SubSeq(@, 1, k)]
  <2>1. PICK k \in 0 .. Len(wire[c]) : wire' = [wire EXCEPT ![c] = SubSeq(@, 1, k)]
    BY <1>4
  <2>2. wire'[c] = SubSeq(wire[c], 1, k)
    BY <2>1 DEF TypeOK
  <2>3. /\ wire'[c] \in Seq(Nat)
        /\ Len(wire'[c]) = k
        /\ \A i \in 1 .. k : wire'[c][i] = wire[c][i]
    <3> DEFINE v == SubSeq(wire[c], 1, k)
    <3>1. v \in Seq(Nat) /\ Len(v) = k /\ \A i \in 1 .. k : v[i] = wire[c][i]
      BY <1>1, BytesTaken, SizeAssumption
    <3> QED
      BY <2>2, <3>1
  <2>4. \A d \in Clients : d # c => wire'[d] = wire[d] /\ tcp'[d] = tcp[d]
    BY <1>4, <2>1 DEF TypeOK
  <2>5. TypeOK'
    <3>1. wire' \in [Clients -> Seq(Nat)]
      BY <2>1, <2>3 DEF TypeOK
    <3> QED
      BY <1>2, <1>4, <3>1 DEF TypeOK, Waiting
  <2>6. QueueShape'
    BY <1>2, <1>4 DEF QueueShape, Waiting, Serving, TypeOK
  <2>7. SenderShape'
    BY <1>2, <1>4 DEF SenderShape, TypeOK
  <2>8. ReceiverShape'
    BY <1>2 DEF ReceiverShape
  <2>9. StreamShape'
    <3>1. /\ \A i \in 1 .. Len(wire'[c]) : wire'[c][i] = recv_count[c] + i
          /\ recv_count[c] + Len(wire'[c]) <= sent_count[c]
          /\ tcp'[c] = "aborted"
      BY <1>1, <1>4, <2>3 DEF StreamShape, TypeOK
    <3> QED
      BY <1>2, <2>4, <3>1 DEF StreamShape
  <2> QED
    BY <2>5, <2>6, <2>7, <2>8, <2>9
<1> QED
  BY <1>3, <1>4 DEF ClientDies

-----------------------------------------------------------------------------
(* The server's end.                                                       *)

\* recv() moves the first n bytes from the kernel to the end of what the
\* buffer holds.
LEMMA ReceiveStep ==
  ASSUME StreamInv, NEW c \in Clients, NEW n \in Nat, recv_count[c] + n <= Want,
         Receive(c, n), UNCHANGED <<listening, backlog, tcp, sender>>
  PROVE  /\ StreamShape'
         /\ recv_count' = [recv_count EXCEPT ![c] = recv_count[c] + n]
         /\ recv_count' \in [Clients -> 0 .. Want]
         /\ wire' \in [Clients -> Seq(Nat)]
         /\ buffer' \in [Clients -> [1 .. Want -> Nat]]
<1> USE DEF StreamInv, sender, listening
<1> DEFINE w == wire[c]
           r == recv_count[c]
           b == buffer[c]
           left == SubSeq(w, n + 1, Len(w))
           new  == Placed(b, r, SubSeq(w, 1, n))
<1>1. /\ w \in Seq(Nat) /\ Len(w) \in Nat
      /\ r \in 0 .. Want
      /\ b \in [1 .. Want -> Nat]
      /\ sent_count[c] \in Nat
  BY DEF TypeOK
<1>2. /\ n \in 0 .. Len(w)
      /\ wire' = [wire EXCEPT ![c] = left]
      /\ buffer' = [buffer EXCEPT ![c] = new]
      /\ recv_count' = [recv_count EXCEPT ![c] = r + n]
  BY <1>1 DEF Receive
<1>3. /\ \A i \in 1 .. r : b[i] = i
      /\ \A i \in 1 .. Len(w) : w[i] = r + i
      /\ r + Len(w) <= sent_count[c]
      /\ tcp[c] = "established" => r + Len(w) = sent_count[c]
      /\ tcp[c] \notin {"established", "aborted"} => w = << >>
  BY DEF StreamShape
<1> HIDE DEF w, r, b
<1>4. /\ left \in Seq(Nat)
      /\ Len(left) = Len(w) - n
      /\ \A i \in 1 .. Len(w) - n : left[i] = w[n + i]
  BY <1>1, <1>2, BytesLeft, SizeAssumption
<1>5. /\ new \in [1 .. Want -> Nat]
      /\ \A i \in 1 .. r : new[i] = b[i]
      /\ \A i \in r + 1 .. r + n : new[i] = w[i - r]
  BY <1>1, <1>2, PlacedBytes DEF r
<1> HIDE DEF left, new
<1>6. r + n \in 0 .. Want
  BY <1>1, SizeAssumption DEF r
<1>7. \A i \in 1 .. r + n : new[i] = i
  <2> SUFFICES ASSUME NEW i \in 1 .. r + n PROVE new[i] = i
    OBVIOUS
  <2>1. CASE i \in 1 .. r
    BY <1>3, <1>5, <2>1
  <2>2. CASE i \notin 1 .. r
    <3>1. i \in r + 1 .. r + n /\ i - r \in 1 .. Len(w)
      BY <1>1, <1>2, <2>2, SizeAssumption
    <3>2. new[i] = r + (i - r)
      BY <1>3, <1>5, <3>1
    <3> QED
      BY <1>1, <3>2, SizeAssumption
  <2> QED
    BY <2>1, <2>2
<1>8. \A i \in 1 .. Len(left) : left[i] = (r + n) + i
  <2> SUFFICES ASSUME NEW i \in 1 .. Len(left) PROVE left[i] = (r + n) + i
    OBVIOUS
  <2>1. i \in 1 .. Len(w) - n /\ n + i \in 1 .. Len(w)
    BY <1>1, <1>2, <1>4
  <2>2. left[i] = r + (n + i)
    BY <1>3, <1>4, <2>1
  <2> QED
    BY <1>1, <2>1, <2>2, SizeAssumption
<1>9. (r + n) + Len(left) = r + Len(w)
  BY <1>1, <1>2, <1>4, SizeAssumption
<1>10. w = << >> => left = << >>
  <2>1. w = << >> => Len(left) = 0
    BY <1>1, <1>2, <1>4
  <2> QED
    BY <1>4, <2>1, EmptySeq
<1>11. /\ recv_count' \in [Clients -> 0 .. Want]
       /\ wire' \in [Clients -> Seq(Nat)]
       /\ buffer' \in [Clients -> [1 .. Want -> Nat]]
  BY <1>2, <1>4, <1>5, <1>6 DEF TypeOK
<1>12. /\ recv_count'[c] = r + n /\ wire'[c] = left /\ buffer'[c] = new
       /\ \A d \in Clients : d # c =>
            /\ recv_count'[d] = recv_count[d]
            /\ wire'[d] = wire[d]
            /\ buffer'[d] = buffer[d]
  BY <1>2 DEF TypeOK
<1>13. StreamShape'
  <2> SUFFICES ASSUME NEW d \in Clients
               PROVE  /\ \A i \in 1 .. recv_count'[d] : buffer'[d][i] = i
                      /\ \A i \in 1 .. Len(wire'[d]) :
                           wire'[d][i] = recv_count'[d] + i
                      /\ recv_count'[d] + Len(wire'[d]) <= sent_count[d]
                      /\ tcp[d] = "established" =>
                           recv_count'[d] + Len(wire'[d]) = sent_count[d]
                      /\ tcp[d] \notin {"established", "aborted"} =>
                           wire'[d] = << >>
    BY DEF StreamShape
  <2>1. CASE d = c
    BY <1>3, <1>7, <1>8, <1>9, <1>10, <1>12, <2>1
  <2>2. CASE d # c
    BY <1>12, <2>2 DEF StreamShape
  <2> QED
    BY <2>1, <2>2
<1> QED
  BY <1>2, <1>11, <1>13 DEF r

\* A call of the server's thread moves bytes, fails or returns.
LEMMA ServerCallStep ==
  ASSUME StreamInv, NEW c \in Clients, ReceiveNb(c) \/ ReceiveB(c)
  PROVE  StreamInv'
<1> USE DEF StreamInv, sender, listening
<1>1. /\ server[c] \in {"receiveNb", "receiveB"}
      /\ UNCHANGED <<listening, backlog, tcp, sender>>
  BY DEF ReceiveNb, ReceiveB
<1>2. recv_count[c] \in 0 .. Want
  BY DEF TypeOK
<1>3. ASSUME NEW n \in Nat, recv_count[c] + n <= Want, Receive(c, n),
             NEW l \in {"got", "receiveB", "true"},
             server' = [server EXCEPT ![c] = l],
             l = "true" => recv_count[c] + n = Want
      PROVE  StreamInv'
  <2>1. /\ StreamShape'
        /\ recv_count' = [recv_count EXCEPT ![c] = recv_count[c] + n]
        /\ recv_count' \in [Clients -> 0 .. Want]
        /\ wire' \in [Clients -> Seq(Nat)]
        /\ buffer' \in [Clients -> [1 .. Want -> Nat]]
    BY <1>1, <1>3, ReceiveStep
  <2>2. TypeOK'
    <3>1. server' \in [Clients -> {"none", "receiveNb", "receiveB", "got", "true",
                                  "false", "closed", "dead"}]
      BY <1>3 DEF TypeOK
    <3>2. \A d \in Clients : Waiting(d)' => server'[d] = "none"
      BY <1>1, <1>3 DEF TypeOK, Waiting
    <3> QED
      BY <1>1, <2>1, <3>1, <3>2, Zenon DEF TypeOK
  <2>3. QueueShape'
    <3>1. /\ \A d \in Clients : Waiting(d)' = Waiting(d)
          /\ \A d \in Clients : d # c => server'[d] = server[d]
          /\ server'[c] = l /\ Serving(c) /\ Serving(c)'
      BY <1>1, <1>3 DEF Waiting, Serving, TypeOK
    <3>2. \A d \in Clients : Serving(d)' = Serving(d)
      BY <3>1 DEF Serving
    <3> QED
      BY <1>1, <3>1, <3>2 DEF QueueShape, Serving
  <2>4. SenderShape'
    BY <1>1 DEF SenderShape
  <2>5. ReceiverShape'
    BY <1>3, <2>1 DEF ReceiverShape, TypeOK
  <2> QED
    BY <2>1, <2>2, <2>3, <2>4, <2>5
<1>4. ASSUME ReceiveError(c) PROVE StreamInv'
  <2>1. /\ server' = [server EXCEPT ![c] = "false"]
        /\ UNCHANGED <<wire, recv_count, buffer>>
        /\ tcp[c] = "aborted"
    BY <1>4 DEF ReceiveError
  <2>2. TypeOK'
    BY <1>1, <2>1 DEF TypeOK, Waiting
  <2>3. QueueShape'
    BY <1>1, <2>1 DEF QueueShape, Waiting, Serving, TypeOK
  <2>4. SenderShape' /\ StreamShape'
    BY <1>1, <2>1 DEF SenderShape, StreamShape
  <2>5. ReceiverShape'
    BY <2>1 DEF ReceiverShape, TypeOK
  <2> QED
    BY <2>2, <2>3, <2>4, <2>5
<1>5. CASE ReceiveNb(c)
  <2>1. ASSUME NEW n \in 1 .. Want, Receive(c, n),
               server' = [server EXCEPT ![c] = "got"]
        PROVE  StreamInv'
    <3>1. recv_count[c] = 0
      BY <1>5 DEF ReceiveNb, ReceiverShape
    <3>2. n \in Nat /\ recv_count[c] + n <= Want
      BY <3>1, SizeAssumption
    <3> QED
      BY <1>3, <2>1, <3>2
  <2> QED
    BY <1>4, <1>5, <2>1 DEF ReceiveNb
<1>6. CASE ReceiveB(c)
  <2>1. ASSUME NEW n \in 1 .. Remaining(recv_count[c], Want), Receive(c, n),
               server' = [server EXCEPT ![c] =
                 IF More(recv_count[c] + n, Want) THEN "receiveB" ELSE "true"]
        PROVE  StreamInv'
    <3>1. n \in Nat /\ recv_count[c] + n <= Want
      BY <1>2, SizeAssumption DEF Remaining
    <3>2. ~More(recv_count[c] + n, Want) => recv_count[c] + n = Want
      BY <1>2, <3>1, SizeAssumption DEF More
    <3> QED
      BY <1>3, <2>1, <3>1, <3>2
  <2> QED
    BY <1>4, <1>6, <2>1 DEF ReceiveB
<1> QED
  BY <1>5, <1>6

\* Closing the server's end drops what was not read.
LEMMA CloseServerStep ==
  ASSUME StreamInv, NEW c \in Clients, CloseServer(c)
  PROVE  StreamInv'
<1> USE DEF sender, listening
<1>0. TypeOK /\ QueueShape /\ SenderShape /\ ReceiverShape /\ StreamShape
  BY DEF StreamInv
<1>1. /\ server[c] \in {"got", "true", "false"}
      /\ server' = [server EXCEPT ![c] = "closed"]
      /\ tcp' = [tcp EXCEPT ![c] = Closed(tcp[c], wire[c])]
      /\ wire' = [wire EXCEPT ![c] = << >>]
      /\ UNCHANGED <<listening, backlog, sender, recv_count, buffer>>
  BY DEF CloseServer
<1>2. /\ tcp' \in [Clients -> {"none", "syn", "refused", "established", "shut",
                               "reset", "aborted"}]
      /\ tcp'[c] \in {tcp[c], "shut", "reset"}
      /\ tcp'[c] # "established"
      /\ \A d \in Clients : d # c => tcp'[d] = tcp[d] /\ wire'[d] = wire[d]
      /\ wire'[c] = << >>
  BY <1>0, <1>1 DEF TypeOK, Closed
<1>3. TypeOK'
  <2>1. wire' \in [Clients -> Seq(Nat)]
    BY <1>0, <1>1 DEF TypeOK
  <2>2. \A d \in Clients : Waiting(d)' = Waiting(d)
    BY <1>1 DEF Waiting
  <2>3. \A d \in Clients : Waiting(d) => server'[d] = "none"
    BY <1>0, <1>1 DEF TypeOK
  <2> QED
    BY <1>0, <1>1, <1>2, <2>1, <2>2, <2>3 DEF TypeOK
<1>4. QueueShape'
  <2>1. \A d \in Clients : Waiting(d)' = Waiting(d)
    BY <1>1 DEF Waiting
  <2>2. /\ \A d \in Clients : d # c => server'[d] = server[d] /\ Serving(d)' = Serving(d)
        /\ ~Waiting(c) /\ tcp[c] \notin {"none", "syn", "refused"}
    BY <1>0, <1>1 DEF Serving, TypeOK, QueueShape
  <2> QED
    BY <1>0, <1>1, <1>2, <2>1, <2>2 DEF QueueShape
<1>5. SenderShape'
  BY <1>0, <1>1, <1>2 DEF SenderShape
<1>6. ReceiverShape'
  BY <1>0, <1>1 DEF ReceiverShape, TypeOK
<1>7. StreamShape'
  <2>1. recv_count[c] + 0 <= sent_count[c] /\ \A i \in 1 .. Len(wire'[c]) : FALSE
    BY <1>0, <1>2, SizeAssumption DEF StreamShape, TypeOK
  <2> QED
    BY <1>0, <1>1, <1>2, <2>1 DEF StreamShape, TypeOK
<1> QED
  BY <1>3, <1>4, <1>5, <1>6, <1>7 DEF StreamInv

-----------------------------------------------------------------------------
LEMMA NextStream == StreamInv /\ [Next]_vars => StreamInv'
<1> SUFFICES ASSUME StreamInv, [Next]_vars PROVE StreamInv'
  OBVIOUS
<1>1. CASE ServerSocketCtor \/ GetConnection \/ ServerDies
  BY <1>1, ServerSocketCtorStep, GetConnectionStep, ServerDiesStep
<1>2. ASSUME NEW c \in Clients,
             \/ ConnectB(c) \/ SendB(c) \/ CloseClient(c) \/ ClientDies(c)
             \/ Handshake(c) \/ ClientCall(c) \/ ServerCall(c)
      PROVE  StreamInv'
  BY <1>2, CallStep, ClientDiesStep, HandshakeStep, ConnectNbStep, SendNbStep,
     ServerCallStep, CloseServerStep DEF ClientCall, ServerCall
<1>3. CASE UNCHANGED vars
  BY <1>3 DEF vars, listening, kernel, sender, receiver, StreamInv, TypeOK,
     QueueShape, SenderShape, ReceiverShape, StreamShape, Waiting, Serving
<1> QED
  BY <1>1, <1>2, <1>3 DEF Next

LEMMA StreamInvariance == Spec => []StreamInv
  BY InitStream, NextStream, PTL DEF Spec

\* The variables have their types: sendB and receiveB never count past the
\* message or the buffer, and a connection in the queue of accept() has no
\* thread, whatever the kernel takes and hands over at a time.
THEOREM SocketTypeCorrect == Spec => []TypeOK
<1>1. StreamInv => TypeOK
  BY DEF StreamInv
<1> QED
  BY <1>1, StreamInvariance, PTL

\* The buffer's part of the stream.
LEMMA ReceivedIsChunk ==
  ASSUME StreamInv, NEW c \in Clients
  PROVE  Received(c) = Chunk(0, recv_count[c])
<1>1. /\ recv_count[c] \in 0 .. Want
      /\ buffer[c] \in [1 .. Want -> Nat]
      /\ \A i \in 1 .. recv_count[c] : buffer[c][i] = i
  BY DEF StreamInv, TypeOK, StreamShape
<1> QED
  BY <1>1, SizeAssumption DEF Received, Chunk

\* The bytes that receiveNb and receiveB put into the caller's buffer are a
\* beginning of the message, in order, and receiveB returns TRUE only with
\* all that was asked for: for messages, requests and kernel buffers of any
\* size and any number of connections, restarts and broken connections.
THEOREM BytesInOrderTheorem == Spec => []BytesInOrder
<1>1. StreamInv => BytesInOrder
  BY ReceivedIsChunk DEF BytesInOrder, StreamInv, ReceiverShape
<1> QED
  BY <1>1, StreamInvariance, PTL

\* While a connection stands, the bytes that sendB counts as sent are those
\* in the receiver's buffer followed by those under way, and all of the
\* message once sendB has returned TRUE: none is lost, repeated or displaced.
THEOREM BytesAccountedTheorem == Spec => []BytesAccounted
<1>1. StreamInv => BytesAccounted
  <2> SUFFICES ASSUME StreamInv, NEW c \in Clients, tcp[c] = "established"
               PROVE  /\ Received(c) \o wire[c] = Chunk(0, sent_count[c])
                      /\ client[c] = "true" => sent_count[c] = MsgLen[c]
    BY DEF BytesAccounted
  <2> DEFINE r == recv_count[c]
             w == wire[c]
             k == sent_count[c]
             u == Chunk(0, r)
             v == Chunk(0, k)
  <2>1. /\ r \in 0 .. Want /\ k \in Nat
        /\ w \in Seq(Nat) /\ Len(w) \in Nat
        /\ r + Len(w) = k
        /\ \A i \in 1 .. Len(w) : w[i] = r + i
    BY DEF StreamInv, TypeOK, StreamShape
  <2>2. Received(c) = u
    BY ReceivedIsChunk
  <2> HIDE DEF r, w, k
  <2>3. /\ u \in Seq(Nat) /\ Len(u) = r /\ \A i \in 1 .. r : u[i] = 0 + i
        /\ v \in Seq(Nat) /\ Len(v) = k /\ \A i \in 1 .. k : v[i] = 0 + i
    <3>1. 0 \in Nat /\ r \in Nat /\ k \in Nat
      BY <2>1, SizeAssumption
    <3> QED
      BY <3>1, ChunkProperties
  <2> HIDE DEF u, v
  <2>4. /\ u \o w \in Seq(Nat)
        /\ Len(u \o w) = r + Len(w)
        /\ \A i \in 1 .. r + Len(w) :
             (u \o w)[i] = IF i <= r THEN u[i] ELSE w[i - r]
    BY <2>1, <2>3, ConcatProperties
  <2>5. ASSUME NEW i \in 1 .. k PROVE (u \o w)[i] = v[i]
    <3>1. CASE i <= r
      BY <2>1, <2>3, <2>4, <3>1, SizeAssumption
    <3>2. CASE ~(i <= r)
      <4>1. i - r \in 1 .. Len(w)
        BY <2>1, <3>2, SizeAssumption
      <4>2. (u \o w)[i] = w[i - r] /\ w[i - r] = r + (i - r) /\ v[i] = 0 + i
        BY <2>1, <2>3, <2>4, <3>2, <4>1
      <4>3. r \in Nat /\ r + (i - r) = 0 + i
        BY <2>1, SizeAssumption
      <4> QED
        BY <4>2, <4>3
    <3> QED
      BY <3>1, <3>2
  <2>6. u \o w = v
    BY <2>1, <2>3, <2>4, <2>5, SeqEqual
  <2> QED
    BY <2>2, <2>6 DEF u, v, w, k, StreamInv, SenderShape
<1> QED
  BY <1>1, StreamInvariance, PTL
=============================================================================
