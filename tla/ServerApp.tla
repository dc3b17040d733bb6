----------------------------- MODULE ServerApp ------------------------------
(***************************************************************************)
(* The chat server executable: ServerApp (server/server_app.cpp), its      *)
(* listening socket (tcp_lib/server_socket.h) and the Database singleton   *)
(* that the handler threads share without a lock.                          *)
(*                                                                         *)
(* run() accepts a connection, starts a detached thread with               *)
(* handleRequest and goes back to accept; the thread reads one request,    *)
(* answers it and closes the connection.  A connection c \in Conns is      *)
(* therefore also the name of the thread that serves it, and pc[c] is the  *)
(* next statement of that thread:                                          *)
(*                                                                         *)
(*   none -> queued -> recv -> insert -> assign -> load -> store -> send   *)
(*                          -> lookup -> iterate -----------------> send   *)
(*                          -------------------------------------> send    *)
(*   send -> closed                                                        *)
(*                                                                         *)
(* insert, assign, load and store are the four accesses to shared memory   *)
(* of Database::registerUser, lookup and iterate the two of                *)
(* handleRequestUsers.  They race.  A data race is undefined behaviour;    *)
(* the outcomes represented are every interleaving of the accesses, a node *)
(* that another insertion unlinks, an iteration or a search that a         *)
(* concurrent insertion (and its rehash) cuts short, and the death of the  *)
(* process.                                                                *)
(***************************************************************************)
EXTENDS Database, Packet, FiniteSets

CONSTANTS
  Conns,        \* connections the clients open
  Backlog,      \* kListenBacklog
  Capacity,     \* size of the largest list that fits the 1024-byte tx_buffer
  LongNames,    \* usernames whose entries in a list are twice as long
  SplitReads,   \* whether TCP may deliver a request in more than one segment
  Missing,      \* an optional protobuf field that is not set
  PaddedName    \* a username of which only a part arrived: zeros follow it

ASSUME ConnsAssumption    == IsFiniteSet(Conns)
ASSUME BoundsAssumption   == Backlog \in Nat /\ Capacity \in Nat
ASSUME FlagAssumption     == SplitReads \in BOOLEAN
ASSUME MissingAssumption  ==
  Missing \notin Names \cup {PaddedName, NoName} /\ Missing \notin Ids

VARIABLES
  up,           \* the server process is alive
  next_id_,     \* Database: the next ID to hand out
  user_map_,    \* Database: ID -> UserMetadata
  backlog,      \* established connections that accept() has not returned
  sock,         \* what the client did with its end of the connection
  sent,         \* the request the client sent on it
  pc,           \* next statement of the connection's thread
  rx,           \* the Packet the thread parsed
  tx,           \* the bytes in tx_buffer, as the Packet they encode
  key,          \* the ID under which registerUser stored the user
  old,          \* the value next_id_++ read
  raced,        \* history: two threads were in conflicting accesses
  wrapped,      \* history: next_id_ went past its largest value
  known         \* history: IDs already delivered when the request was sent

db     == <<next_id_, user_map_>>
locals == <<rx, tx, key, old>>
client == <<backlog, sock, sent, known>>
vars   == <<up, db, client, pc, locals, raced, wrapped>>

-----------------------------------------------------------------------------
(* Packets (common/packet.proto).  Only the fields a handler reads.        *)

Requests ==
       [type : {"REQUEST_REGISTER"}, username : Names, requestor_id : {Missing}]
  \cup [type : {"REQUEST_USERS"}, username : {Missing}, requestor_id : Ids]
  \cup [type : {"REQUEST_SEND", "REQUEST_RECV"},
        username : {Missing}, requestor_id : {Missing}]

\* A buffer of zeros: no header, and packet_type() has its default value 0.
EmptyPacket == [type |-> "REQUEST_REGISTER",
                username |-> Missing, requestor_id |-> Missing]

\* What parsing the 1024 bytes of rx_buffer gives when the first recv()
\* returned only a beginning of request p and zeros stand for the rest.
Truncated(p) ==
  {EmptyPacket, [p EXCEPT !.username = Missing, !.requestor_id = Missing]}
  \cup (IF p.username = Missing THEN {}
        ELSE {[p EXCEPT !.username = NoName], [p EXCEPT !.username = PaddedName]})
  \cup (IF p.requestor_id = Missing THEN {}
        ELSE {[p EXCEPT !.requestor_id = 0],
              [p EXCEPT !.requestor_id = @ % VarintGroup]})

Delivered(p) == {p} \cup (IF SplitReads THEN Truncated(p) ELSE {})

Usernames == Names \cup {NoName, PaddedName}

OnlineUser == [user_id : Ids, username : Usernames]

Reply(type, value, id, users) ==
  [type |-> type, resp_value |-> value, assigned_id |-> id,
   online_users |-> users]

\* num_bytes_tx is 0: nothing is sent.
NoReply == Reply("NONE", 0, 0, {})

RespRegister(id)    == Reply("RESP_REGISTER", 0, id, {})
RespUsers(v, users) == Reply("RESP_USERS", v, 0, users)

\* ByteSizeLong, in units of an entry with a short name.
ListSize(users) ==
  Cardinality(users) + Cardinality({u \in users : u.username \in LongNames})

\* SerializeToArray writes nothing when the packet is too large; its result
\* is ignored and as many bytes as the packet needs are sent all the same.
ZeroBytes == Reply("ZEROS", 0, 0, {})

SerializeToArray(p) ==
  IF ListSize(p.online_users) <= Capacity THEN p ELSE ZeroBytes

-----------------------------------------------------------------------------
Init ==
  /\ up = TRUE
  /\ next_id_ = 0
  /\ user_map_ = [i \in {} |-> DefaultMetadata]
  /\ backlog = << >>
  /\ sock = [c \in Conns |-> "none"]
  /\ sent = [c \in Conns |-> EmptyPacket]
  /\ pc = [c \in Conns |-> "none"]
  /\ rx = [c \in Conns |-> EmptyPacket]
  /\ tx = [c \in Conns |-> NoReply]
  /\ key = [c \in Conns |-> 0]
  /\ old = [c \in Conns |-> 0]
  /\ raced = FALSE
  /\ wrapped = FALSE
  /\ known = [c \in Conns |-> {}]

-----------------------------------------------------------------------------
(* The clients, as far as the server sees them.                            *)

\* connect() completes when the kernel has room in the listening queue.
Connect(c) ==
  /\ up
  /\ pc[c] = "none"
  /\ Len(backlog) < Backlog
  /\ backlog' = Append(backlog, c)
  /\ sock' = [sock EXCEPT ![c] = "open"]
  /\ pc' = [pc EXCEPT ![c] = "queued"]
  /\ UNCHANGED <<up, db, sent, known, locals, raced, wrapped>>

\* The registrations that have been answered.
Registered == {c \in Conns : tx[c].type = "RESP_REGISTER"}

\* sendB of one request packet.
ClientSend(c, p) ==
  /\ sock[c] = "open"
  /\ sock' = [sock EXCEPT ![c] = "data"]
  /\ sent' = [sent EXCEPT ![c] = p]
  /\ known' = [known EXCEPT ![c] =
       {tx[d].assigned_id : d \in {x \in Registered : pc[x] = "closed"}}]
  /\ UNCHANGED <<up, db, backlog, pc, locals, raced, wrapped>>

\* The client ends without a request, for instance at the username prompt,
\* which registerUser() shows after it has connected.
ClientQuit(c) ==
  /\ sock[c] = "open"
  /\ \E end \in {"eof", "reset"} : sock' = [sock EXCEPT ![c] = end]
  /\ UNCHANGED <<up, db, backlog, sent, known, pc, locals, raced, wrapped>>

-----------------------------------------------------------------------------
(* run(): the accept loop.                                                 *)

Accept_Inline ==
  /\ up
  /\ backlog # << >>
  /\ \A c \in Conns : pc[c] \in {"none", "queued", "closed"}
  /\ pc' = [pc EXCEPT ![Head(backlog)] = "recv"]
  /\ backlog' = Tail(backlog)
  /\ UNCHANGED <<up, db, sock, sent, known, locals, raced, wrapped>>

\* getConnection() returns a descriptor; a detached thread takes it over.
Accept ==
  /\ up
  /\ backlog # << >>
  /\ pc' = [pc EXCEPT ![Head(backlog)] = "recv"]
  /\ backlog' = Tail(backlog)
  /\ UNCHANGED <<up, db, sock, sent, known, locals, raced, wrapped>>

-----------------------------------------------------------------------------
(* handleRequest(): one thread per connection.                             *)

\* The switch on the packet type and the has_ checks of the handlers.  The
\* SEND and RECV cases are empty: they go straight to the (empty) answer.
Handler(p) ==
  CASE p.type = "REQUEST_REGISTER" /\ p.username # Missing  -> "insert"
    [] p.type = "REQUEST_USERS" /\ p.requestor_id # Missing -> "lookup"
    [] OTHER                                                -> "send"

\* receiveNb until it does not return 0.  After an end of file it returns 0
\* for ever, so the thread has no step; an error gives -1, which ends the
\* loop with an untouched buffer.
Receive(c) ==
  /\ pc[c] = "recv"
  /\ \E p \in (IF sock[c] = "data"  THEN Delivered(sent[c]) ELSE
               IF sock[c] = "reset" THEN {EmptyPacket}      ELSE {}) :
       /\ rx' = [rx EXCEPT ![c] = p]
       /\ pc' = [pc EXCEPT ![c] = Handler(p)]
  /\ UNCHANGED <<up, db, client, tx, key, old, raced, wrapped>>

\* The threads inside registerUser, and those that are writing the map.
Registering == {c \in Conns : pc[c] \in {"assign", "load", "store"}}
Writing     == {c \in Conns : pc[c] = "assign"}

Without(map, ids) == [i \in DOMAIN map \ ids |-> map[i]]

\* user_map_[next_id_]: reads the counter, finds or links a node.  A thread
\* that read the head of the list before another one linked its node
\* unlinks that node.
RegInsert(c) ==
  /\ pc[c] = "insert"
  /\ key' = [key EXCEPT ![c] = next_id_]
  /\ \E lost \in SUBSET {key[d] : d \in Writing} :
       user_map_' = Subscript(Without(user_map_, lost), next_id_)
  /\ raced' = (raced \/ Registering # {})
  /\ pc' = [pc EXCEPT ![c] = "assign"]
  /\ UNCHANGED <<up, next_id_, client, rx, tx, old, wrapped>>

\* ... = {username, {}}: through the reference operator[] returned, into a
\* node that may not be linked any more.
RegAssign(c) ==
  /\ pc[c] = "assign"
  /\ user_map_' =
       IF key[c] \in DOMAIN user_map_
       THEN Store(user_map_, key[c],
                  [username |-> rx[c].username, msg_q |-> << >>])
       ELSE user_map_
  /\ pc' = [pc EXCEPT ![c] = "load"]
  /\ UNCHANGED <<up, next_id_, client, locals, raced, wrapped>>

\* next_id_++ reads the counter ...
RegLoad(c) ==
  /\ pc[c] = "load"
  /\ old' = [old EXCEPT ![c] = next_id_]
  /\ pc' = [pc EXCEPT ![c] = "store"]
  /\ UNCHANGED <<up, db, client, rx, tx, key, raced, wrapped>>

RegStore_KeepsCounter(c) ==
  /\ pc[c] = "store"
  /\ tx' = [tx EXCEPT ![c] = SerializeToArray(RespRegister(old[c]))]
  /\ pc' = [pc EXCEPT ![c] = "send"]
  /\ UNCHANGED <<up, db, client, rx, key, old, raced, wrapped>>

RegStore_SkipsId(c) ==
  /\ pc[c] = "store"
  /\ next_id_' = Successor(Successor(old[c]))
  /\ wrapped' = (wrapped \/ next_id_' < old[c])
  /\ tx' = [tx EXCEPT ![c] = SerializeToArray(RespRegister(old[c]))]
  /\ pc' = [pc EXCEPT ![c] = "send"]
  /\ UNCHANGED <<up, user_map_, client, rx, key, old, raced>>

\* ... and writes it back; handleRequestRegister encodes the old value.
RegStore(c) ==
  /\ pc[c] = "store"
  /\ next_id_' = Successor(old[c])
  /\ wrapped' = (wrapped \/ Successor(old[c]) = 0)
  /\ tx' = [tx EXCEPT ![c] = SerializeToArray(RespRegister(old[c]))]
  /\ pc' = [pc EXCEPT ![c] = "send"]
  /\ UNCHANGED <<up, user_map_, client, rx, key, old, raced>>

\* userExists(requestor_id).  A search during an insertion may miss.
UsersLookup(c) ==
  /\ pc[c] = "lookup"
  /\ raced' = (raced \/ Writing # {})
  /\ \/ /\ UserExists(user_map_, rx[c].requestor_id)
        /\ pc' = [pc EXCEPT ![c] = "iterate"]
        /\ UNCHANGED tx
     \/ /\ ~UserExists(user_map_, rx[c].requestor_id) \/ Writing # {}
        /\ tx' = [tx EXCEPT ![c] = SerializeToArray(RespUsers(1, {}))]
        /\ pc' = [pc EXCEPT ![c] = "send"]
  /\ UNCHANGED <<up, db, client, rx, key, old, wrapped>>

UsersIterate_SkipsLowerIds(c) ==
  /\ pc[c] = "iterate"
  /\ raced' = (raced \/ Writing # {})
  /\ tx' = [tx EXCEPT ![c] = SerializeToArray(RespUsers(0,
       {u \in OtherUsers(user_map_, rx[c].requestor_id) :
          u.user_id > rx[c].requestor_id}))]
  /\ pc' = [pc EXCEPT ![c] = "send"]
  /\ UNCHANGED <<up, db, client, rx, key, old, wrapped>>

\* The loop over the database.  During an insertion it may end early.
UsersIterate(c) ==
  /\ pc[c] = "iterate"
  /\ raced' = (raced \/ Writing # {})
  /\ LET all == OtherUsers(user_map_, rx[c].requestor_id)
     IN  \E seen \in (IF Writing = {} THEN {all} ELSE SUBSET all) :
           tx' = [tx EXCEPT ![c] = SerializeToArray(RespUsers(0, seen))]
  /\ pc' = [pc EXCEPT ![c] = "send"]
  /\ UNCHANGED <<up, db, client, rx, key, old, wrapped>>

\* sendB of num_bytes_tx bytes; the Socket destructor closes the connection.
Send(c) ==
  /\ pc[c] = "send"
  /\ pc' = [pc EXCEPT ![c] = "closed"]
  /\ UNCHANGED <<up, db, client, locals, raced, wrapped>>

\* The map that racing threads damaged may bring the process down later.
Crash ==
  /\ up
  /\ raced
  /\ up' = FALSE
  /\ UNCHANGED <<db, client, pc, locals, raced, wrapped>>

-----------------------------------------------------------------------------
Thread(c) ==
  /\ up
  /\ \/ Receive(c)
     \/ RegInsert(c) \/ RegAssign(c) \/ RegLoad(c) \/ RegStore(c)
     \/ UsersLookup(c) \/ UsersIterate(c)
     \/ Send(c)

Next ==
  \/ Accept
  \/ Crash
  \/ \E c \in Conns :
       \/ Connect(c)
       \/ \E p \in Requests : ClientSend(c, p)
       \/ ClientQuit(c)
       \/ Thread(c)

Spec == Init /\ [][Next]_vars

-----------------------------------------------------------------------------
(* Properties                                                              *)

PC == {"none", "queued", "recv", "insert", "assign", "load", "store",
       "lookup", "iterate", "send", "closed"}

Packets ==
  [type : {"REQUEST_REGISTER", "REQUEST_USERS", "REQUEST_SEND",
           "REQUEST_RECV"},
   username : Names \cup {NoName, PaddedName, Missing},
   requestor_id : Ids \cup {Missing}]

Replies ==
  [type : {"NONE", "RESP_REGISTER", "RESP_USERS", "ZEROS"},
   resp_value : {0, 1}, assigned_id : Ids, online_users : SUBSET OnlineUser]

\* Types, and the facts about a thread's position that the types of its
\* locals rest on: a thread that registers has a username, one that looks
\* up users has a requestor ID.
TypeOK ==
  /\ up \in BOOLEAN
  /\ next_id_ \in Ids
  /\ DOMAIN user_map_ \subseteq Ids
  /\ user_map_ \in [DOMAIN user_map_ -> UserMetadata(Usernames)]
  /\ backlog \in Seq(Conns)
  /\ sock \in [Conns -> {"none", "open", "data", "eof", "reset"}]
  /\ sent \in [Conns -> Packets]
  /\ pc \in [Conns -> PC]
  /\ rx \in [Conns -> Packets]
  /\ tx \in [Conns -> Replies]
  /\ key \in [Conns -> Ids]
  /\ old \in [Conns -> Ids]
  /\ raced \in BOOLEAN
  /\ wrapped \in BOOLEAN
  /\ known \in [Conns -> SUBSET Ids]
  /\ \A c \in Conns :
       /\ pc[c] \in {"insert", "assign"} => rx[c].username # Missing
       /\ pc[c] \in {"lookup", "iterate"} => rx[c].requestor_id # Missing

\* The ID returned by registerUser identifies one user: no two answered
\* registrations got the same ID, and the database knows each of them under
\* the name it registered.
UniqueIds ==
  /\ \A c, d \in Registered :
       tx[c].assigned_id = tx[d].assigned_id => c = d
  /\ \A c \in Registered :
       /\ UserExists(user_map_, tx[c].assigned_id)
       /\ user_map_[tx[c].assigned_id].username = rx[c].username

\* registerUser hands out unique, valid IDs as long as no two threads were
\* in conflicting accesses to the database and the counter did not wrap.
\* Handler threads may still overlap everywhere else.
UniqueIdsUnlessRaced == ~raced /\ ~wrapped => UniqueIds

\* Whatever the interleaving, lost updates of next_id_ included, the IDs in
\* use stay below the number of registrations: racing threads share or skip
\* IDs, they never invent larger ones.
IdsBoundedByRegistrations ==
  /\ next_id_ <= Cardinality(Registered)
  /\ \A c \in Registered : tx[c].assigned_id < Cardinality(Registered)

\* A client whose ID was delivered before a users request was sent is in the
\* list that answers the request (unless the list overflowed the buffer or
\* threads raced): the request sees every registration that finished before
\* it, whichever threads served them.
UsersListIsCurrent ==
  ~raced =>
    \A c \in Conns :
      tx[c].type = "RESP_USERS" /\ tx[c].resp_value = 0 =>
        known[c] \ {rx[c].requestor_id}
          \subseteq {u.user_id : u \in tx[c].online_users}

\* A request that was sent is handled to the end and its connection closed,
\* whatever the other connections do - one that never sends, or never reads,
\* holds up nobody - unless the process died.  The fairness this needs is
\* that of module ChatSystem, where the clients are.
RequestsComplete ==
  \A c \in Conns : sock[c] = "data" ~> (pc[c] = "closed" \/ ~up)

\* README.md, 4.2.1: the payload of a register request holds the username to
\* be registered.  The server registers the name the client sent.
RegistersRequestedName ==
  \A c \in Registered : rx[c].username = sent[c].username

-----------------------------------------------------------------------------
(* The inductive invariant behind the properties.                          *)

\* A connection is in the backlog once, until its thread exists; a thread
\* past recv has its request; nothing is in tx_buffer before the handler.
ThreadShape ==
  /\ \A i \in 1 .. Len(backlog) : pc[backlog[i]] = "queued"
  /\ \A i, j \in 1 .. Len(backlog) : backlog[i] = backlog[j] => i = j
  /\ \A c \in Conns :
       /\ pc[c] \notin {"none", "queued", "recv"} => sock[c] # "open"
       /\ pc[c] = "none" => sock[c] = "none"
       /\ pc[c] \notin {"send", "closed"} => tx[c].type = "NONE"

\* Until threads race, at most one is inside registerUser, and the ID it
\* works on is the current value of the counter.
OneRegistrationAtATime ==
  ~raced =>
    /\ \A c, d \in Registering : c = d
    /\ \A c \in Registering :
         /\ key[c] = next_id_
         /\ pc[c] = "store" => old[c] = next_id_
         /\ UserExists(user_map_, next_id_)
         /\ pc[c] # "assign" =>
              user_map_[next_id_].username = rx[c].username

\* Until then every ID that was handed out stays in the database, below the
\* counter if that has not wrapped.
HandedOutIds ==
  ~raced =>
    /\ \A c \in Registered : UserExists(user_map_, tx[c].assigned_id)
    /\ ~wrapped => \A c \in Registered : tx[c].assigned_id < next_id_
    /\ \A c \in Conns : known[c] \subseteq DOMAIN user_map_

UniqueCore ==
  /\ OneRegistrationAtATime
  /\ HandedOutIds
  /\ UniqueIdsUnlessRaced
  /\ UsersListIsCurrent

UniqueInv == TypeOK /\ ThreadShape /\ UniqueCore

\* The bound on the IDs needs the pending values of next_id_++ too.
IdBound ==
  /\ IdsBoundedByRegistrations
  /\ \A c \in Conns : pc[c] = "store" => old[c] <= Cardinality(Registered)

BoundInv == TypeOK /\ ThreadShape /\ IdBound

=============================================================================
