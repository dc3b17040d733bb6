-------------------------- MODULE ServerApp_proofs --------------------------
(* Proofs about ServerApp, for every value of its constants.               *)
EXTENDS ServerApp, FiniteSetTheorems, TLAPS

-----------------------------------------------------------------------------
(* The packets.                                                            *)

\* Whatever part of a request arrives, parsing it gives a Packet.
LEMMA DeliveredType ==
  ASSUME NEW p \in Packets
  PROVE  Delivered(p) \subseteq Packets
<1>1. 0 \in Ids
  BY IdCountAssumption DEF Ids
<1>2. EmptyPacket \in Packets
  BY DEF EmptyPacket, Packets
<1>3. [p EXCEPT !.username = Missing, !.requestor_id = Missing] \in Packets
  BY DEF Packets
<1>4. /\ [p EXCEPT !.username = NoName] \in Packets
      /\ [p EXCEPT !.username = PaddedName] \in Packets
  BY DEF Packets
<1>5. [p EXCEPT !.requestor_id = 0] \in Packets
  BY <1>1 DEF Packets
<1>6. p.requestor_id # Missing =>
        [p EXCEPT !.requestor_id = @ % VarintGroup] \in Packets
  <2> SUFFICES ASSUME p.requestor_id # Missing
               PROVE  p.requestor_id % 128 \in Ids
    BY DEF Packets, VarintGroup
  <2>1. p.requestor_id \in Nat /\ p.requestor_id <= IdCount - 1
    BY IdCountAssumption DEF Packets, Ids
  <2>2. /\ p.requestor_id % 128 \in Nat
        /\ p.requestor_id % 128 <= p.requestor_id
    BY <2>1
  <2> QED
    BY <2>1, <2>2, IdCountAssumption DEF Ids
<1> QED
  BY <1>2, <1>3, <1>4, <1>5, <1>6 DEF Delivered, Truncated

LEMMA RequestType == Requests \subseteq Packets
  BY DEF Requests, Packets

\* SerializeToArray leaves a reply as it is or replaces it by zeros.
LEMMA SerializeType ==
  ASSUME NEW p \in Replies
  PROVE  /\ SerializeToArray(p) \in Replies
         /\ SerializeToArray(p) \in {p, ZeroBytes}
<1>1. 0 \in Ids
  BY IdCountAssumption DEF Ids
<1> QED
  BY <1>1 DEF SerializeToArray, ZeroBytes, Reply, Replies

LEMMA ReplyType ==
  /\ NoReply \in Replies
  /\ \A i \in Ids : RespRegister(i) \in Replies
  /\ \A v \in {0, 1}, u \in SUBSET OnlineUser : RespUsers(v, u) \in Replies
<1>1. 0 \in Ids
  BY IdCountAssumption DEF Ids
<1> QED
  BY <1>1 DEF NoReply, RespRegister, RespUsers, Reply, Replies

\* A register response always fits the buffer.
LEMMA RegisterFits ==
  ASSUME NEW i \in Ids
  PROVE  SerializeToArray(RespRegister(i)) = RespRegister(i)
<1>1. ListSize({}) = 0
  <2>1. {u \in {} : u.username \in LongNames} = {}
    OBVIOUS
  <2> QED
    BY <2>1, FS_EmptySet DEF ListSize
<1> QED
  BY <1>1, BoundsAssumption DEF SerializeToArray, RespRegister, Reply

-----------------------------------------------------------------------------
(* The map.                                                                *)

LEMMA DefaultType == DefaultMetadata \in UserMetadata(Usernames)
  BY DEF DefaultMetadata, UserMetadata, Usernames

LEMMA SuccessorType == \A i \in Ids : Successor(i) \in Ids
  BY IdCountAssumption DEF Successor, Ids

\* Subscripting a map gives a map that holds the key.
LEMMA SubscriptType ==
  ASSUME NEW m, DOMAIN m \subseteq Ids,
         m \in [DOMAIN m -> UserMetadata(Usernames)],
         NEW k \in Ids
  PROVE  /\ DOMAIN Subscript(m, k) = DOMAIN m \cup {k}
         /\ Subscript(m, k) \in [DOMAIN m \cup {k} -> UserMetadata(Usernames)]
         /\ \A i \in DOMAIN m : Subscript(m, k)[i] = m[i]
<1>1. CASE k \in DOMAIN m
  BY <1>1 DEF Subscript
<1>2. CASE k \notin DOMAIN m
  <2>1. Subscript(m, k) = Store(m, k, DefaultMetadata)
    BY <1>2 DEF Subscript
  <2> QED
    BY <1>2, <2>1, DefaultType DEF Store
<1> QED
  BY <1>1, <1>2

LEMMA OtherUsersType ==
  ASSUME NEW m, DOMAIN m \subseteq Ids,
         m \in [DOMAIN m -> UserMetadata(Usernames)],
         NEW id
  PROVE  /\ OtherUsers(m, id) \subseteq OnlineUser
         /\ {u.user_id : u \in OtherUsers(m, id)} = DOMAIN m \ {id}
<1>1. ASSUME NEW i \in DOMAIN m
      PROVE  m[i].username \in Usernames
  BY <1>1 DEF UserMetadata
<1>2. OtherUsers(m, id) \subseteq OnlineUser
  BY <1>1 DEF OtherUsers, OnlineUser
<1>3. {u.user_id : u \in OtherUsers(m, id)} = DOMAIN m \ {id}
  <2>1. ASSUME NEW i \in DOMAIN m \ {id}
        PROVE  i \in {u.user_id : u \in OtherUsers(m, id)}
    <3> DEFINE w == [user_id |-> i, username |-> m[i].username]
    <3>1. w \in OtherUsers(m, id)
      BY DEF OtherUsers
    <3>2. w.user_id = i
      OBVIOUS
    <3> QED
      BY <3>1, <3>2
  <2>2. ASSUME NEW u \in OtherUsers(m, id)
        PROVE  u.user_id \in DOMAIN m \ {id}
    BY DEF OtherUsers
  <2> QED
    BY <2>1, <2>2
<1> QED
  BY <1>2, <1>3

-----------------------------------------------------------------------------
(* Type correctness.                                                       *)

LEMMA InitType == Init => TypeOK
<1> SUFFICES ASSUME Init PROVE TypeOK
  OBVIOUS
<1>1. 0 \in Ids
  BY IdCountAssumption DEF Ids
<1>2. EmptyPacket \in Packets
  BY DEF EmptyPacket, Packets
<1>3. /\ DOMAIN user_map_ \subseteq Ids
      /\ user_map_ \in [DOMAIN user_map_ -> UserMetadata(Usernames)]
  BY DEF Init
<1>4. /\ backlog \in Seq(Conns)
      /\ known \in [Conns -> SUBSET Ids]
      /\ tx \in [Conns -> Replies]
  BY ReplyType DEF Init
<1> QED
  BY <1>1, <1>2, <1>3, <1>4 DEF Init, TypeOK, PC

\* Every step keeps the types; the map and the reply are the cases to watch.
LEMMA NextType == TypeOK /\ [Next]_vars => TypeOK'
<1> SUFFICES ASSUME TypeOK, [Next]_vars PROVE TypeOK'
  OBVIOUS
<1> USE DEF TypeOK
<1>1. CASE Accept
  BY <1>1 DEF Accept, db, locals, PC
<1>2. CASE Crash
  BY <1>2 DEF Crash, db, client, locals
<1>3. ASSUME NEW c \in Conns, Connect(c) PROVE TypeOK'
  BY <1>3 DEF Connect, db, locals, PC
<1>4. ASSUME NEW c \in Conns, NEW p \in Requests, ClientSend(c, p)
      PROVE  TypeOK'
  <2>1. \A d \in Conns : tx[d].assigned_id \in Ids
    BY DEF Replies
  <2> QED
    BY <1>4, <2>1, RequestType DEF ClientSend, Registered, db, locals
<1>5. ASSUME NEW c \in Conns, ClientQuit(c) PROVE TypeOK'
  BY <1>5 DEF ClientQuit, db, locals
<1>6. ASSUME NEW c \in Conns, Receive(c) PROVE TypeOK'
  <2>1. PICK p \in (IF sock[c] = "data"  THEN Delivered(sent[c]) ELSE
                    IF sock[c] = "reset" THEN {EmptyPacket}      ELSE {}) :
          /\ rx' = [rx EXCEPT ![c] = p]
          /\ pc' = [pc EXCEPT ![c] = Handler(p)]
    BY <1>6 DEF Receive
  <2>2. p \in Packets
    <3>1. EmptyPacket \in Packets
      BY DEF EmptyPacket, Packets
    <3> QED
      BY <2>1, <3>1, DeliveredType
  <2>3. /\ Handler(p) \in {"insert", "lookup", "send"}
        /\ Handler(p) = "insert" => p.username # Missing
        /\ Handler(p) = "lookup" => p.requestor_id # Missing
    BY DEF Handler
  <2> QED
    BY <1>6, <2>1, <2>2, <2>3 DEF Receive, db, client, PC
<1>7. ASSUME NEW c \in Conns, RegInsert(c) PROVE TypeOK'
  <2>1. PICK lost : user_map_' = Subscript(Without(user_map_, lost), next_id_)
    BY <1>7 DEF RegInsert
  <2> DEFINE w == Without(user_map_, lost)
  <2>2. /\ DOMAIN w \subseteq Ids
        /\ w \in [DOMAIN w -> UserMetadata(Usernames)]
    BY DEF Without
  <2> HIDE DEF w
  <2>3. /\ DOMAIN Subscript(w, next_id_) = DOMAIN w \cup {next_id_}
        /\ Subscript(w, next_id_)
             \in [DOMAIN w \cup {next_id_} -> UserMetadata(Usernames)]
    BY <2>2, SubscriptType
  <2>4. /\ DOMAIN user_map_' \subseteq Ids
        /\ user_map_' \in [DOMAIN user_map_' -> UserMetadata(Usernames)]
    BY <2>1, <2>2, <2>3 DEF w
  <2> QED
    BY <1>7, <2>4 DEF RegInsert, client, PC
<1>8. ASSUME NEW c \in Conns, RegAssign(c) PROVE TypeOK'
  <2> DEFINE v == [username |-> rx[c].username, msg_q |-> << >>]
  <2>1. v \in UserMetadata(Usernames)
    BY <1>8 DEF RegAssign, UserMetadata, Usernames, Packets
  <2> HIDE DEF v
  <2>2. /\ DOMAIN user_map_' \subseteq Ids
        /\ user_map_' \in [DOMAIN user_map_' -> UserMetadata(Usernames)]
    <3>1. CASE key[c] \in DOMAIN user_map_
      <4>1. user_map_' = Store(user_map_, key[c], v)
        BY <1>8, <3>1 DEF RegAssign, v
      <4> QED
        BY <2>1, <4>1 DEF Store
    <3> QED
      BY <1>8, <3>1 DEF RegAssign
  <2> QED
    BY <1>8, <2>2 DEF RegAssign, client, locals, PC
<1>9. ASSUME NEW c \in Conns, RegLoad(c) PROVE TypeOK'
  BY <1>9 DEF RegLoad, db, client, PC
<1>10. ASSUME NEW c \in Conns, RegStore(c) PROVE TypeOK'
  <2>1. SerializeToArray(RespRegister(old[c])) \in Replies
    BY ReplyType, RegisterFits
  <2>2. Successor(old[c]) \in Ids
    BY SuccessorType
  <2>3. PICK r \in Replies, i \in Ids :
          r = SerializeToArray(RespRegister(old[c])) /\ i = Successor(old[c])
    BY <2>1, <2>2
  <2>4. /\ next_id_' = i /\ tx' = [tx EXCEPT ![c] = r] /\ wrapped' = (wrapped \/ i = 0)
        /\ pc' = [pc EXCEPT ![c] = "send"]
        /\ UNCHANGED <<up, user_map_, client, rx, key, old, raced>>
    BY <1>10, <2>3 DEF RegStore
  <2> QED
    BY <2>4 DEF client, PC
<1>11. ASSUME NEW c \in Conns, UsersLookup(c) PROVE TypeOK'
  <2>1. RespUsers(1, {}) \in Replies
    BY ReplyType
  <2>2. SerializeToArray(RespUsers(1, {})) \in Replies
    BY <2>1, SerializeType
  <2> QED
    BY <1>11, <2>2 DEF UsersLookup, db, client, PC
<1>12. ASSUME NEW c \in Conns, UsersIterate(c) PROVE TypeOK'
  <2>1. PICK seen \in SUBSET OtherUsers(user_map_, rx[c].requestor_id) :
          tx' = [tx EXCEPT ![c] = SerializeToArray(RespUsers(0, seen))]
    BY <1>12 DEF UsersIterate
  <2>2. seen \in SUBSET OnlineUser
    BY <2>1, OtherUsersType
  <2>3. RespUsers(0, seen) \in Replies
    BY <2>2, ReplyType
  <2>4. SerializeToArray(RespUsers(0, seen)) \in Replies
    BY <2>3, SerializeType
  <2> QED
    BY <1>12, <2>1, <2>4 DEF UsersIterate, db, client, PC
<1>13. ASSUME NEW c \in Conns, Send(c) PROVE TypeOK'
  BY <1>13 DEF Send, db, client, locals, PC
<1>14. CASE UNCHANGED vars
  BY <1>14 DEF vars, db, client, locals
<1> QED
  BY <1>1, <1>2, <1>3, <1>4, <1>5, <1>6, <1>7, <1>8, <1>9, <1>10, <1>11,
     <1>12, <1>13, <1>14 DEF Next, Thread

\* The variables of the server always have their types, with next_id_ and
\* every stored ID in range even when it wraps, for any number of clients.
THEOREM TypeCorrect == Spec => []TypeOK
  BY InitType, NextType, PTL DEF Spec

-----------------------------------------------------------------------------
(* The life of a connection.                                               *)

LEMMA InitShape == Init => ThreadShape
  BY DEF Init, ThreadShape, NoReply, Reply

\* A handler's only effects on the shape: it leaves the states in which a
\* connection may wait, and fills tx_buffer on its way to send.
LEMMA NextShape == TypeOK /\ ThreadShape /\ [Next]_vars => ThreadShape'
<1> SUFFICES ASSUME TypeOK, ThreadShape, [Next]_vars PROVE ThreadShape'
  OBVIOUS
<1> USE DEF TypeOK, ThreadShape
<1>1. CASE Accept
  <2>1. /\ Head(backlog) = backlog[1]
        /\ Head(backlog) \in Conns
        /\ Tail(backlog) \in Seq(Conns)
        /\ Len(backlog') = Len(backlog) - 1
        /\ Len(backlog) \in Nat \ {0}
        /\ \A i \in 1 .. Len(backlog') : backlog'[i] = backlog[i + 1]
    BY <1>1 DEF Accept
  <2>2. \A i \in 1 .. Len(backlog') : pc'[backlog'[i]] = "queued"
    <3> SUFFICES ASSUME NEW i \in 1 .. Len(backlog')
                 PROVE  pc'[backlog'[i]] = "queued"
      OBVIOUS
    <3>1. /\ i + 1 \in 1 .. Len(backlog)
          /\ 1 \in 1 .. Len(backlog)
          /\ i + 1 # 1
      BY <2>1
    <3>2. /\ backlog[i + 1] \in Conns
          /\ backlog[i + 1] # backlog[1]
          /\ pc[backlog[i + 1]] = "queued"
      BY <3>1
    <3> QED
      BY <1>1, <2>1, <3>2 DEF Accept
  <2>3. \A i, j \in 1 .. Len(backlog') : backlog'[i] = backlog'[j] => i = j
    <3> SUFFICES ASSUME NEW i \in 1 .. Len(backlog'),
                        NEW j \in 1 .. Len(backlog'),
                        backlog'[i] = backlog'[j]
                 PROVE  i = j
      OBVIOUS
    <3>1. /\ i + 1 \in 1 .. Len(backlog)
          /\ j + 1 \in 1 .. Len(backlog)
          /\ backlog[i + 1] = backlog[j + 1]
      BY <2>1
    <3>2. i + 1 = j + 1
      BY <3>1
    <3> QED
      BY <3>2
  <2>4. pc[Head(backlog)] = "queued"
    BY <2>1
  <2> QED
    BY <1>1, <2>1, <2>2, <2>3, <2>4 DEF Accept, locals
<1>2. CASE Crash
  BY <1>2 DEF Crash, client, locals
<1>3. ASSUME NEW c \in Conns, Connect(c) PROVE ThreadShape'
  <2>1. /\ Len(backlog) \in Nat
        /\ Len(backlog') = Len(backlog) + 1
        /\ \A i \in 1 .. Len(backlog) : backlog'[i] = backlog[i]
        /\ backlog'[Len(backlog) + 1] = c
    BY <1>3 DEF Connect
  <2>2. \A i \in 1 .. Len(backlog) : backlog[i] # c
    BY <1>3 DEF Connect
  <2>3. \A i \in 1 .. Len(backlog') : pc'[backlog'[i]] = "queued"
    BY <1>3, <2>1, <2>2 DEF Connect
  <2>4. \A i, j \in 1 .. Len(backlog') : backlog'[i] = backlog'[j] => i = j
    BY <2>1, <2>2
  <2> QED
    BY <1>3, <2>3, <2>4 DEF Connect, locals
<1>4. ASSUME NEW c \in Conns, NEW p \in Requests, ClientSend(c, p)
      PROVE  ThreadShape'
  BY <1>4 DEF ClientSend, locals
<1>5. ASSUME NEW c \in Conns, ClientQuit(c) PROVE ThreadShape'
  BY <1>5 DEF ClientQuit, locals
<1>6. ASSUME NEW c \in Conns,
             \/ Receive(c) \/ RegInsert(c) \/ RegAssign(c) \/ RegLoad(c)
             \/ RegStore(c) \/ UsersLookup(c) \/ UsersIterate(c) \/ Send(c)
      PROVE  ThreadShape'
  <2>1. /\ pc[c] \notin {"none", "queued", "closed"}
        /\ pc'[c] \notin {"none", "queued", "recv"}
        /\ \A d \in Conns \ {c} : pc'[d] = pc[d] /\ tx'[d] = tx[d]
        /\ backlog' = backlog /\ sock' = sock
        /\ pc[c] = "recv" => sock[c] # "open"
        /\ pc'[c] \notin {"send", "closed"} => tx'[c] = tx[c]
        /\ pc[c] = "send" => pc'[c] = "closed"
    BY <1>6 DEF Receive, Handler, RegInsert, RegAssign, RegLoad, RegStore,
                UsersLookup, UsersIterate, Send, client, locals
  <2>2. \A i \in 1 .. Len(backlog) : backlog[i] \in Conns \ {c}
    BY <2>1
  <2> QED
    BY <2>1, <2>2
<1>7. CASE UNCHANGED vars
  BY <1>7 DEF vars, client, locals
<1> QED
  BY <1>1, <1>2, <1>3, <1>4, <1>5, <1>6, <1>7 DEF Next, Thread

-----------------------------------------------------------------------------
(* Unique IDs and current lists of users.                                  *)

LEMMA InitUnique == Init => UniqueCore
  BY DEF Init, UniqueCore, OneRegistrationAtATime, HandedOutIds,
         UniqueIdsUnlessRaced, UniqueIds, UsersListIsCurrent, Registering,
         Registered, NoReply, Reply

\* Steps outside the handlers' accesses to the database disturb nothing.
LEMMA QuietStep ==
  ASSUME UniqueCore, TypeOK,
         UNCHANGED <<db, tx, key, old, raced, wrapped, known>>,
         \A d \in Conns :
           pc[d] # pc'[d] => {pc[d], pc'[d]} \cap {"assign", "load", "store"}
                               = {},
         \A d \in Conns :
           d \in Registering \/ tx[d].type # "NONE" => rx'[d] = rx[d]
  PROVE  UniqueCore'
<1>1. Registering' = Registering /\ Registered' = Registered
  BY DEF Registering, Registered, TypeOK
<1>2. \A c \in Registering : pc'[c] = pc[c] /\ rx'[c] = rx[c] /\ c \in Conns
  BY DEF Registering, TypeOK
<1>3. \A c \in Registered : rx'[c] = rx[c] /\ c \in Conns
  BY DEF Registered, TypeOK
<1>4. OneRegistrationAtATime'
  BY <1>1, <1>2 DEF UniqueCore, OneRegistrationAtATime, UserExists, db
<1>5. HandedOutIds'
  BY <1>1 DEF UniqueCore, HandedOutIds, UserExists, db
<1>6. UniqueIdsUnlessRaced'
  BY <1>1, <1>3 DEF UniqueCore, UniqueIdsUnlessRaced, UniqueIds, UserExists,
                    db
<1>7. UsersListIsCurrent'
  BY DEF UniqueCore, UsersListIsCurrent
<1> QED
  BY <1>4, <1>5, <1>6, <1>7 DEF UniqueCore

\* What the client learned before it sends is what registerUser answered.
LEMMA ClientSendUnique ==
  ASSUME UniqueCore, TypeOK, ThreadShape,
         NEW c \in Conns, NEW p \in Requests, ClientSend(c, p)
  PROVE  UniqueCore'
<1>1. /\ UNCHANGED <<db, tx, rx, pc, key, old, raced, wrapped>>
      /\ known' = [known EXCEPT ![c] =
           {tx[d].assigned_id : d \in {x \in Registered : pc[x] = "closed"}}]
  BY DEF ClientSend, locals
<1>2. tx[c].type = "NONE"
  BY DEF ClientSend, ThreadShape, TypeOK
<1>3. Registering' = Registering /\ Registered' = Registered
  BY <1>1 DEF Registering, Registered
<1>4. OneRegistrationAtATime'
  BY <1>1, <1>3 DEF UniqueCore, OneRegistrationAtATime, UserExists, db
<1>5. HandedOutIds'
  BY <1>1, <1>3 DEF UniqueCore, HandedOutIds, UserExists, db, TypeOK
<1>6. UniqueIdsUnlessRaced'
  BY <1>1, <1>3 DEF UniqueCore, UniqueIdsUnlessRaced, UniqueIds, UserExists,
                    db
<1>7. UsersListIsCurrent'
  BY <1>1, <1>2 DEF UniqueCore, UsersListIsCurrent, TypeOK
<1> QED
  BY <1>4, <1>5, <1>6, <1>7 DEF UniqueCore

\* Without a race the insertion finds nobody else in registerUser: it keeps
\* every entry, and works on an ID above all that were handed out.
LEMMA RegInsertUnique ==
  ASSUME UniqueCore, TypeOK, ThreadShape, NEW c \in Conns, RegInsert(c)
  PROVE  UniqueCore'
<1> SUFFICES ASSUME ~raced' PROVE UniqueCore'
  BY DEF UniqueCore, OneRegistrationAtATime, HandedOutIds,
         UniqueIdsUnlessRaced, UsersListIsCurrent
<1>1. /\ ~raced /\ Registering = {}
      /\ UNCHANGED <<next_id_, tx, rx, old, wrapped, known>>
      /\ pc[c] = "insert"
      /\ pc' = [pc EXCEPT ![c] = "assign"]
      /\ key' = [key EXCEPT ![c] = next_id_]
  BY DEF RegInsert, client, TypeOK
<1>2. user_map_' = Subscript(Without(user_map_, {}), next_id_)
  <2>1. Writing = {}
    BY <1>1 DEF Writing, Registering
  <2>2. {key[d] : d \in Writing} = {}
    BY <2>1
  <2>3. PICK lost \in SUBSET {key[d] : d \in Writing} :
          user_map_' = Subscript(Without(user_map_, lost), next_id_)
    BY DEF RegInsert
  <2>4. lost = {}
    BY <2>2, <2>3
  <2> QED
    BY <2>3, <2>4
<1>3. Without(user_map_, {}) = user_map_
  BY DEF Without, TypeOK
<1>4. /\ DOMAIN user_map_' = DOMAIN user_map_ \cup {next_id_}
      /\ \A i \in DOMAIN user_map_ : user_map_'[i] = user_map_[i]
  BY <1>2, <1>3 DEF Subscript, Store
<1>5. Registering' = {c} /\ Registered' = Registered
  BY <1>1 DEF Registering, Registered, TypeOK
<1>6. OneRegistrationAtATime'
  BY <1>1, <1>4, <1>5 DEF OneRegistrationAtATime, UserExists, TypeOK
<1>7. HandedOutIds'
  BY <1>1, <1>4, <1>5 DEF UniqueCore, HandedOutIds, UserExists
<1>8. UniqueIdsUnlessRaced'
  BY <1>1, <1>4, <1>5 DEF UniqueCore, UniqueIdsUnlessRaced, UniqueIds,
                          UserExists
<1>9. UsersListIsCurrent'
  BY <1>1 DEF UniqueCore, UsersListIsCurrent
<1> QED
  BY <1>6, <1>7, <1>8, <1>9 DEF UniqueCore

\* The assignment writes the entry of the ID being handed out, no other.
LEMMA RegAssignUnique ==
  ASSUME UniqueCore, TypeOK, ThreadShape, NEW c \in Conns, RegAssign(c)
  PROVE  UniqueCore'
<1> SUFFICES ASSUME ~raced' PROVE UniqueCore'
  BY DEF UniqueCore, OneRegistrationAtATime, HandedOutIds,
         UniqueIdsUnlessRaced, UsersListIsCurrent
<1>1. /\ ~raced
      /\ UNCHANGED <<next_id_, tx, rx, key, old, wrapped, known>>
      /\ pc[c] = "assign"
      /\ pc' = [pc EXCEPT ![c] = "load"]
  BY DEF RegAssign, client, locals
<1>2. /\ Registering = {c}
      /\ key[c] = next_id_
      /\ next_id_ \in DOMAIN user_map_
  BY <1>1 DEF UniqueCore, OneRegistrationAtATime, Registering, UserExists
<1>3. /\ DOMAIN user_map_' = DOMAIN user_map_
      /\ user_map_'[next_id_].username = rx[c].username
      /\ \A i \in DOMAIN user_map_ \ {next_id_} :
           user_map_'[i] = user_map_[i]
  BY <1>2 DEF RegAssign, Store
<1>4. Registering' = {c} /\ Registered' = Registered
  BY <1>1, <1>2 DEF Registering, Registered, TypeOK
<1>5. OneRegistrationAtATime'
  BY <1>1, <1>2, <1>3, <1>4 DEF OneRegistrationAtATime, UserExists, TypeOK
<1>6. HandedOutIds'
  BY <1>1, <1>3, <1>4 DEF UniqueCore, HandedOutIds, UserExists
<1>7. UniqueIdsUnlessRaced'
  <2> SUFFICES ASSUME ~wrapped PROVE UniqueIds'
    BY <1>1 DEF UniqueIdsUnlessRaced
  <2>1. \A d \in Registered : tx[d].assigned_id \in DOMAIN user_map_ \ {next_id_}
    BY <1>1 DEF UniqueCore, HandedOutIds, UserExists, TypeOK, Ids
  <2> QED
    BY <1>1, <1>3, <1>4, <2>1 DEF UniqueCore, UniqueIdsUnlessRaced, UniqueIds,
                                  UserExists
<1>8. UsersListIsCurrent'
  BY <1>1 DEF UniqueCore, UsersListIsCurrent
<1> QED
  BY <1>5, <1>6, <1>7, <1>8 DEF UniqueCore

\* The increment starts from the ID just stored, so the counter moves past
\* it, and the answer carries an ID that nobody else holds.
LEMMA RegStoreUnique ==
  ASSUME UniqueCore, TypeOK, ThreadShape, NEW c \in Conns, RegStore(c)
  PROVE  UniqueCore'
<1> SUFFICES ASSUME ~raced' PROVE UniqueCore'
  BY DEF UniqueCore, OneRegistrationAtATime, HandedOutIds,
         UniqueIdsUnlessRaced, UsersListIsCurrent
<1>1. /\ ~raced
      /\ UNCHANGED <<user_map_, rx, key, old, known>>
      /\ pc[c] = "store"
      /\ pc' = [pc EXCEPT ![c] = "send"]
      /\ next_id_' = Successor(old[c])
      /\ wrapped' = (wrapped \/ Successor(old[c]) = 0)
  BY DEF RegStore, client
<1>2. /\ Registering = {c}
      /\ old[c] = next_id_
      /\ next_id_ \in DOMAIN user_map_
      /\ user_map_[next_id_].username = rx[c].username
  BY <1>1 DEF UniqueCore, OneRegistrationAtATime, Registering, UserExists
<1>3. /\ tx' = [tx EXCEPT ![c] = RespRegister(next_id_)]
      /\ tx'[c].type = "RESP_REGISTER"
      /\ tx'[c].assigned_id = next_id_
  <2>1. SerializeToArray(RespRegister(old[c])) = RespRegister(old[c])
    BY RegisterFits DEF TypeOK
  <2>2. tx' = [tx EXCEPT ![c] = RespRegister(next_id_)]
    BY <1>2, <2>1 DEF RegStore
  <2> QED
    BY <2>2 DEF RespRegister, Reply, TypeOK
<1>4. Registering' = {}
  BY <1>1, <1>2 DEF Registering, TypeOK
<1>5. /\ Registered' = Registered \cup {c}
      /\ \A d \in Registered : d # c /\ tx'[d] = tx[d]
  BY <1>1, <1>3 DEF Registered, ThreadShape, TypeOK
<1>6. ~wrapped' => ~wrapped /\ next_id_' = next_id_ + 1
  BY <1>1, <1>2 DEF Successor
<1>7. next_id_ \in Nat /\ \A d \in Conns : tx[d].assigned_id \in Nat
  BY IdCountAssumption DEF TypeOK, Replies, Ids
<1>8. \A d \in Registered : d \in Conns
  BY DEF Registered
<1>9. OneRegistrationAtATime'
  BY <1>4 DEF OneRegistrationAtATime
<1>10. HandedOutIds'
  <2>1. \A d \in Registered' : UserExists(user_map_, tx[d].assigned_id)'
    BY <1>1, <1>2, <1>3, <1>5 DEF UniqueCore, HandedOutIds, UserExists
  <2>2. ~wrapped' => \A d \in Registered' : tx'[d].assigned_id < next_id_'
    BY <1>1, <1>3, <1>5, <1>6, <1>7, <1>8 DEF UniqueCore, HandedOutIds
  <2> QED
    BY <1>1, <2>1, <2>2 DEF UniqueCore, HandedOutIds
<1>11. UniqueIdsUnlessRaced'
  <2> SUFFICES ASSUME ~wrapped' PROVE UniqueIds'
    BY DEF UniqueIdsUnlessRaced
  <2>1. \A d \in Registered : tx[d].assigned_id # next_id_
    BY <1>1, <1>6, <1>7, <1>8 DEF UniqueCore, HandedOutIds
  <2>2. UniqueIds
    BY <1>1, <1>6 DEF UniqueCore, UniqueIdsUnlessRaced
  <2> QED
    BY <1>1, <1>2, <1>3, <1>5, <2>1, <2>2 DEF UniqueIds, UserExists
<1>12. UsersListIsCurrent'
  BY <1>1, <1>3 DEF UniqueCore, UsersListIsCurrent, TypeOK
<1> QED
  BY <1>9, <1>10, <1>11, <1>12 DEF UniqueCore

\* An answer to a users request changes no registration; one that lists
\* users lists every other ID the map holds, hence the known ones.
LEMMA UsersUnique ==
  ASSUME UniqueCore, TypeOK, ThreadShape, NEW c \in Conns,
         UsersLookup(c) \/ UsersIterate(c)
  PROVE  UniqueCore'
<1> SUFFICES ASSUME ~raced' PROVE UniqueCore'
  BY DEF UniqueCore, OneRegistrationAtATime, HandedOutIds,
         UniqueIdsUnlessRaced, UsersListIsCurrent
<1>1. /\ ~raced /\ Writing = {}
      /\ UNCHANGED <<db, rx, key, old, wrapped, known>>
      /\ pc[c] \in {"lookup", "iterate"}
      /\ pc'[c] \in {"iterate", "send"}
      /\ \A d \in Conns \ {c} : pc'[d] = pc[d] /\ tx'[d] = tx[d]
  BY DEF UsersLookup, UsersIterate, client, TypeOK
<1>2. \/ tx'[c] = tx[c]
      \/ tx'[c] \in {RespUsers(1, {}), ZeroBytes}
      \/ tx'[c] \in {RespUsers(0, OtherUsers(user_map_, rx[c].requestor_id)),
                     ZeroBytes}
  <2>1. CASE UsersLookup(c)
    BY <1>1, <2>1 DEF UsersLookup, SerializeToArray, TypeOK
  <2>2. CASE UsersIterate(c)
    BY <1>1, <2>2 DEF UsersIterate, SerializeToArray, TypeOK
  <2> QED
    BY <2>1, <2>2
<1>3. /\ tx[c].type = "NONE"
      /\ tx'[c].type # "RESP_REGISTER"
      /\ tx'[c].type = "RESP_USERS" /\ tx'[c].resp_value = 0 =>
           tx'[c].online_users = OtherUsers(user_map_, rx[c].requestor_id)
  <2>1. tx[c].type = "NONE"
    BY <1>1 DEF ThreadShape
  <2> QED
    BY <1>2, <2>1 DEF RespUsers, ZeroBytes, Reply
<1>4. Registering' = Registering
  BY <1>1 DEF Registering
<1>5. /\ Registered' = Registered
      /\ \A d \in Registered : d # c /\ tx'[d] = tx[d]
  BY <1>1, <1>3 DEF Registered
<1>6. \A d \in Registering : d # c /\ pc'[d] = pc[d]
  BY <1>1 DEF Registering
<1>7. OneRegistrationAtATime'
  BY <1>1, <1>4, <1>6 DEF UniqueCore, OneRegistrationAtATime, UserExists, db
<1>8. HandedOutIds'
  BY <1>1, <1>5 DEF UniqueCore, HandedOutIds, UserExists, db
<1>9. UniqueIdsUnlessRaced'
  BY <1>1, <1>5 DEF UniqueCore, UniqueIdsUnlessRaced, UniqueIds, UserExists,
                    db
<1>10. UsersListIsCurrent'
  <2>1. {u.user_id : u \in OtherUsers(user_map_, rx[c].requestor_id)}
          = DOMAIN user_map_ \ {rx[c].requestor_id}
    BY OtherUsersType DEF TypeOK
  <2>2. known[c] \subseteq DOMAIN user_map_
    BY <1>1 DEF UniqueCore, HandedOutIds
  <2>3. tx'[c].type = "RESP_USERS" /\ tx'[c].resp_value = 0 =>
          known'[c] \ {rx'[c].requestor_id}
            \subseteq {u.user_id : u \in tx'[c].online_users}
    BY <1>1, <1>3, <2>1, <2>2
  <2>4. ASSUME NEW d \in Conns \ {c}, tx'[d].type = "RESP_USERS",
               tx'[d].resp_value = 0
        PROVE  known'[d] \ {rx'[d].requestor_id}
                 \subseteq {u.user_id : u \in tx'[d].online_users}
    BY <1>1, <2>4 DEF UniqueCore, UsersListIsCurrent
  <2> QED
    BY <2>3, <2>4 DEF UsersListIsCurrent
<1> QED
  BY <1>7, <1>8, <1>9, <1>10 DEF UniqueCore

LEMMA NextUnique ==
  UniqueCore /\ TypeOK /\ ThreadShape /\ [Next]_vars => UniqueCore'
<1> SUFFICES ASSUME UniqueCore, TypeOK, ThreadShape, [Next]_vars
             PROVE  UniqueCore'
  OBVIOUS
<1>1. CASE Accept
  <2>1. /\ Head(backlog) \in Conns
        /\ pc[Head(backlog)] = "queued"
    <3>1. /\ Head(backlog) = backlog[1]
          /\ Len(backlog) \in Nat \ {0}
          /\ backlog[1] \in Conns
      BY <1>1 DEF Accept, TypeOK
    <3> QED
      BY <3>1 DEF ThreadShape
  <2> QED
    BY <1>1, <2>1, QuietStep DEF Accept, locals, db, TypeOK
<1>2. CASE Crash
  BY <1>2, QuietStep DEF Crash, client, locals, db
<1>3. ASSUME NEW c \in Conns, Connect(c) PROVE UniqueCore'
  BY <1>3, QuietStep DEF Connect, locals, db, TypeOK
<1>4. ASSUME NEW c \in Conns, NEW p \in Requests, ClientSend(c, p)
      PROVE  UniqueCore'
  BY <1>4, ClientSendUnique
<1>5. ASSUME NEW c \in Conns, ClientQuit(c) PROVE UniqueCore'
  BY <1>5, QuietStep DEF ClientQuit, locals, db
<1>6. ASSUME NEW c \in Conns, Receive(c) PROVE UniqueCore'
  <2>1. /\ UNCHANGED <<db, tx, key, old, raced, wrapped, known>>
        /\ pc[c] = "recv"
        /\ pc'[c] \notin {"assign", "load", "store"}
        /\ tx[c].type = "NONE"
        /\ \A d \in Conns \ {c} : pc'[d] = pc[d] /\ rx'[d] = rx[d]
    BY <1>6 DEF Receive, Handler, client, TypeOK, ThreadShape
  <2> QED
    BY <2>1, QuietStep DEF Registering
<1>7. ASSUME NEW c \in Conns, RegInsert(c) PROVE UniqueCore'
  BY <1>7, RegInsertUnique
<1>8. ASSUME NEW c \in Conns, RegAssign(c) PROVE UniqueCore'
  BY <1>8, RegAssignUnique
<1>9. ASSUME NEW c \in Conns, RegLoad(c) PROVE UniqueCore'
  <2>1. /\ UNCHANGED <<db, tx, rx, key, raced, wrapped, known>>
        /\ pc[c] = "load"
        /\ pc' = [pc EXCEPT ![c] = "store"]
        /\ old' = [old EXCEPT ![c] = next_id_]
    BY <1>9 DEF RegLoad, client
  <2>2. Registering' = Registering /\ Registered' = Registered
    BY <2>1 DEF Registering, Registered, TypeOK
  <2>3. OneRegistrationAtATime'
    BY <2>1, <2>2 DEF UniqueCore, OneRegistrationAtATime, Registering,
                      UserExists, db, TypeOK
  <2>4. HandedOutIds'
    BY <2>1, <2>2 DEF UniqueCore, HandedOutIds, UserExists, db
  <2>5. UniqueIdsUnlessRaced'
    BY <2>1, <2>2 DEF UniqueCore, UniqueIdsUnlessRaced, UniqueIds,
                      UserExists, db
  <2>6. UsersListIsCurrent'
    BY <2>1 DEF UniqueCore, UsersListIsCurrent
  <2> QED
    BY <2>3, <2>4, <2>5, <2>6 DEF UniqueCore
<1>10. ASSUME NEW c \in Conns, RegStore(c) PROVE UniqueCore'
  BY <1>10, RegStoreUnique
<1>11. ASSUME NEW c \in Conns, UsersLookup(c) \/ UsersIterate(c)
       PROVE  UniqueCore'
  BY <1>11, UsersUnique
<1>12. ASSUME NEW c \in Conns, Send(c) PROVE UniqueCore'
  BY <1>12, QuietStep DEF Send, client, locals, db, TypeOK
<1>13. CASE UNCHANGED vars
  BY <1>13, QuietStep DEF vars, client, locals, db
<1> QED
  BY <1>1, <1>2, <1>3, <1>4, <1>5, <1>6, <1>7, <1>8, <1>9, <1>10, <1>11,
     <1>12, <1>13 DEF Next, Thread

LEMMA UniqueInvariance == Spec => []UniqueInv
<1>1. Init => UniqueInv
  BY InitType, InitShape, InitUnique DEF UniqueInv
<1>2. UniqueInv /\ [Next]_vars => UniqueInv'
  BY NextType, NextShape, NextUnique DEF UniqueInv
<1> QED
  BY <1>1, <1>2, PTL DEF Spec

\* Database::registerUser gives every client an ID of its own, under which
\* the database holds that client's name, as long as the handler threads do
\* not race in the database and the 32-bit counter does not wrap.
THEOREM UniqueIdsTheorem == Spec => []UniqueIdsUnlessRaced
<1>1. UniqueInv => UniqueIdsUnlessRaced
  BY DEF UniqueInv, UniqueCore
<1> QED
  BY <1>1, UniqueInvariance, PTL

\* handleRequestUsers lists every client that had its ID before the request
\* was sent, unless threads raced or the list did not fit the buffer.
THEOREM UsersListTheorem == Spec => []UsersListIsCurrent
<1>1. UniqueInv => UsersListIsCurrent
  BY DEF UniqueInv, UniqueCore
<1> QED
  BY <1>1, UniqueInvariance, PTL

-----------------------------------------------------------------------------
(* The bound on the IDs, with or without races.                            *)

LEMMA RegisteredFinite ==
  /\ IsFiniteSet(Registered)
  /\ Cardinality(Registered) \in Nat
<1>1. IsFiniteSet(Registered)
  BY ConnsAssumption, FS_Subset DEF Registered
<1> QED
  BY <1>1, FS_CardinalityType

\* A step that answers no registration keeps the bound if it reads into
\* old[] nothing but the counter.
LEMMA KeepsBound ==
  ASSUME IdBound, TypeOK,
         UNCHANGED next_id_,
         \A d \in Conns : \/ tx'[d] = tx[d]
                          \/ /\ tx[d].type # "RESP_REGISTER"
                             /\ tx'[d].type # "RESP_REGISTER",
         \A d \in Conns : pc'[d] = "store" =>
                            \/ pc[d] = "store" /\ old'[d] = old[d]
                            \/ old'[d] = next_id_
  PROVE  IdBound'
<1>1. /\ Registered' = Registered
      /\ \A d \in Registered : tx'[d] = tx[d]
  BY DEF Registered
<1> QED
  BY <1>1 DEF IdBound, IdsBoundedByRegistrations

LEMMA RegStoreBound ==
  ASSUME IdBound, TypeOK, ThreadShape, NEW c \in Conns, RegStore(c)
  PROVE  IdBound'
<1> DEFINE n == Cardinality(Registered)
<1>1. /\ pc[c] = "store"
      /\ pc' = [pc EXCEPT ![c] = "send"]
      /\ old' = old
      /\ next_id_' = Successor(old[c])
  BY DEF RegStore
<1>2. SerializeToArray(RespRegister(old[c])) = RespRegister(old[c])
  BY RegisterFits DEF TypeOK
<1>3. /\ tx'[c].type = "RESP_REGISTER"
      /\ tx'[c].assigned_id = old[c]
      /\ \A d \in Conns \ {c} : tx'[d] = tx[d]
  BY <1>2 DEF RegStore, RespRegister, Reply, TypeOK
<1>4. c \notin Registered
  BY <1>1 DEF Registered, ThreadShape
<1>5. Registered' = Registered \cup {c}
  BY <1>3 DEF Registered
<1>6. Cardinality(Registered') = n + 1
  BY <1>4, <1>5, RegisteredFinite, FS_AddElement
<1>7. /\ n \in Nat /\ old[c] \in Nat /\ old[c] <= n
      /\ \A d \in Conns : tx[d].assigned_id \in Nat /\ old[d] \in Nat
  BY <1>1, RegisteredFinite, IdCountAssumption
     DEF IdBound, TypeOK, Ids, Replies
<1> HIDE DEF n
<1>8. next_id_' <= n + 1
  BY <1>1, <1>7 DEF Successor
<1>9. \A d \in Registered' : tx'[d].assigned_id < n + 1
  <2>1. \A d \in Registered : /\ d \in Conns \ {c}
                              /\ tx[d].assigned_id < n
    BY <1>4 DEF IdBound, IdsBoundedByRegistrations, Registered, n
  <2> QED
    BY <1>3, <1>5, <1>7, <2>1
<1>10. \A d \in Conns : pc'[d] = "store" => old'[d] <= n + 1
  <2>1. \A d \in Conns : pc'[d] = "store" => pc[d] = "store"
    BY <1>1 DEF TypeOK
  <2>2. \A d \in Conns : pc[d] = "store" => old[d] <= n
    BY DEF IdBound, n
  <2> QED
    BY <1>1, <1>7, <2>1, <2>2
<1> QED
  BY <1>6, <1>8, <1>9, <1>10 DEF IdBound, IdsBoundedByRegistrations

LEMMA NextBound ==
  IdBound /\ TypeOK /\ ThreadShape /\ [Next]_vars => IdBound'
<1> SUFFICES ASSUME IdBound, TypeOK, ThreadShape, [Next]_vars
             PROVE  IdBound'
  OBVIOUS
<1>1. CASE Accept
  BY <1>1, KeepsBound DEF Accept, locals, db, TypeOK
<1>2. CASE Crash
  BY <1>2, KeepsBound DEF Crash, client, locals, db
<1>3. ASSUME NEW c \in Conns, Connect(c) PROVE IdBound'
  BY <1>3, KeepsBound DEF Connect, locals, db, TypeOK
<1>4. ASSUME NEW c \in Conns, NEW p \in Requests, ClientSend(c, p)
      PROVE  IdBound'
  BY <1>4, KeepsBound DEF ClientSend, locals, db
<1>5. ASSUME NEW c \in Conns, ClientQuit(c) PROVE IdBound'
  BY <1>5, KeepsBound DEF ClientQuit, locals, db
<1>6. ASSUME NEW c \in Conns, Receive(c) PROVE IdBound'
  BY <1>6, KeepsBound DEF Receive, Handler, client, db, TypeOK
<1>7. ASSUME NEW c \in Conns, RegInsert(c) \/ RegAssign(c) PROVE IdBound'
  BY <1>7, KeepsBound DEF RegInsert, RegAssign, client, locals, TypeOK
<1>8. ASSUME NEW c \in Conns, RegLoad(c) PROVE IdBound'
  BY <1>8, KeepsBound DEF RegLoad, client, db, TypeOK
<1>9. ASSUME NEW c \in Conns, RegStore(c) PROVE IdBound'
  BY <1>9, RegStoreBound
<1>10. ASSUME NEW c \in Conns, UsersLookup(c) \/ UsersIterate(c)
       PROVE  IdBound'
  <2>1. /\ UNCHANGED <<next_id_, old>>
        /\ pc[c] \in {"lookup", "iterate"}
        /\ pc'[c] \in {"iterate", "send"}
        /\ \A d \in Conns \ {c} : pc'[d] = pc[d] /\ tx'[d] = tx[d]
    BY <1>10 DEF UsersLookup, UsersIterate, db, TypeOK
  <2>2. tx[c].type # "RESP_REGISTER"
    BY <2>1 DEF ThreadShape
  <2>3. \/ tx'[c] = tx[c]
        \/ \E v, u : tx'[c] = SerializeToArray(RespUsers(v, u))
    BY <1>10 DEF UsersLookup, UsersIterate, TypeOK
  <2>4. tx'[c].type # "RESP_REGISTER"
    <3>1. ASSUME NEW v, NEW u
          PROVE  SerializeToArray(RespUsers(v, u)).type # "RESP_REGISTER"
      <4>1. /\ RespUsers(v, u).type = "RESP_USERS"
            /\ ZeroBytes.type = "ZEROS"
        BY DEF RespUsers, ZeroBytes, Reply
      <4>2. SerializeToArray(RespUsers(v, u)) \in {RespUsers(v, u), ZeroBytes}
        BY DEF SerializeToArray
      <4> QED
        BY <4>1, <4>2
    <3> QED
      BY <2>2, <2>3, <3>1
  <2> QED
    BY <2>1, <2>2, <2>4, KeepsBound
<1>11. ASSUME NEW c \in Conns, Send(c) PROVE IdBound'
  BY <1>11, KeepsBound DEF Send, client, locals, db, TypeOK
<1>12. CASE UNCHANGED vars
  BY <1>12, KeepsBound DEF vars, locals, db
<1> QED
  BY <1>1, <1>2, <1>3, <1>4, <1>5, <1>6, <1>7, <1>8, <1>9, <1>10, <1>11,
     <1>12 DEF Next, Thread

\* However the threads race in registerUser, next_id_ and every ID handed
\* out stay below the number of registrations answered.
THEOREM IdsBoundedTheorem == Spec => []IdsBoundedByRegistrations
<1>1. Init => BoundInv
  <2>1. ASSUME Init PROVE IdBound
    <3>1. next_id_ <= Cardinality(Registered)
      BY <2>1, RegisteredFinite DEF Init
    <3>2. Registered = {}
      BY <2>1 DEF Init, Registered, NoReply, Reply
    <3> QED
      BY <2>1, <3>1, <3>2 DEF Init, IdBound, IdsBoundedByRegistrations
  <2> QED
    BY <2>1, InitType, InitShape DEF BoundInv
<1>2. BoundInv /\ [Next]_vars => BoundInv'
  BY NextType, NextShape, NextBound DEF BoundInv
<1>3. BoundInv => IdsBoundedByRegistrations
  BY DEF BoundInv, IdBound
<1> QED
  BY <1>1, <1>2, <1>3, PTL DEF Spec
=============================================================================
