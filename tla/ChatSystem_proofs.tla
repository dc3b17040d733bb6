------------------------- MODULE ChatSystem_proofs --------------------------
(* Proofs about ChatSystem, for every value of its constants.  What a step *)
(* of the server keeps is taken from ServerApp_proofs.                     *)
EXTENDS ChatSystem, ServerApp_proofs, Packet_proofs

-----------------------------------------------------------------------------
(* Steps of ServerApp.                                                     *)

\* The requests of the clients are requests the server is prepared for.
LEMMA SendIsNext ==
  ASSUME NEW c \in Conns, NEW p \in Requests, SendRequest(c, p)
  PROVE  [Next]_vars
BY DEF SendRequest, Next

LEMMA RegisterPacket ==
  ASSUME NEW n \in Names
  PROVE  [type |-> "REQUEST_REGISTER", username |-> n, requestor_id |-> Missing] \in Requests
BY DEF Requests

LEMMA UsersPacket ==
  ASSUME NEW i \in Ids
  PROVE  [type |-> "REQUEST_USERS", username |-> Missing, requestor_id |-> i] \in Requests
BY DEF Requests

\* The steps of the clients' connections that ServerApp has as well.
LEMMA RegisterUserFacts ==
  ASSUME NEW c \in Conns, RegisterUser(c)
  PROVE  \E n \in Names :
           /\ step[c] = "register"
           /\ SendRequest(c, [type |-> "REQUEST_REGISTER", username |-> n,
                              requestor_id |-> Missing])
           /\ username_' = [username_ EXCEPT ![c] = n]
           /\ step' = [step EXCEPT ![c] = "registering"]
           /\ UNCHANGED <<id_, name_to_id_, buf, stale, cut, long, faults>>
<1>1. Typed[c] \subseteq Names
  BY TypedNamesAssumption
<1> QED
  BY <1>1 DEF RegisterUser

LEMMA NextOfServer ==
  ASSUME ChatTypeOK, NEW c \in Conns,
         \/ ServerStep \/ Dial(c) \/ RegisterUser(c) \/ PollUsers(c) \/ Leave(c)
  PROVE  [Next]_vars
<1>1. CASE ServerStep
  BY <1>1 DEF ServerStep, Next
<1>2. CASE Dial(c)
  BY <1>2 DEF Dial, Next
<1>3. CASE RegisterUser(c)
  <2>1. PICK n \in Names : SendRequest(c, [type |-> "REQUEST_REGISTER", username |-> n,
                                           requestor_id |-> Missing])
    BY <1>3, RegisterUserFacts
  <2> QED
    BY <2>1, RegisterPacket, SendIsNext
<1>4. CASE PollUsers(c)
  <2>1. id_[c] \in Ids
    BY DEF ChatTypeOK
  <2> QED
    BY <1>4, <2>1, UsersPacket, SendIsNext DEF PollUsers
<1>5. CASE Leave(c)
  BY <1>5 DEF Leave, Next
<1> QED
  BY <1>1, <1>2, <1>3, <1>4, <1>5

-----------------------------------------------------------------------------
(* Types.                                                                  *)

LEMMA PacketTypes ==
  /\ EmptyPacket \in Packets /\ 0 \in Ids
  /\ NoReply \in Replies /\ NoReply.type = "NONE"
  /\ ZeroBytes \in Replies /\ ZeroBytes.online_users = {} /\ ZeroBytes.resp_value = 0
<1>1. 0 \in Ids
  BY IdCountAssumption DEF Ids
<1>2. EmptyPacket \in Packets
  BY DEF EmptyPacket, Packets
<1> QED
  BY <1>1, <1>2 DEF NoReply, ZeroBytes, Reply, Replies

\* A map that a client makes of a list has the names and IDs of the list.
LEMMA MappingsType ==
  ASSUME NEW users \in SUBSET OnlineUser, NEW m \in Mappings(users)
  PROVE  /\ DOMAIN m \subseteq Usernames
         /\ \A n \in DOMAIN m :
              m[n] \in Ids /\ [user_id |-> m[n], username |-> n] \in users
<1>1. DOMAIN m = {u.username : u \in users}
  BY DEF Mappings
<1>2. \A u \in users : u.username \in Usernames
  BY DEF OnlineUser
<1>3. ASSUME NEW n \in DOMAIN m
      PROVE  m[n] \in Ids /\ [user_id |-> m[n], username |-> n] \in users
  <2>1. [user_id |-> m[n], username |-> n] \in users
    BY DEF Mappings
  <2>2. [user_id |-> m[n], username |-> n] \in OnlineUser
    BY <2>1
  <2> QED
    BY <2>1, <2>2 DEF OnlineUser
<1> QED
  BY <1>1, <1>2, <1>3

LEMMA RecycleFacts ==
  ASSUME TypeOK, NEW c \in Conns, Recycle(c)
  PROVE  /\ TypeOK'
         /\ pc'[c] = "none" /\ sock'[c] = "none" /\ tx'[c] = NoReply
         /\ \A d \in Conns \ {c} :
              /\ pc'[d] = pc[d] /\ sock'[d] = sock[d] /\ sent'[d] = sent[d]
              /\ rx'[d] = rx[d] /\ tx'[d] = tx[d] /\ key'[d] = key[d] /\ old'[d] = old[d]
         /\ UNCHANGED <<up, next_id_, user_map_, backlog, raced, wrapped>>
<1>1. /\ pc' = [pc EXCEPT ![c] = "none"] /\ sock' = [sock EXCEPT ![c] = "none"]
      /\ sent' = [sent EXCEPT ![c] = EmptyPacket] /\ known' = [known EXCEPT ![c] = {}]
      /\ rx' = [rx EXCEPT ![c] = EmptyPacket] /\ tx' = [tx EXCEPT ![c] = NoReply]
      /\ key' = [key EXCEPT ![c] = 0] /\ old' = [old EXCEPT ![c] = 0]
      /\ UNCHANGED <<up, next_id_, user_map_, backlog, raced, wrapped>>
  BY DEF Recycle, db
<1>2. /\ pc'[c] = "none" /\ sock'[c] = "none" /\ tx'[c] = NoReply
      /\ \A d \in Conns \ {c} :
           /\ pc'[d] = pc[d] /\ sock'[d] = sock[d] /\ sent'[d] = sent[d]
           /\ rx'[d] = rx[d] /\ tx'[d] = tx[d] /\ key'[d] = key[d] /\ old'[d] = old[d]
  BY <1>1 DEF TypeOK
<1>3. /\ pc' \in [Conns -> PC] /\ known' \in [Conns -> SUBSET Ids]
      /\ sock' \in [Conns -> {"none", "open", "data", "eof", "reset"}]
      /\ sent' \in [Conns -> Packets] /\ rx' \in [Conns -> Packets]
      /\ tx' \in [Conns -> Replies]
      /\ key' \in [Conns -> Ids] /\ old' \in [Conns -> Ids]
  BY <1>1, PacketTypes DEF TypeOK, PC
<1>4. TypeOK'
  BY <1>1, <1>2, <1>3 DEF TypeOK
<1> QED
  BY <1>1, <1>2, <1>4

LEMMA RestartFacts ==
  ASSUME TypeOK, Restart
  PROVE  /\ TypeOK'
         /\ faults < MaxFaults /\ faults' = faults + 1
         /\ DOMAIN user_map_' = {} /\ backlog' = << >>
         /\ \A c \in Conns :
              \/ /\ pc[c] \in {"none", "closed"} /\ pc'[c] = pc[c]
                 /\ sock'[c] = sock[c] /\ tx'[c] = tx[c]
              \/ /\ pc[c] \in {"queued", "recv"} /\ pc'[c] = "closed"
                 /\ sock'[c] = "reset" /\ tx'[c] = NoReply
              \/ /\ pc[c] \notin {"none", "queued", "recv", "closed"} /\ pc'[c] = "closed"
                 /\ sock'[c] = sock[c] /\ tx'[c] = NoReply
         /\ stale' = stale \cup {c \in Conns :
              step[c] \in {"poll", "polling"} \/ tx'[c].type = "RESP_REGISTER"}
         /\ UNCHANGED <<sent, rx, step, id_, username_, name_to_id_, buf, cut, long>>
<1> DEFINE kept  == {c \in Conns : pc[c] \in {"none", "closed"}}
           reset == {c \in Conns : pc[c] \in {"queued", "recv"}}
<1>1. /\ faults < MaxFaults /\ faults' = faults + 1
      /\ up' = TRUE /\ next_id_' = 0 /\ user_map_' = [i \in {} |-> DefaultMetadata]
      /\ backlog' = << >> /\ raced' = FALSE /\ wrapped' = FALSE
      /\ pc' = [c \in Conns |-> IF c \in kept THEN pc[c] ELSE "closed"]
      /\ sock' = [c \in Conns |-> IF c \in reset THEN "reset" ELSE sock[c]]
      /\ tx' = [c \in Conns |-> IF c \in kept THEN tx[c] ELSE NoReply]
      /\ stale' = stale \cup {c \in Conns :
           step[c] \in {"poll", "polling"} \/ tx'[c].type = "RESP_REGISTER"}
      /\ UNCHANGED <<sent, known, rx, key, old, step, id_, username_, name_to_id_, buf,
                     cut, long>>
  BY DEF Restart
<1>2. \A c \in Conns :
        \/ /\ pc[c] \in {"none", "closed"} /\ pc'[c] = pc[c]
           /\ sock'[c] = sock[c] /\ tx'[c] = tx[c]
        \/ /\ pc[c] \in {"queued", "recv"} /\ pc'[c] = "closed"
           /\ sock'[c] = "reset" /\ tx'[c] = NoReply
        \/ /\ pc[c] \notin {"none", "queued", "recv", "closed"} /\ pc'[c] = "closed"
           /\ sock'[c] = sock[c] /\ tx'[c] = NoReply
  BY <1>1
<1>3. /\ pc' \in [Conns -> PC] /\ tx' \in [Conns -> Replies]
      /\ sock' \in [Conns -> {"none", "open", "data", "eof", "reset"}]
  BY <1>1, PacketTypes DEF TypeOK, PC
<1>4. \A c \in Conns : pc'[c] \in {"none", "closed"}
  BY <1>2
<1>5. DOMAIN user_map_' = {} /\ user_map_' \in [{} -> UserMetadata(Usernames)]
  BY <1>1
<1>6. backlog' \in Seq(Conns)
  BY <1>1
<1>7. UNCHANGED <<sent, known, rx, key, old>> /\ next_id_' \in Ids
  BY <1>1, PacketTypes
<1>8. up' \in BOOLEAN /\ raced' \in BOOLEAN /\ wrapped' \in BOOLEAN
  BY <1>1
<1>9. TypeOK'
  BY <1>3, <1>4, <1>5, <1>6, <1>7, <1>8 DEF TypeOK
<1> QED
  BY <1>1, <1>2, <1>5, <1>9

LEMMA ChatInitType == ChatInit => ChatTypeOK
<1> SUFFICES ASSUME ChatInit PROVE ChatTypeOK
  OBVIOUS
<1>1. TypeOK
  BY InitType DEF ChatInit
<1> QED
  BY <1>1, PacketTypes DEF ChatInit, ChatTypeOK, EmptyMap, Usernames

\* A part of an ID is an ID, and a list put together from parts is a list.
LEMMA PartTypes ==
  /\ OnlineUser = UserOf(IdCount, Usernames)
  /\ \A i \in Ids : CutNumber(i) \subseteq Ids
<1>1. Ids \in SUBSET (0 .. IdCount - 1)
  BY DEF Ids
<1> QED
  BY <1>1, IdCountAssumption, NumbersType DEF OnlineUser, UserOf, Ids

\* The client has the ID that it was given, or becomes stale.
LEMMA HandleRegisterFacts ==
  ASSUME ChatTypeOK, NEW c \in Conns, HandleRegister(c)
  PROVE  /\ step[c] = "registering" /\ pc[c] = "closed"
         /\ \/ /\ tx[c].type = "RESP_REGISTER" /\ id_'[c] = tx[c].assigned_id
               /\ UNCHANGED stale
            \/ stale' = stale \cup {c}
         /\ id_' \in [Conns -> Ids] /\ \A d \in Conns \ {c} : id_'[d] = id_[d]
         /\ step'[c] = "poll" /\ \A d \in Conns \ {c} : step'[d] = step[d]
         /\ step' \in [Conns -> {"register", "registering", "poll", "polling", "gone"}]
         /\ Recycle(c)
         /\ UNCHANGED <<username_, name_to_id_, buf, cut, long>>
<1>1. /\ id_ \in [Conns -> Ids] /\ tx[c].assigned_id \in Ids
      /\ step \in [Conns -> {"register", "registering", "poll", "polling", "gone"}]
  BY DEF ChatTypeOK, TypeOK, Replies
<1>2. /\ step[c] = "registering" /\ pc[c] = "closed"
      /\ step' = [step EXCEPT ![c] = "poll"] /\ Recycle(c)
      /\ UNCHANGED <<username_, name_to_id_, buf, cut, long>>
  BY DEF HandleRegister
<1>3. /\ step'[c] = "poll" /\ \A d \in Conns \ {c} : step'[d] = step[d]
      /\ step' \in [Conns -> {"register", "registering", "poll", "polling", "gone"}]
  BY <1>1, <1>2
<1>4. CASE /\ tx[c].type = "RESP_REGISTER" /\ UNCHANGED stale
           /\ id_' = [id_ EXCEPT ![c] = tx[c].assigned_id]
  BY <1>1, <1>2, <1>3, <1>4
<1>5. CASE /\ tx[c].type = "RESP_REGISTER"
           /\ \E i \in CutNumber(tx[c].assigned_id) : id_' = [id_ EXCEPT ![c] = i]
           /\ stale' = IF id_'[c] = tx[c].assigned_id THEN stale ELSE stale \cup {c}
  <2>1. PICK i \in CutNumber(tx[c].assigned_id) : id_' = [id_ EXCEPT ![c] = i]
    BY <1>5
  <2>2. i \in Ids
    BY <1>1, <2>1, PartTypes
  <2>3. id_' \in [Conns -> Ids] /\ \A d \in Conns \ {c} : id_'[d] = id_[d]
    BY <1>1, <2>1, <2>2
  <2> QED
    BY <1>2, <1>3, <1>5, <2>3
<1>6. CASE sock[c] = "reset" /\ id_' = [id_ EXCEPT ![c] = 0] /\ stale' = stale \cup {c}
  BY <1>1, <1>2, <1>3, <1>6, PacketTypes
<1> QED
  BY <1>4, <1>5, <1>6 DEF HandleRegister

\* What is in the buffer after a round: what was sent, what was there, as much
\* of a list as fits, or something that makes the client one of cut.
LEMMA ReceiveUsersFacts ==
  ASSUME ChatTypeOK, NEW c \in Conns, ReceiveUsers(c)
  PROVE  /\ \/ /\ tx[c].type \in {"RESP_USERS", "ZEROS"} /\ buf'[c] = tx[c]
               /\ UNCHANGED long /\ cut' \in {cut, cut \cup {c}}
            \/ /\ tx[c].type = "RESP_USERS" /\ long' = long \cup {c} /\ UNCHANGED cut
               /\ \A u, v \in buf'[c].online_users :
                    u \in tx[c].online_users \/ v \in tx[c].online_users \/ u = v
            \/ UNCHANGED long /\ cut' = cut \cup {c}
            \/ buf'[c] = buf[c] /\ UNCHANGED <<long, cut>>
         /\ buf' \in [Conns -> Replies] /\ \A d \in Conns \ {c} : buf'[d] = buf[d]
<1> DEFINE Sent == tx[c].online_users
           Held == buf[c].online_users
<1>1. /\ buf \in [Conns -> Replies] /\ tx[c] \in Replies
      /\ Sent \in SUBSET OnlineUser /\ Held \in SUBSET OnlineUser
      /\ tx[c].resp_value \in {0, 1} /\ buf[c].resp_value \in {0, 1}
  BY DEF ChatTypeOK, TypeOK, Replies
<1>2. ASSUME NEW v \in {0, 1}, NEW list \in SUBSET OnlineUser,
             buf' = [buf EXCEPT ![c] = RespUsers(v, list)]
      PROVE  /\ buf' \in [Conns -> Replies] /\ \A d \in Conns \ {c} : buf'[d] = buf[d]
             /\ buf'[c].online_users = list
  <2>1. RespUsers(v, list) \in Replies /\ RespUsers(v, list).online_users = list
    BY ReplyType DEF RespUsers, Reply
  <2> QED
    BY <1>1, <1>2, <2>1
<1>3. CASE /\ tx[c].type \in {"RESP_USERS", "ZEROS"} /\ buf' = [buf EXCEPT ![c] = tx[c]]
           /\ UNCHANGED long /\ cut' \in {cut, cut \cup {c}}
  BY <1>1, <1>3
<1>4. CASE /\ tx[c].type = "RESP_USERS" /\ long' = long \cup {c} /\ UNCHANGED cut
           /\ \E v \in {tx[c].resp_value},
                 list \in Shortened(Cuts(Sent), NoName, Usernames) :
                buf' = [buf EXCEPT ![c] = RespUsers(v, list)]
  <2>1. PICK list \in Shortened(Cuts(Sent), NoName, Usernames) :
          buf' = [buf EXCEPT ![c] = RespUsers(tx[c].resp_value, list)]
    BY <1>4
  <2>2. list \in SUBSET OnlineUser /\ \A u, v \in list : u \in Sent \/ v \in Sent \/ u = v
    <3>1. Cuts(Sent) \in SUBSET ((SUBSET Sent) \X Sent)
      BY DEF Cuts
    <3>2. NoName \in Usernames
      BY DEF Usernames
    <3> QED
      BY <1>1, <2>1, <3>1, <3>2, PartTypes, IdCountAssumption, ShortenedFacts
  <2>3. /\ buf' \in [Conns -> Replies] /\ \A d \in Conns \ {c} : buf'[d] = buf[d]
        /\ buf'[c].online_users = list
    BY <1>1, <1>2, <2>1, <2>2
  <2> QED
    BY <1>4, <2>2, <2>3
<1>5. CASE /\ UNCHANGED long /\ cut' = cut \cup {c}
           /\ \E v \in {0, tx[c].resp_value, buf[c].resp_value},
                 list \in Garbled(Sent \cup Held, Usernames) :
                buf' = [buf EXCEPT ![c] = RespUsers(v, list)]
  <2>1. PICK v \in {0, tx[c].resp_value, buf[c].resp_value},
             list \in Garbled(Sent \cup Held, Usernames) :
          buf' = [buf EXCEPT ![c] = RespUsers(v, list)]
    BY <1>5
  <2>2. Sent \cup Held \in SUBSET OnlineUser
    BY <1>1
  <2>3. v \in {0, 1} /\ list \in SUBSET OnlineUser
    BY <1>1, <2>1, <2>2, PartTypes, IdCountAssumption, GarbledType
  <2> QED
    BY <1>2, <1>5, <2>1, <2>3
<1>6. CASE UNCHANGED <<buf, cut, long>>
  BY <1>1, <1>6
<1>7. \/ <1>3!1 \/ <1>4!1 \/ <1>5!1 \/ <1>6!1
  BY DEF ReceiveUsers, FirstSegmentOnly
<1> QED
  BY <1>3, <1>4, <1>5, <1>6, <1>7

LEMMA HandleUsersFacts ==
  ASSUME ChatTypeOK, NEW c \in Conns, HandleUsers(c)
  PROVE  /\ step[c] = "polling" /\ pc[c] = "closed"
         /\ ReceiveUsers(c)
         /\ \/ name_to_id_'[c] = name_to_id_[c]
            \/ name_to_id_'[c] \in Mappings(buf'[c].online_users)
         /\ DOMAIN name_to_id_' = Conns
         /\ \A d \in Conns \ {c} : name_to_id_'[d] = name_to_id_[d]
         /\ step'[c] = "poll" /\ \A d \in Conns \ {c} : step'[d] = step[d]
         /\ step' \in [Conns -> {"register", "registering", "poll", "polling", "gone"}]
         /\ Recycle(c)
         /\ UNCHANGED <<id_, username_, stale>>
<1>1. /\ DOMAIN name_to_id_ = Conns
      /\ step \in [Conns -> {"register", "registering", "poll", "polling", "gone"}]
  BY DEF ChatTypeOK
<1>2. /\ step[c] = "polling" /\ pc[c] = "closed" /\ ReceiveUsers(c)
      /\ step' = [step EXCEPT ![c] = "poll"] /\ Recycle(c)
      /\ UNCHANGED <<id_, username_, stale>>
  BY DEF HandleUsers
<1>3. /\ step'[c] = "poll" /\ \A d \in Conns \ {c} : step'[d] = step[d]
      /\ step' \in [Conns -> {"register", "registering", "poll", "polling", "gone"}]
  BY <1>1, <1>2
<1>4. /\ \/ name_to_id_'[c] = name_to_id_[c]
         \/ name_to_id_'[c] \in Mappings(buf'[c].online_users)
      /\ DOMAIN name_to_id_' = Conns
      /\ \A d \in Conns \ {c} : name_to_id_'[d] = name_to_id_[d]
  <2>1. CASE UNCHANGED name_to_id_
    BY <1>1, <2>1
  <2>2. ASSUME NEW m \in Mappings(buf'[c].online_users),
               name_to_id_' = [name_to_id_ EXCEPT ![c] = m]
        PROVE  <1>4!1 /\ <1>4!2 /\ <1>4!3
    BY <1>1, <2>2
  <2> QED
    BY <2>1, <2>2 DEF HandleUsers
<1> QED
  BY <1>2, <1>3, <1>4

LEMMA QuitFacts ==
  ASSUME ChatTypeOK, NEW c \in Conns, Quit(c)
  PROVE  /\ pc[c] \in {"none", "closed"}
         /\ faults < MaxFaults /\ faults' = faults + 1
         /\ step' \in [Conns -> {"register", "registering", "poll", "polling", "gone"}]
         /\ id_' \in [Conns -> Ids] /\ username_' \in [Conns -> Usernames]
         /\ DOMAIN name_to_id_' = Conns /\ buf' \in [Conns -> Replies]
         /\ step'[c] = "register" /\ DOMAIN name_to_id_'[c] = {} /\ buf'[c] = ZeroBytes
         /\ \A d \in Conns \ {c} :
              /\ step'[d] = step[d] /\ id_'[d] = id_[d] /\ username_'[d] = username_[d]
              /\ name_to_id_'[d] = name_to_id_[d] /\ buf'[d] = buf[d]
         /\ stale' = stale \ {c} /\ cut' = cut \ {c} /\ long' = long \ {c}
         /\ Recycle(c)
<1>1. /\ step \in [Conns -> {"register", "registering", "poll", "polling", "gone"}]
      /\ id_ \in [Conns -> Ids] /\ username_ \in [Conns -> Usernames]
      /\ DOMAIN name_to_id_ = Conns /\ buf \in [Conns -> Replies]
  BY DEF ChatTypeOK
<1>2. /\ pc[c] \in {"none", "closed"}
      /\ faults < MaxFaults /\ faults' = faults + 1
      /\ step' = [step EXCEPT ![c] = "register"]
      /\ id_' = [id_ EXCEPT ![c] = 0]
      /\ username_' = [username_ EXCEPT ![c] = NoName]
      /\ name_to_id_' = [name_to_id_ EXCEPT ![c] = EmptyMap]
      /\ buf' = [buf EXCEPT ![c] = ZeroBytes]
      /\ stale' = stale \ {c} /\ cut' = cut \ {c} /\ long' = long \ {c} /\ Recycle(c)
  BY DEF Quit
<1>3. DOMAIN EmptyMap = {} /\ NoName \in Usernames
  BY DEF EmptyMap, Usernames
<1>4. /\ step' \in [Conns -> {"register", "registering", "poll", "polling", "gone"}]
      /\ id_' \in [Conns -> Ids] /\ username_' \in [Conns -> Usernames]
      /\ buf' \in [Conns -> Replies]
  BY <1>1, <1>2, <1>3, PacketTypes
<1> QED
  BY <1>1, <1>2, <1>3, <1>4

LEMMA LeaveFacts ==
  ASSUME ChatTypeOK, NEW c \in Conns, Leave(c)
  PROVE  /\ step[c] = "register" /\ step'[c] = "gone" /\ sock[c] = "open" /\ sock'[c] = "eof"
         /\ \A d \in Conns \ {c} : step'[d] = step[d] /\ sock'[d] = sock[d]
         /\ UNCHANGED <<next_id_, user_map_, pc, sent, rx, tx, key, old, raced, wrapped>>
         /\ UNCHANGED <<id_, username_, name_to_id_, buf, stale, cut, long>>
BY DEF Leave, ClientQuit, db, locals, ChatTypeOK, TypeOK

LEMMA ChatNextType == ChatTypeOK /\ [ChatNext]_chatVars => ChatTypeOK'
<1> SUFFICES ASSUME ChatTypeOK, [ChatNext]_chatVars PROVE ChatTypeOK'
  OBVIOUS
<1>1. /\ TypeOK /\ stale \subseteq Conns /\ cut \subseteq Conns /\ long \subseteq Conns
      /\ step \in [Conns -> {"register", "registering", "poll", "polling", "gone"}]
      /\ username_ \in [Conns -> Usernames]
      /\ \A c \in Conns : DOMAIN name_to_id_[c] \subseteq Usernames
      /\ \A c \in Conns : \A n \in DOMAIN name_to_id_[c] : name_to_id_[c][n] \in Ids
  BY DEF ChatTypeOK
<1>2. ASSUME UNCHANGED app, [Next]_vars PROVE ChatTypeOK'
  BY <1>1, <1>2, NextType DEF app, ChatTypeOK
<1>3. CASE ServerStep /\ UNCHANGED <<app, faults>>
  BY <1>2, <1>3 DEF ServerStep, Next
<1>4. CASE Restart
  BY <1>1, <1>4, RestartFacts DEF ChatTypeOK
<1>5. ASSUME NEW c \in Conns, Dial(c) PROVE ChatTypeOK'
  BY <1>2, <1>5, NextOfServer DEF Dial
<1>6. ASSUME NEW c \in Conns, RegisterUser(c) PROVE ChatTypeOK'
  <2>1. PICK n \in Names :
          /\ username_' = [username_ EXCEPT ![c] = n]
          /\ step' = [step EXCEPT ![c] = "registering"]
          /\ UNCHANGED <<id_, name_to_id_, buf, stale, cut, long>>
    BY <1>6, RegisterUserFacts
  <2>2. TypeOK'
    BY <1>1, <1>6, NextOfServer, NextType
  <2>3. /\ username_' \in [Conns -> Usernames]
        /\ step' \in [Conns -> {"register", "registering", "poll", "polling", "gone"}]
    BY <1>1, <2>1 DEF Usernames
  <2> QED
    BY <2>1, <2>2, <2>3 DEF ChatTypeOK
<1>7. ASSUME NEW c \in Conns, PollUsers(c) PROVE ChatTypeOK'
  <2>1. TypeOK'
    BY <1>1, <1>7, NextOfServer, NextType
  <2>2. step' \in [Conns -> {"register", "registering", "poll", "polling", "gone"}]
    BY <1>1, <1>7 DEF PollUsers
  <2> QED
    BY <1>7, <2>1, <2>2 DEF PollUsers, ChatTypeOK
<1>8. ASSUME NEW c \in Conns, HandleRegister(c) PROVE ChatTypeOK'
  <2>1. TypeOK'
    BY <1>1, <1>8, HandleRegisterFacts, RecycleFacts
  <2>2. /\ id_' \in [Conns -> Ids]
        /\ step' \in [Conns -> {"register", "registering", "poll", "polling", "gone"}]
        /\ UNCHANGED <<username_, name_to_id_, buf, cut, long>> /\ stale' \subseteq Conns
    BY <1>1, <1>8, HandleRegisterFacts
  <2> QED
    BY <2>1, <2>2 DEF ChatTypeOK
<1>9. ASSUME NEW c \in Conns, HandleUsers(c) PROVE ChatTypeOK'
  <2>1. TypeOK'
    BY <1>1, <1>9, HandleUsersFacts, RecycleFacts
  <2>2. /\ buf' \in [Conns -> Replies]
        /\ \/ name_to_id_'[c] = name_to_id_[c]
           \/ name_to_id_'[c] \in Mappings(buf'[c].online_users)
        /\ DOMAIN name_to_id_' = Conns
        /\ \A d \in Conns \ {c} : name_to_id_'[d] = name_to_id_[d]
        /\ step' \in [Conns -> {"register", "registering", "poll", "polling", "gone"}]
        /\ UNCHANGED <<id_, username_, stale>>
        /\ cut' \subseteq Conns /\ long' \subseteq Conns
    BY <1>1, <1>9, HandleUsersFacts, ReceiveUsersFacts
  <2>3. buf'[c].online_users \in SUBSET OnlineUser
    BY <2>2 DEF Replies
  <2>4. /\ DOMAIN name_to_id_'[c] \subseteq Usernames
        /\ \A n \in DOMAIN name_to_id_'[c] : name_to_id_'[c][n] \in Ids
    BY <1>1, <2>2, <2>3, MappingsType
  <2> QED
    BY <1>1, <2>1, <2>2, <2>4 DEF ChatTypeOK
<1>10. ASSUME NEW c \in Conns, Quit(c) PROVE ChatTypeOK'
  <2>1. TypeOK'
    BY <1>1, <1>10, QuitFacts, RecycleFacts
  <2>2. /\ step' \in [Conns -> {"register", "registering", "poll", "polling", "gone"}]
        /\ id_' \in [Conns -> Ids] /\ username_' \in [Conns -> Usernames]
        /\ DOMAIN name_to_id_' = Conns /\ buf' \in [Conns -> Replies]
        /\ DOMAIN name_to_id_'[c] = {}
        /\ \A d \in Conns \ {c} : name_to_id_'[d] = name_to_id_[d]
        /\ stale' = stale \ {c} /\ cut' = cut \ {c} /\ long' = long \ {c}
    BY <1>10, QuitFacts
  <2> QED
    BY <1>1, <2>1, <2>2 DEF ChatTypeOK
<1>11. ASSUME NEW c \in Conns, Leave(c) PROVE ChatTypeOK'
  <2>1. TypeOK'
    BY <1>1, <1>11, NextOfServer, NextType
  <2>2. step' \in [Conns -> {"register", "registering", "poll", "polling", "gone"}]
    BY <1>1, <1>11 DEF Leave
  <2> QED
    BY <1>11, <2>1, <2>2 DEF Leave, ChatTypeOK
<1>12. CASE UNCHANGED chatVars
  BY <1>2, <1>12 DEF chatVars
<1> QED
  BY <1>3, <1>4, <1>5, <1>6, <1>7, <1>8, <1>9, <1>10, <1>11, <1>12 DEF ChatNext, UsersThread

\* The variables of the server and the clients always have their types,
\* although connections are used again and the server starts afresh.
THEOREM ChatTypeCorrect == ChatSpec => []ChatTypeOK
BY ChatInitType, ChatNextType, PTL DEF ChatSpec

-----------------------------------------------------------------------------
(* The clients and the threads of their connections.                       *)

LEMMA RecycleShape ==
  ASSUME TypeOK, ThreadShape, NEW c \in Conns, pc[c] \in {"none", "closed"}, Recycle(c)
  PROVE  ThreadShape'
<1>1. /\ pc'[c] = "none" /\ sock'[c] = "none" /\ tx'[c].type = "NONE"
      /\ \A d \in Conns \ {c} : pc'[d] = pc[d] /\ sock'[d] = sock[d] /\ tx'[d] = tx[d]
      /\ UNCHANGED backlog
  BY RecycleFacts, PacketTypes
<1>2. \A i \in 1 .. Len(backlog) : backlog[i] \in Conns \ {c}
  BY DEF TypeOK, ThreadShape
<1> QED
  BY <1>1, <1>2 DEF ThreadShape

LEMMA RestartShape ==
  ASSUME TypeOK, ThreadShape, Restart
  PROVE  ThreadShape'
<1>1. /\ backlog' = << >>
      /\ \A c \in Conns :
           \/ /\ pc[c] \in {"none", "closed"} /\ pc'[c] = pc[c]
              /\ sock'[c] = sock[c] /\ tx'[c] = tx[c]
           \/ /\ pc[c] \in {"queued", "recv"} /\ pc'[c] = "closed"
              /\ sock'[c] = "reset" /\ tx'[c] = NoReply
           \/ /\ pc[c] \notin {"none", "queued", "recv", "closed"} /\ pc'[c] = "closed"
              /\ sock'[c] = sock[c] /\ tx'[c] = NoReply
  BY RestartFacts
<1>2. Len(backlog') = 0
  BY <1>1
<1> QED
  BY <1>1, <1>2, PacketTypes DEF ThreadShape

LEMMA ShapeFrame ==
  ASSUME ClientShape, NEW c \in Conns,
         \A d \in Conns \ {c} :
           /\ pc'[d] = pc[d] /\ sock'[d] = sock[d] /\ sent'[d] = sent[d]
           /\ rx'[d] = rx[d] /\ tx'[d] = tx[d]
           /\ step'[d] = step[d] /\ id_'[d] = id_[d] /\ username_'[d] = username_[d]
           /\ name_to_id_'[d] = name_to_id_[d] /\ buf'[d] = buf[d],
         CallShape(c)' /\ RequestShape(c)' /\ NoListYet(c)'
  PROVE  ClientShape'
<1>1. ASSUME NEW d \in Conns \ {c}
      PROVE  CallShape(d)' /\ RequestShape(d)' /\ NoListYet(d)'
  <2>1. CallShape(d) /\ RequestShape(d) /\ NoListYet(d)
    BY DEF ClientShape
  <2>2. CallShape(d)'
    BY <2>1 DEF CallShape
  <2>3. RequestShape(d)'
    BY <2>1 DEF RequestShape
  <2>4. NoListYet(d)'
    BY <2>1 DEF NoListYet
  <2> QED
    BY <2>2, <2>3, <2>4
<1> QED
  BY <1>1 DEF ClientShape

LEMMA ShapeFacts ==
  ASSUME ClientShape, NEW c \in Conns
  PROVE  CallShape(c) /\ RequestShape(c) /\ NoListYet(c)
BY DEF ClientShape

\* A client whose connection is recycled has nothing on it.
LEMMA RecycledClient ==
  ASSUME ChatTypeOK, ClientShape, NEW c \in Conns, Recycle(c),
         \A d \in Conns \ {c} :
           /\ step'[d] = step[d] /\ id_'[d] = id_[d] /\ username_'[d] = username_[d]
           /\ name_to_id_'[d] = name_to_id_[d] /\ buf'[d] = buf[d],
         NoListYet(c)'
  PROVE  ClientShape'
<1>1. /\ pc'[c] = "none" /\ sock'[c] = "none" /\ tx'[c].type = "NONE"
      /\ \A d \in Conns \ {c} :
           /\ pc'[d] = pc[d] /\ sock'[d] = sock[d] /\ sent'[d] = sent[d]
           /\ rx'[d] = rx[d] /\ tx'[d] = tx[d]
  BY RecycleFacts, PacketTypes DEF ChatTypeOK
<1>2. CallShape(c)' /\ RequestShape(c)'
  BY <1>1 DEF CallShape, RequestShape
<1> QED
  BY <1>1, <1>2, ShapeFrame

\* A part of a request is a request of the same kind, or none at all.
LEMMA DeliveredKind ==
  ASSUME NEW s \in Packets, NEW p \in Delivered(s)
  PROVE  /\ p.type = s.type \/ Handler(p) = "send"
         /\ ~SplitReads => p = s
<1>1. Handler(EmptyPacket) = "send"
  BY DEF Handler, EmptyPacket
<1>2. ~SplitReads => p = s
  BY DEF Delivered
<1>3. ASSUME p \in Truncated(s) PROVE p.type = s.type \/ p = EmptyPacket
  <2>1. \/ p = EmptyPacket
        \/ p = [s EXCEPT !.username = Missing, !.requestor_id = Missing]
        \/ p = [s EXCEPT !.username = NoName]
        \/ p = [s EXCEPT !.username = PaddedName]
        \/ p = [s EXCEPT !.requestor_id = 0]
        \/ p = [s EXCEPT !.requestor_id = @ % VarintGroup]
    BY <1>3 DEF Truncated
  <2> QED
    BY <2>1 DEF Packets
<1>4. p = s \/ p \in Truncated(s)
  BY DEF Delivered
<1> QED
  BY <1>1, <1>2, <1>3, <1>4

LEMMA ReceiveShape ==
  ASSUME ChatTypeOK, ClientShape, NEW c \in Conns, Receive(c), UNCHANGED app
  PROVE  ClientShape'
<1>1. CallShape(c) /\ RequestShape(c) /\ NoListYet(c) /\ sent[c] \in Packets
  BY ShapeFacts DEF ChatTypeOK, TypeOK
<1>2. /\ pc[c] = "recv"
      /\ sock[c] \in {"data", "reset"}
      /\ UNCHANGED <<sock, sent, tx>>
  BY DEF Receive, client
<1>3. sock[c] = "data"
  BY <1>1, <1>2 DEF CallShape
<1>4. PICK p \in Delivered(sent[c]) :
        rx' = [rx EXCEPT ![c] = p] /\ pc' = [pc EXCEPT ![c] = Handler(p)]
  BY <1>3 DEF Receive
<1>5. /\ pc'[c] = Handler(p) /\ rx'[c] = p
      /\ \A d \in Conns \ {c} : pc'[d] = pc[d] /\ rx'[d] = rx[d]
  BY <1>4 DEF ChatTypeOK, TypeOK
<1>6. /\ Handler(p) \in {"insert", "lookup", "send"}
      /\ Handler(p) = "insert" => p.type = "REQUEST_REGISTER"
      /\ Handler(p) = "lookup" => p.type = "REQUEST_USERS"
  BY DEF Handler
<1>7. /\ p.type = sent[c].type \/ Handler(p) = "send"
      /\ ~SplitReads => p = sent[c]
  BY <1>1, DeliveredKind
<1>8. UNCHANGED <<step, id_, username_, name_to_id_, buf>>
  BY DEF app
<1>9. CallShape(c)'
  <2>1. /\ Handler(p) = "insert" => step[c] = "registering"
        /\ Handler(p) = "lookup" => step[c] = "polling"
    BY <1>1, <1>3, <1>6, <1>7 DEF CallShape, RequestShape
  <2> QED
    BY <1>1, <1>2, <1>3, <1>5, <1>6, <1>8, <2>1 DEF CallShape
<1>10. RequestShape(c)'
  BY <1>1, <1>2, <1>3, <1>5, <1>7, <1>8 DEF RequestShape
<1>11. NoListYet(c)'
  BY <1>1, <1>8 DEF NoListYet
<1> QED
  BY <1>2, <1>5, <1>8, <1>9, <1>10, <1>11, ShapeFrame

\* What a handler answers.
LEMMA AnswerFacts ==
  ASSUME TypeOK, NEW c \in Conns
  PROVE  /\ RegStore(c) => /\ tx'[c] = RespRegister(old[c])
                           /\ tx'[c].type = "RESP_REGISTER" /\ tx'[c].assigned_id = old[c]
         /\ UsersLookup(c) \/ UsersIterate(c) =>
              tx'[c] = tx[c] \/ tx'[c].type \in {"RESP_USERS", "ZEROS"}
<1>1. ASSUME RegStore(c)
      PROVE  /\ tx'[c] = RespRegister(old[c])
             /\ tx'[c].type = "RESP_REGISTER" /\ tx'[c].assigned_id = old[c]
  <2>1. SerializeToArray(RespRegister(old[c])) = RespRegister(old[c])
    BY RegisterFits DEF TypeOK
  <2>2. tx'[c] = RespRegister(old[c])
    BY <1>1, <2>1 DEF RegStore, TypeOK
  <2> QED
    BY <2>2 DEF RespRegister, Reply
<1>2. \A v, u : SerializeToArray(RespUsers(v, u)).type \in {"RESP_USERS", "ZEROS"}
  BY DEF SerializeToArray, RespUsers, ZeroBytes, Reply
<1>3. UsersLookup(c) => tx'[c] = tx[c] \/ tx'[c].type \in {"RESP_USERS", "ZEROS"}
  BY <1>2 DEF UsersLookup, TypeOK
<1>4. UsersIterate(c) => tx'[c].type \in {"RESP_USERS", "ZEROS"}
  BY <1>2 DEF UsersIterate, TypeOK
<1> QED
  BY <1>1, <1>3, <1>4

LEMMA HandlerShape ==
  ASSUME ChatTypeOK, ThreadShape, ClientShape, NEW c \in Conns, UNCHANGED app,
         \/ RegInsert(c) \/ RegAssign(c) \/ RegLoad(c) \/ RegStore(c)
         \/ UsersLookup(c) \/ UsersIterate(c) \/ Send(c)
  PROVE  ClientShape'
<1>1. TypeOK /\ CallShape(c) /\ RequestShape(c) /\ NoListYet(c)
  BY ShapeFacts DEF ChatTypeOK
<1>2. /\ pc[c] \notin {"none", "queued", "recv", "closed"}
      /\ pc'[c] \notin {"none", "queued", "recv"}
      /\ \A d \in Conns \ {c} : pc'[d] = pc[d] /\ tx'[d] = tx[d]
      /\ UNCHANGED <<sock, sent, rx>>
  BY <1>1 DEF RegInsert, RegAssign, RegLoad, RegStore, UsersLookup, UsersIterate, Send,
     client, locals, TypeOK
<1>3. /\ pc'[c] \in {"insert", "assign", "load", "store"} => step[c] = "registering"
      /\ pc'[c] \in {"lookup", "iterate"} => step[c] = "polling"
  BY <1>1 DEF RegInsert, RegAssign, RegLoad, RegStore, UsersLookup, UsersIterate, Send,
     CallShape, TypeOK
<1>4. /\ tx'[c].type = "RESP_REGISTER" => step[c] = "registering"
      /\ tx'[c].type \in {"RESP_USERS", "ZEROS"} => step[c] = "polling"
  <2>1. CASE RegInsert(c) \/ RegAssign(c) \/ RegLoad(c) \/ Send(c)
    BY <1>1, <2>1 DEF RegInsert, RegAssign, RegLoad, Send, CallShape, locals
  <2>2. CASE RegStore(c)
    BY <1>1, <2>2, AnswerFacts DEF RegStore, CallShape
  <2>3. CASE UsersLookup(c) \/ UsersIterate(c)
    <3>1. step[c] = "polling"
      BY <1>1, <2>3 DEF UsersLookup, UsersIterate, CallShape
    <3> QED
      BY <1>1, <2>3, <3>1, AnswerFacts DEF CallShape
  <2> QED
    BY <2>1, <2>2, <2>3
<1>5. UNCHANGED <<step, id_, username_, name_to_id_, buf>>
  BY DEF app
<1>6. CallShape(c)'
  BY <1>1, <1>2, <1>3, <1>4, <1>5 DEF CallShape
<1>7. RequestShape(c)' /\ NoListYet(c)'
  BY <1>1, <1>2, <1>5 DEF RequestShape, NoListYet
<1> QED
  BY <1>2, <1>5, <1>6, <1>7, ShapeFrame

LEMMA AcceptFacts ==
  ASSUME TypeOK, ThreadShape, Accept
  PROVE  \E c \in Conns :
           /\ pc[c] = "queued" /\ pc'[c] = "recv"
           /\ \A d \in Conns \ {c} : pc'[d] = pc[d]
           /\ UNCHANGED <<next_id_, user_map_, sock, sent, rx, tx, key, old, raced, wrapped>>
<1>1. /\ Head(backlog) = backlog[1] /\ Len(backlog) \in Nat \ {0}
      /\ backlog[1] \in Conns
  BY DEF Accept, TypeOK
<1>2. PICK c \in Conns : c = Head(backlog)
  BY <1>1
<1>3. pc[c] = "queued"
  BY <1>1, <1>2 DEF ThreadShape
<1>4. /\ pc' = [pc EXCEPT ![c] = "recv"]
      /\ UNCHANGED <<next_id_, user_map_, sock, sent, rx, tx, key, old, raced, wrapped>>
  BY <1>2 DEF Accept, db, locals
<1> QED
  BY <1>3, <1>4 DEF TypeOK

LEMMA ConnectFacts ==
  ASSUME TypeOK, NEW c \in Conns, Connect(c)
  PROVE  /\ pc[c] = "none" /\ pc'[c] = "queued" /\ sock'[c] = "open"
         /\ \A d \in Conns \ {c} : pc'[d] = pc[d] /\ sock'[d] = sock[d]
         /\ UNCHANGED <<next_id_, user_map_, sent, rx, tx, key, old, raced, wrapped>>
BY DEF Connect, db, locals, TypeOK

LEMMA SendRequestFacts ==
  ASSUME TypeOK, NEW c \in Conns, NEW p, SendRequest(c, p)
  PROVE  /\ \/ sock[c] = "open" /\ sock'[c] = "data" /\ sent'[c] = p
            \/ sock[c] = "reset" /\ sock'[c] = "reset"
         /\ \A d \in Conns \ {c} : sock'[d] = sock[d] /\ sent'[d] = sent[d]
         /\ UNCHANGED <<next_id_, user_map_, pc, rx, tx, key, old, raced, wrapped>>
<1>1. CASE ClientSend(c, p)
  BY <1>1 DEF ClientSend, db, locals, TypeOK
<1>2. CASE sock[c] = "reset" /\ UNCHANGED vars
  BY <1>2 DEF vars, db, client, locals
<1> QED
  BY <1>1, <1>2 DEF SendRequest

LEMMA ChatInitShape == ChatInit => ThreadShape /\ ClientShape
<1> SUFFICES ASSUME ChatInit PROVE ThreadShape /\ ClientShape
  OBVIOUS
<1>1. ThreadShape
  BY InitShape DEF ChatInit
<1>2. \A c \in Conns : /\ pc[c] = "none" /\ sock[c] = "none" /\ tx[c].type = "NONE"
                       /\ step[c] = "register" /\ DOMAIN name_to_id_[c] = {}
                       /\ buf[c].online_users = {}
  BY PacketTypes DEF ChatInit, Init, EmptyMap
<1> QED
  BY <1>1, <1>2 DEF ClientShape, CallShape, RequestShape, NoListYet

LEMMA ChatNextShape ==
  ASSUME ChatTypeOK, ThreadShape, ClientShape, [ChatNext]_chatVars
  PROVE  ThreadShape' /\ ClientShape'
<1>1. TypeOK
  BY DEF ChatTypeOK
<1>2. ASSUME [Next]_vars PROVE ThreadShape'
  BY <1>1, <1>2, NextShape
<1>3. CASE ServerStep /\ UNCHANGED <<app, faults>>
  <2>1. ThreadShape'
    BY <1>2, <1>3 DEF ServerStep, Next
  <2>2. UNCHANGED <<step, id_, username_, name_to_id_, buf>>
    BY <1>3 DEF app
  <2>3. CASE Accept
    <3>1. PICK c \in Conns :
            /\ pc[c] = "queued" /\ pc'[c] = "recv"
            /\ \A d \in Conns \ {c} : pc'[d] = pc[d]
            /\ UNCHANGED <<sock, sent, rx, tx>>
      BY <1>1, <2>3, AcceptFacts
    <3>2. CallShape(c) /\ RequestShape(c) /\ NoListYet(c)
      BY ShapeFacts
    <3>3. CallShape(c)' /\ RequestShape(c)' /\ NoListYet(c)'
      BY <2>2, <3>1, <3>2 DEF CallShape, RequestShape, NoListYet
    <3> QED
      BY <2>1, <2>2, <3>1, <3>3, ShapeFrame
  <2>4. CASE Crash
    <3>1. UNCHANGED <<pc, sock, sent, rx, tx>>
      BY <2>4 DEF Crash, client, locals
    <3> QED
      BY <2>1, <2>2, <3>1 DEF ClientShape, CallShape, RequestShape, NoListYet
  <2>5. ASSUME NEW c \in Conns, Thread(c) PROVE ClientShape'
    BY <1>3, <2>5, ReceiveShape, HandlerShape DEF Thread
  <2> QED
    BY <1>3, <2>1, <2>3, <2>4, <2>5 DEF ServerStep
<1>4. CASE Restart
  <2>1. ThreadShape'
    BY <1>1, <1>4, RestartShape
  <2>2. /\ \A c \in Conns :
              \/ /\ pc[c] \in {"none", "closed"} /\ pc'[c] = pc[c]
                 /\ sock'[c] = sock[c] /\ tx'[c] = tx[c]
              \/ /\ pc[c] \in {"queued", "recv"} /\ pc'[c] = "closed"
                 /\ sock'[c] = "reset" /\ tx'[c] = NoReply
              \/ /\ pc[c] \notin {"none", "queued", "recv", "closed"} /\ pc'[c] = "closed"
                 /\ sock'[c] = sock[c] /\ tx'[c] = NoReply
        /\ UNCHANGED <<sent, rx, step, id_, username_, name_to_id_, buf>>
    BY <1>1, <1>4, RestartFacts
  <2>3. ASSUME NEW c \in Conns
        PROVE  CallShape(c)' /\ RequestShape(c)' /\ NoListYet(c)'
    <3>1. CallShape(c) /\ RequestShape(c) /\ NoListYet(c)
      BY ShapeFacts
    <3>2. CallShape(c)'
      BY <2>2, <3>1, PacketTypes DEF CallShape
    <3>3. RequestShape(c)' /\ NoListYet(c)'
      BY <2>2, <3>1 DEF RequestShape, NoListYet
    <3> QED
      BY <3>2, <3>3
  <2> QED
    BY <2>1, <2>3 DEF ClientShape
<1>5. ASSUME NEW c \in Conns, Dial(c) PROVE ThreadShape' /\ ClientShape'
  <2>1. ThreadShape'
    BY <1>2, <1>5, NextOfServer
  <2>2. /\ step[c] \in {"register", "poll"} /\ Connect(c)
        /\ UNCHANGED <<step, id_, username_, name_to_id_, buf>>
    BY <1>5 DEF Dial, app
  <2>3. /\ pc[c] = "none" /\ pc'[c] = "queued" /\ sock'[c] = "open"
        /\ \A d \in Conns \ {c} : pc'[d] = pc[d] /\ sock'[d] = sock[d]
        /\ UNCHANGED <<sent, rx, tx>>
    BY <1>1, <2>2, ConnectFacts
  <2>4. CallShape(c) /\ NoListYet(c)
    BY ShapeFacts
  <2>5. CallShape(c)' /\ RequestShape(c)' /\ NoListYet(c)'
    BY <2>2, <2>3, <2>4 DEF CallShape, RequestShape, NoListYet
  <2> QED
    BY <2>1, <2>2, <2>3, <2>5, ShapeFrame
<1>6. ASSUME NEW c \in Conns, RegisterUser(c) PROVE ThreadShape' /\ ClientShape'
  <2>1. ThreadShape'
    BY <1>2, <1>6, NextOfServer
  <2>2. PICK n \in Names :
          /\ step[c] = "register"
          /\ SendRequest(c, [type |-> "REQUEST_REGISTER", username |-> n,
                             requestor_id |-> Missing])
          /\ username_' = [username_ EXCEPT ![c] = n]
          /\ step' = [step EXCEPT ![c] = "registering"]
          /\ UNCHANGED <<id_, name_to_id_, buf>>
    BY <1>6, RegisterUserFacts
  <2> DEFINE p == [type |-> "REQUEST_REGISTER", username |-> n, requestor_id |-> Missing]
  <2>3. p.type = "REQUEST_REGISTER" /\ p.username = n
    OBVIOUS
  <2> HIDE DEF p
  <2>4. /\ \/ sock[c] = "open" /\ sock'[c] = "data" /\ sent'[c] = p
           \/ sock[c] = "reset" /\ sock'[c] = "reset"
        /\ \A d \in Conns \ {c} : sock'[d] = sock[d] /\ sent'[d] = sent[d]
        /\ UNCHANGED <<pc, rx, tx>>
    BY <1>1, <2>2, SendRequestFacts DEF p
  <2>5. /\ step'[c] = "registering" /\ username_'[c] = n
        /\ \A d \in Conns \ {c} : step'[d] = step[d] /\ username_'[d] = username_[d]
    BY <2>2 DEF ChatTypeOK
  <2>6. CallShape(c) /\ NoListYet(c)
    BY ShapeFacts
  <2>7. CallShape(c)'
    BY <2>2, <2>4, <2>5, <2>6 DEF CallShape
  <2>8. RequestShape(c)'
    BY <2>3, <2>4, <2>5, <2>6 DEF RequestShape, CallShape
  <2>9. NoListYet(c)'
    BY <2>2, <2>6 DEF NoListYet
  <2> QED
    BY <2>1, <2>2, <2>4, <2>5, <2>7, <2>8, <2>9, ShapeFrame
<1>7. ASSUME NEW c \in Conns, PollUsers(c) PROVE ThreadShape' /\ ClientShape'
  <2>1. ThreadShape'
    BY <1>2, <1>7, NextOfServer
  <2> DEFINE p == [type |-> "REQUEST_USERS", username |-> Missing, requestor_id |-> id_[c]]
  <2>2. /\ step[c] = "poll" /\ SendRequest(c, p)
        /\ step' = [step EXCEPT ![c] = "polling"]
        /\ UNCHANGED <<id_, username_, name_to_id_, buf>>
    BY <1>7 DEF PollUsers
  <2>3. p.type = "REQUEST_USERS" /\ p.requestor_id = id_[c]
    OBVIOUS
  <2> HIDE DEF p
  <2>4. /\ \/ sock[c] = "open" /\ sock'[c] = "data" /\ sent'[c] = p
           \/ sock[c] = "reset" /\ sock'[c] = "reset"
        /\ \A d \in Conns \ {c} : sock'[d] = sock[d] /\ sent'[d] = sent[d]
        /\ UNCHANGED <<pc, rx, tx>>
    BY <1>1, <2>2, SendRequestFacts
  <2>5. step'[c] = "polling" /\ \A d \in Conns \ {c} : step'[d] = step[d]
    BY <2>2 DEF ChatTypeOK
  <2>6. CallShape(c)
    BY ShapeFacts
  <2>7. CallShape(c)'
    BY <2>2, <2>4, <2>5, <2>6 DEF CallShape
  <2>8. RequestShape(c)' /\ NoListYet(c)'
    BY <2>2, <2>3, <2>4, <2>5, <2>6 DEF RequestShape, CallShape, NoListYet
  <2> QED
    BY <2>1, <2>2, <2>4, <2>5, <2>7, <2>8, ShapeFrame
<1>8. ASSUME NEW c \in Conns, HandleRegister(c) PROVE ThreadShape' /\ ClientShape'
  <2>1. /\ pc[c] = "closed" /\ Recycle(c)
        /\ step'[c] = "poll"
        /\ \A d \in Conns \ {c} : id_'[d] = id_[d] /\ step'[d] = step[d]
        /\ UNCHANGED <<username_, name_to_id_, buf>>
    BY <1>8, HandleRegisterFacts
  <2>2. NoListYet(c)'
    BY <2>1 DEF NoListYet
  <2> QED
    BY <1>1, <2>1, <2>2, RecycleShape, RecycledClient
<1>9. ASSUME NEW c \in Conns, HandleUsers(c) PROVE ThreadShape' /\ ClientShape'
  <2>1. /\ pc[c] = "closed" /\ Recycle(c)
        /\ step'[c] = "poll"
        /\ \A d \in Conns \ {c} :
             step'[d] = step[d] /\ name_to_id_'[d] = name_to_id_[d] /\ buf'[d] = buf[d]
        /\ UNCHANGED <<id_, username_>>
    BY <1>9, HandleUsersFacts, ReceiveUsersFacts
  <2>2. NoListYet(c)'
    BY <2>1 DEF NoListYet
  <2> QED
    BY <1>1, <2>1, <2>2, RecycleShape, RecycledClient
<1>10. ASSUME NEW c \in Conns, Quit(c) PROVE ThreadShape' /\ ClientShape'
  <2>1. /\ pc[c] \in {"none", "closed"} /\ Recycle(c)
        /\ DOMAIN name_to_id_'[c] = {} /\ buf'[c] = ZeroBytes
        /\ \A d \in Conns \ {c} :
             /\ step'[d] = step[d] /\ id_'[d] = id_[d] /\ username_'[d] = username_[d]
             /\ name_to_id_'[d] = name_to_id_[d] /\ buf'[d] = buf[d]
    BY <1>10, QuitFacts
  <2>2. NoListYet(c)'
    BY <2>1, PacketTypes DEF NoListYet
  <2> QED
    BY <1>1, <2>1, <2>2, RecycleShape, RecycledClient
<1>11. ASSUME NEW c \in Conns, Leave(c) PROVE ThreadShape' /\ ClientShape'
  <2>1. ThreadShape'
    BY <1>2, <1>11, NextOfServer
  <2>2. /\ step[c] = "register" /\ step'[c] = "gone" /\ sock[c] = "open" /\ sock'[c] = "eof"
        /\ \A d \in Conns \ {c} : step'[d] = step[d] /\ sock'[d] = sock[d]
        /\ UNCHANGED <<pc, sent, rx, tx, id_, username_, name_to_id_, buf>>
    BY <1>11, LeaveFacts
  <2>3. CallShape(c) /\ NoListYet(c) /\ (pc[c] \notin {"none", "queued", "recv"} => sock[c] # "open")
    BY ShapeFacts DEF ThreadShape
  <2>4. CallShape(c)' /\ RequestShape(c)' /\ NoListYet(c)'
    BY <2>2, <2>3 DEF CallShape, RequestShape, NoListYet
  <2> QED
    BY <2>1, <2>2, <2>4, ShapeFrame
<1>12. CASE UNCHANGED chatVars
  <2>1. UNCHANGED <<pc, sock, sent, rx, tx, step, id_, username_, name_to_id_, buf>>
    BY <1>12 DEF chatVars, vars, app, client, locals
  <2>2. ThreadShape'
    BY <1>2, <1>12 DEF chatVars
  <2> QED
    BY <2>1, <2>2 DEF ClientShape, CallShape, RequestShape, NoListYet
<1> QED
  BY <1>3, <1>4, <1>5, <1>6, <1>7, <1>8, <1>9, <1>10, <1>11, <1>12 DEF ChatNext, UsersThread

-----------------------------------------------------------------------------
(* IDs and lists of users.                                                 *)

\* An ID that is settled, and its name, stay.
LEMMA HeldKept ==
  ASSUME ChatTypeOK, ChatTypeOK', HeldIds,
         next_id_ <= next_id_', Settled \subseteq Settled',
         \A i \in Settled : user_map_'[i].username = user_map_[i].username,
         \A d \in Holders' : d \in Holders /\ Own(d)' = Own(d) /\ username_'[d] = username_[d]
  PROVE  HeldIds'
<1>1. /\ next_id_ \in Nat /\ next_id_' \in Nat
      /\ \A d \in Conns : id_[d] \in Nat /\ tx[d].assigned_id \in Nat
  BY IdCountAssumption DEF ChatTypeOK, TypeOK, Replies, Ids
<1>2. \A d \in Holders : d \in Conns /\ Own(d) \in Nat
  BY <1>1 DEF Holders, Own
<1>3. ASSUME NEW c \in Holders'
      PROVE  /\ Own(c)' \in Settled' /\ Own(c)' < next_id_'
             /\ ~SplitReads => user_map_'[Own(c)'].username = username_'[c]
             /\ \A d \in Holders' : Own(c)' = Own(d)' => c = d
  <2>1. c \in Holders /\ Own(c)' = Own(c) /\ username_'[c] = username_[c]
    OBVIOUS
  <2>2. /\ Own(c) \in Settled /\ Own(c) < next_id_
        /\ ~SplitReads => user_map_[Own(c)].username = username_[c]
        /\ \A d \in Holders : Own(c) = Own(d) => c = d
    BY <2>1 DEF HeldIds
  <2>3. Own(c) < next_id_'
    BY <1>1, <1>2, <2>1, <2>2
  <2> QED
    BY <2>1, <2>2, <2>3
<1> QED
  BY <1>3 DEF HeldIds

\* A step leaves the lists of client d alone.
SameLists(d) ==
  /\ d \notin stale \cup cut
  /\ d \in long' <=> d \in long
  /\ tx'[d] = tx[d] /\ buf'[d] = buf[d]
  /\ name_to_id_'[d] = name_to_id_[d] /\ id_'[d] = id_[d]

LEMMA ListsKept ==
  ASSUME \A d \in Conns \ (stale \cup cut) : TrueLists(d),
         Settled \subseteq Settled',
         \A i \in Settled : user_map_'[i].username = user_map_[i].username,
         \A d \in Conns \ (stale \cup cut)' : TrueLists(d)' \/ SameLists(d)
  PROVE  \A d \in Conns \ (stale \cup cut)' : TrueLists(d)'
<1> SUFFICES ASSUME NEW d \in Conns, SameLists(d)
             PROVE  TrueLists(d)'
  OBVIOUS
<1>1. /\ d \notin stale \cup cut
      /\ d \in long' <=> d \in long
      /\ tx'[d] = tx[d] /\ buf'[d] = buf[d]
      /\ name_to_id_'[d] = name_to_id_[d] /\ id_'[d] = id_[d]
  BY DEF SameLists
<1>2. TrueLists(d)
  BY <1>1
<1>3. ASSUME NEW i, NEW n, Listable(d, i, n) PROVE Listable(d, i, n)'
  BY <1>1, <1>3 DEF Listable
<1> QED
  BY <1>1, <1>2, <1>3 DEF TrueLists

LEMMA RacedCore == raced' => ChatCore'
BY DEF ChatCore, OneRegistrationAtATime

\* Steps outside the handlers' accesses to the database disturb no thread in
\* registerUser.
LEMMA QuietRegistering ==
  ASSUME OneRegistrationAtATime, UNCHANGED <<next_id_, user_map_, raced>>,
         \A d \in Conns :
           \/ /\ pc'[d] = pc[d] /\ rx'[d] = rx[d] /\ key'[d] = key[d] /\ old'[d] = old[d]
           \/ /\ pc[d] \notin {"assign", "load", "store"}
              /\ pc'[d] \notin {"assign", "load", "store"}
  PROVE  /\ OneRegistrationAtATime' /\ Registering' = Registering
         /\ Settled' = Settled /\ (StoredIds => StoredIds')
<1>1. Registering' = Registering /\ Writing' = Writing
  BY DEF Registering, Writing
<1>2. \A d \in Registering : /\ pc'[d] = pc[d] /\ rx'[d] = rx[d]
                             /\ key'[d] = key[d] /\ old'[d] = old[d]
  BY DEF Registering
<1>3. \A d \in Writing : key'[d] = key[d]
  BY DEF Writing
<1>4. OneRegistrationAtATime'
  BY <1>1, <1>2 DEF OneRegistrationAtATime, UserExists
<1>5. {key'[d] : d \in Writing} = {key[d] : d \in Writing}
  BY <1>3
<1>6. Settled' = Settled
  BY <1>1, <1>5 DEF Settled
<1>7. StoredIds => StoredIds'
  BY <1>1 DEF StoredIds
<1> QED
  BY <1>1, <1>4, <1>6, <1>7

\* A quiet step leaves the holders of IDs, their IDs and the lists alone.
LEMMA QuietCore ==
  ASSUME ChatTypeOK, ChatTypeOK', ChatCore,
         UNCHANGED <<next_id_, user_map_, raced, wrapped>>,
         \A d \in Conns :
           \/ /\ pc'[d] = pc[d] /\ rx'[d] = rx[d] /\ key'[d] = key[d] /\ old'[d] = old[d]
           \/ /\ pc[d] \notin {"assign", "load", "store"}
              /\ pc'[d] \notin {"assign", "load", "store"},
         \A d \in Holders' : d \in Holders /\ Own(d)' = Own(d) /\ username_'[d] = username_[d],
         ~raced /\ ~wrapped /\ (\A d \in Conns \ (stale \cup cut) : TrueLists(d)) =>
           \A d \in Conns \ (stale \cup cut)' : TrueLists(d)' \/ SameLists(d)
  PROVE  ChatCore'
<1>1. OneRegistrationAtATime
  BY DEF ChatCore
<1>2. /\ OneRegistrationAtATime' /\ Registering' = Registering
      /\ Settled' = Settled /\ (StoredIds => StoredIds')
  BY <1>1, QuietRegistering
<1>3. next_id_ <= next_id_'
  BY IdCountAssumption DEF ChatTypeOK, TypeOK, Ids
<1>4. ASSUME ~raced, ~wrapped
      PROVE  StoredIds' /\ HeldIds' /\ \A d \in Conns \ (stale \cup cut)' : TrueLists(d)'
  <2>1. StoredIds /\ HeldIds /\ \A d \in Conns \ (stale \cup cut) : TrueLists(d)
    BY <1>4 DEF ChatCore
  <2>2. Settled \subseteq Settled' /\ \A i \in Settled : user_map_'[i].username = user_map_[i].username
    BY <1>2
  <2>3. HeldIds'
    BY <1>3, <2>1, <2>2, HeldKept
  <2>4. \A d \in Conns \ (stale \cup cut)' : TrueLists(d)'
    BY <1>4, <2>1, <2>2, ListsKept
  <2> QED
    BY <1>2, <2>1, <2>3, <2>4
<1> QED
  BY <1>2, <1>4 DEF ChatCore

LEMMA SameHolder ==
  ASSUME NEW d \in Conns, tx'[d] = tx[d], id_'[d] = id_[d], d \in stale' <=> d \in stale,
         step'[d] \in {"poll", "polling"} => step[d] \in {"poll", "polling"}
  PROVE  (d \in Holders' => d \in Holders) /\ Own(d)' = Own(d)
BY DEF Holders, Own

LEMMA QuietServerCore ==
  ASSUME ChatTypeOK, ChatTypeOK', ThreadShape, ChatCore, UNCHANGED app, NEW c \in Conns,
         Accept \/ Crash \/ Connect(c) \/ Receive(c) \/ Send(c) \/ UNCHANGED vars
  PROVE  ChatCore'
<1>1. TypeOK
  BY DEF ChatTypeOK
<1>2. UNCHANGED <<step, id_, username_, name_to_id_, buf, stale, cut, long>>
  BY DEF app
<1>3. /\ UNCHANGED <<next_id_, user_map_, tx, key, old, raced, wrapped>>
      /\ \A d \in Conns : \/ pc'[d] = pc[d] /\ rx'[d] = rx[d]
                          \/ /\ pc[d] \notin {"assign", "load", "store"}
                             /\ pc'[d] \notin {"assign", "load", "store"}
  <2>1. CASE Accept
    <3>1. PICK e \in Conns :
            /\ pc[e] = "queued" /\ pc'[e] = "recv"
            /\ \A d \in Conns \ {e} : pc'[d] = pc[d]
            /\ UNCHANGED <<next_id_, user_map_, rx, tx, key, old, raced, wrapped>>
      BY <1>1, <2>1, AcceptFacts
    <3> QED
      BY <3>1
  <2>2. CASE Crash
    BY <2>2 DEF Crash, db, locals
  <2>3. CASE Connect(c)
    <3>1. /\ pc[c] = "none" /\ pc'[c] = "queued"
          /\ \A d \in Conns \ {c} : pc'[d] = pc[d]
          /\ UNCHANGED <<next_id_, user_map_, rx, tx, key, old, raced, wrapped>>
      BY <1>1, <2>3, ConnectFacts
    <3> QED
      BY <3>1
  <2>4. CASE Receive(c)
    <3>1. /\ pc[c] = "recv" /\ pc'[c] \in {"insert", "lookup", "send"}
          /\ \A d \in Conns \ {c} : pc'[d] = pc[d] /\ rx'[d] = rx[d]
          /\ UNCHANGED <<next_id_, user_map_, tx, key, old, raced, wrapped>>
      BY <1>1, <2>4 DEF Receive, Handler, db, TypeOK
    <3> QED
      BY <3>1
  <2>5. CASE Send(c)
    <3>1. /\ pc[c] = "send" /\ pc'[c] = "closed"
          /\ \A d \in Conns \ {c} : pc'[d] = pc[d]
          /\ UNCHANGED <<next_id_, user_map_, rx, tx, key, old, raced, wrapped>>
      BY <1>1, <2>5 DEF Send, db, locals, TypeOK
    <3> QED
      BY <3>1
  <2>6. CASE UNCHANGED vars
    BY <2>6 DEF vars, db, locals
  <2> QED
    BY <2>1, <2>2, <2>3, <2>4, <2>5, <2>6
<1>4. ASSUME NEW d \in Holders' PROVE d \in Holders /\ Own(d)' = Own(d)
  <2>1. d \in Conns
    BY DEF Holders
  <2> QED
    BY <1>2, <1>3, <2>1, SameHolder
<1> QED
  BY <1>2, <1>3, <1>4, QuietCore DEF SameLists

\* A client that sends a request holds the ID that it held before, and one
\* that leaves at the prompt holds none.
LEMMA SendCore ==
  ASSUME ChatTypeOK, ChatTypeOK', ThreadShape, ClientShape, ChatCore, NEW c \in Conns,
         RegisterUser(c) \/ PollUsers(c) \/ Leave(c)
  PROVE  ChatCore'
<1>1. TypeOK /\ step \in [Conns -> {"register", "registering", "poll", "polling", "gone"}]
  BY DEF ChatTypeOK
<1>2. /\ UNCHANGED <<next_id_, user_map_, pc, rx, tx, key, old, raced, wrapped>>
      /\ UNCHANGED <<id_, name_to_id_, buf, stale, cut, long>>
      /\ \A d \in Conns \ {c} : step'[d] = step[d] /\ username_'[d] = username_[d]
      /\ \/ step[c] = "register" /\ step'[c] \in {"registering", "gone"}
         \/ step[c] = "poll" /\ step'[c] = "polling" /\ username_'[c] = username_[c]
  <2>1. CASE RegisterUser(c)
    <3>1. PICK n \in Names :
            /\ step[c] = "register"
            /\ SendRequest(c, [type |-> "REQUEST_REGISTER", username |-> n,
                               requestor_id |-> Missing])
            /\ username_' = [username_ EXCEPT ![c] = n]
            /\ step' = [step EXCEPT ![c] = "registering"]
            /\ UNCHANGED <<id_, name_to_id_, buf, stale, cut, long>>
      BY <2>1, RegisterUserFacts
    <3>2. UNCHANGED <<next_id_, user_map_, pc, rx, tx, key, old, raced, wrapped>>
      BY <1>1, <3>1, SendRequestFacts
    <3> QED
      BY <1>1, <3>1, <3>2 DEF ChatTypeOK
  <2>2. CASE PollUsers(c)
    <3>1. /\ step[c] = "poll"
          /\ SendRequest(c, [type |-> "REQUEST_USERS", username |-> Missing,
                             requestor_id |-> id_[c]])
          /\ step' = [step EXCEPT ![c] = "polling"]
          /\ UNCHANGED <<id_, username_, name_to_id_, buf, stale, cut, long>>
      BY <2>2 DEF PollUsers
    <3>2. UNCHANGED <<next_id_, user_map_, pc, rx, tx, key, old, raced, wrapped>>
      BY <1>1, <3>1, SendRequestFacts
    <3> QED
      BY <1>1, <3>1, <3>2
  <2>3. CASE Leave(c)
    BY <2>3, LeaveFacts
  <2> QED
    BY <2>1, <2>2, <2>3
<1>3. ASSUME NEW d \in Holders'
      PROVE  d \in Holders /\ Own(d)' = Own(d) /\ username_'[d] = username_[d]
  <2>1. d \in Conns
    BY DEF Holders
  <2>2. d \in Holders /\ Own(d)' = Own(d)
    BY <1>2, <2>1, SameHolder
  <2>3. step[c] = "register" => tx[c].type # "RESP_REGISTER"
    BY ShapeFacts DEF CallShape
  <2>4. step[c] = "register" => c \notin Holders
    BY <2>3 DEF Holders
  <2> QED
    BY <1>2, <2>1, <2>2, <2>4
<1> QED
  BY <1>2, <1>3, QuietCore DEF SameLists

\* The client takes the ID that was on its way; an error, or a part of the ID,
\* makes it stale.
LEMMA HandleRegisterCore ==
  ASSUME ChatTypeOK, ChatTypeOK', ClientShape, ChatCore, NEW c \in Conns, HandleRegister(c)
  PROVE  ChatCore'
<1>1. /\ step[c] = "registering" /\ pc[c] = "closed"
      /\ \/ /\ tx[c].type = "RESP_REGISTER" /\ id_'[c] = tx[c].assigned_id
            /\ UNCHANGED stale
         \/ stale' = stale \cup {c}
      /\ \A d \in Conns \ {c} : id_'[d] = id_[d] /\ step'[d] = step[d]
      /\ step'[c] = "poll" /\ Recycle(c)
      /\ UNCHANGED <<username_, name_to_id_, buf, cut, long>>
  BY HandleRegisterFacts
<1>2. /\ pc'[c] = "none" /\ tx'[c].type = "NONE"
      /\ \A d \in Conns \ {c} :
           pc'[d] = pc[d] /\ rx'[d] = rx[d] /\ tx'[d] = tx[d] /\ key'[d] = key[d] /\ old'[d] = old[d]
      /\ UNCHANGED <<next_id_, user_map_, raced, wrapped>>
  BY <1>1, RecycleFacts, PacketTypes DEF ChatTypeOK
<1>3. NoListYet(c)
  BY ShapeFacts
<1>4. TrueLists(c)'
  BY <1>1, <1>2, <1>3 DEF TrueLists, NoListYet
<1>5. ASSUME NEW d \in Holders' PROVE d \in Holders /\ Own(d)' = Own(d)
  <2>1. d \in Conns /\ d \notin stale'
    BY DEF Holders
  <2>2. CASE d = c
    <3>1. tx[c].type = "RESP_REGISTER" /\ id_'[c] = tx[c].assigned_id /\ c \notin stale
      BY <1>1, <2>1, <2>2
    <3> QED
      BY <1>2, <2>1, <2>2, <3>1 DEF Holders, Own
  <2>3. CASE d # c
    BY <1>1, <1>2, <2>1, <2>3, SameHolder
  <2> QED
    BY <2>2, <2>3
<1>6. ASSUME NEW d \in Conns \ (stale \cup cut)', d # c
      PROVE  SameLists(d)
  BY <1>1, <1>2, <1>6 DEF SameLists
<1> QED
  BY <1>1, <1>2, <1>4, <1>5, <1>6, QuietCore

\* The list that a client takes over was true when it was made, and what was
\* listed then is still there.
LEMMA HandleUsersCore ==
  ASSUME ChatTypeOK, ChatTypeOK', ClientShape, ChatCore, NEW c \in Conns, HandleUsers(c)
  PROVE  ChatCore'
<1>1. /\ step[c] = "polling" /\ pc[c] = "closed"
      /\ \/ name_to_id_'[c] = name_to_id_[c]
         \/ name_to_id_'[c] \in Mappings(buf'[c].online_users)
      /\ \A d \in Conns \ {c} :
           /\ buf'[d] = buf[d] /\ name_to_id_'[d] = name_to_id_[d] /\ step'[d] = step[d]
           /\ d \in cut' <=> d \in cut
           /\ d \in long' <=> d \in long
      /\ step'[c] = "poll" /\ Recycle(c)
      /\ UNCHANGED <<id_, username_, stale>>
      /\ cut \subseteq cut' /\ long \subseteq long'
  BY HandleUsersFacts, ReceiveUsersFacts
<1>2. /\ pc'[c] = "none" /\ tx'[c].type = "NONE"
      /\ \A d \in Conns \ {c} :
           pc'[d] = pc[d] /\ rx'[d] = rx[d] /\ tx'[d] = tx[d] /\ key'[d] = key[d] /\ old'[d] = old[d]
      /\ UNCHANGED <<next_id_, user_map_, raced, wrapped>>
  BY <1>1, RecycleFacts, PacketTypes DEF ChatTypeOK
<1>3. \A d \in Conns :
        \/ /\ pc'[d] = pc[d] /\ rx'[d] = rx[d] /\ key'[d] = key[d] /\ old'[d] = old[d]
        \/ /\ pc[d] \notin {"assign", "load", "store"}
           /\ pc'[d] \notin {"assign", "load", "store"}
  BY <1>1, <1>2
<1>4. Settled' = Settled
  BY <1>2, <1>3, QuietRegistering DEF ChatCore
<1>5. ASSUME c \notin (stale \cup cut)', TrueLists(c) PROVE TrueLists(c)'
  <2> DEFINE InBuffer(u) == Listable(c, u.user_id, u.username)
             Entry(n)    == [user_id |-> name_to_id_'[c][n], username |-> n]
  <2>1. /\ c \notin long' => \A u \in buf'[c].online_users : InBuffer(u)
        /\ \A u, v \in buf'[c].online_users : InBuffer(u) \/ InBuffer(v) \/ u = v
    <3>1. \/ tx[c].type \in {"RESP_USERS", "ZEROS"} /\ buf'[c] = tx[c]
          \/ /\ tx[c].type = "RESP_USERS" /\ c \in long'
             /\ \A u, v \in buf'[c].online_users :
                  u \in tx[c].online_users \/ v \in tx[c].online_users \/ u = v
          \/ buf'[c] = buf[c] /\ UNCHANGED long
      BY <1>5, HandleUsersFacts, ReceiveUsersFacts
    <3>2. /\ tx[c].type \in {"RESP_USERS", "ZEROS"} => \A u \in tx[c].online_users : InBuffer(u)
          /\ c \notin long => \A u \in buf[c].online_users : InBuffer(u)
          /\ \A u, v \in buf[c].online_users : InBuffer(u) \/ InBuffer(v) \/ u = v
      BY <1>5 DEF TrueLists
    <3> QED
      BY <3>1, <3>2
  <2>2. /\ c \notin long' =>
             \A n \in DOMAIN name_to_id_'[c] : Listable(c, name_to_id_'[c][n], n)
        /\ \A m, n \in DOMAIN name_to_id_'[c] :
             \/ Listable(c, name_to_id_'[c][m], m)
             \/ Listable(c, name_to_id_'[c][n], n)
             \/ m = n
    <3>1. CASE name_to_id_'[c] = name_to_id_[c]
      BY <1>1, <1>5, <3>1 DEF TrueLists
    <3>2. CASE name_to_id_'[c] \in Mappings(buf'[c].online_users)
      <4>1. buf'[c].online_users \in SUBSET OnlineUser
        BY DEF ChatTypeOK, Replies
      <4>2. \A n \in DOMAIN name_to_id_'[c] : Entry(n) \in buf'[c].online_users
        BY <3>2, <4>1, MappingsType
      <4>3. \A n : Entry(n).user_id = name_to_id_'[c][n] /\ Entry(n).username = n
        OBVIOUS
      <4> HIDE DEF Entry
      <4> QED
        BY <2>1, <4>2, <4>3
    <3> QED
      BY <1>1, <3>1, <3>2
  <2>3. ASSUME NEW i, NEW n, Listable(c, i, n) PROVE Listable(c, i, n)'
    BY <1>1, <1>2, <1>4, <2>3 DEF Listable
  <2>4. tx'[c].type \notin {"RESP_USERS", "ZEROS"}
    BY <1>2
  <2> QED
    BY <2>1, <2>2, <2>3, <2>4 DEF TrueLists
<1>6. ASSUME NEW d \in Holders' PROVE d \in Holders /\ Own(d)' = Own(d)
  <2>1. d \in Conns /\ d \notin stale'
    BY DEF Holders
  <2>2. CASE d = c
    <3>1. tx[c].type # "RESP_REGISTER"
      BY <1>1, ShapeFacts DEF CallShape
    <3> QED
      BY <1>1, <1>2, <2>1, <2>2, <3>1 DEF Holders, Own
  <2>3. CASE d # c
    BY <1>1, <1>2, <2>1, <2>3, SameHolder
  <2> QED
    BY <2>2, <2>3
<1>7. ASSUME NEW d \in Conns \ (stale \cup cut)', d # c
      PROVE  SameLists(d)
  BY <1>1, <1>2, <1>7 DEF SameLists
<1> QED
  BY <1>1, <1>2, <1>3, <1>5, <1>6, <1>7, QuietCore

\* A client that is started again holds nothing.
LEMMA QuitCore ==
  ASSUME ChatTypeOK, ChatTypeOK', ChatCore, NEW c \in Conns, Quit(c)
  PROVE  ChatCore'
<1>1. /\ pc[c] \in {"none", "closed"}
      /\ step'[c] = "register" /\ DOMAIN name_to_id_'[c] = {} /\ buf'[c] = ZeroBytes
      /\ \A d \in Conns \ {c} :
           /\ step'[d] = step[d] /\ id_'[d] = id_[d] /\ username_'[d] = username_[d]
           /\ name_to_id_'[d] = name_to_id_[d] /\ buf'[d] = buf[d]
      /\ stale' = stale \ {c} /\ cut' = cut \ {c} /\ long' = long \ {c}
      /\ Recycle(c)
  BY QuitFacts
<1>2. /\ pc'[c] = "none" /\ tx'[c].type = "NONE"
      /\ \A d \in Conns \ {c} :
           pc'[d] = pc[d] /\ rx'[d] = rx[d] /\ tx'[d] = tx[d] /\ key'[d] = key[d] /\ old'[d] = old[d]
      /\ UNCHANGED <<next_id_, user_map_, raced, wrapped>>
  BY <1>1, RecycleFacts, PacketTypes DEF ChatTypeOK
<1>3. TrueLists(c)'
  BY <1>1, <1>2, PacketTypes DEF TrueLists
<1>4. ASSUME NEW d \in Holders'
      PROVE  d \in Holders /\ Own(d)' = Own(d) /\ username_'[d] = username_[d]
  <2>1. d \in Conns /\ d # c
    BY <1>1, <1>2 DEF Holders
  <2> QED
    BY <1>1, <1>2, <2>1, SameHolder
<1>5. ASSUME NEW d \in Conns \ (stale \cup cut)', d # c
      PROVE  SameLists(d)
  BY <1>1, <1>2, <1>5 DEF SameLists
<1> QED
  BY <1>1, <1>2, <1>3, <1>4, <1>5, QuietCore

\* A restart leaves nobody with an ID of the new process, and the lists of
\* everybody who is not stale are empty.
LEMMA RestartCore ==
  ASSUME ChatTypeOK, ChatTypeOK', ClientShape, ChatCore, Restart
  PROVE  ChatCore'
<1>1. /\ DOMAIN user_map_' = {}
      /\ \A c \in Conns :
           \/ /\ pc[c] \in {"none", "closed"} /\ pc'[c] = pc[c]
              /\ sock'[c] = sock[c] /\ tx'[c] = tx[c]
           \/ /\ pc[c] \in {"queued", "recv"} /\ pc'[c] = "closed"
              /\ sock'[c] = "reset" /\ tx'[c] = NoReply
           \/ /\ pc[c] \notin {"none", "queued", "recv", "closed"} /\ pc'[c] = "closed"
              /\ sock'[c] = sock[c] /\ tx'[c] = NoReply
      /\ stale' = stale \cup {c \in Conns :
           step[c] \in {"poll", "polling"} \/ tx'[c].type = "RESP_REGISTER"}
      /\ UNCHANGED <<step, id_, name_to_id_, buf, cut, long>>
  BY RestartFacts DEF ChatTypeOK
<1>2. Registering' = {}
  BY <1>1 DEF Registering
<1>3. OneRegistrationAtATime'
  BY <1>2 DEF OneRegistrationAtATime
<1>4. StoredIds'
  BY <1>1 DEF StoredIds
<1>5. Holders' = {}
  BY <1>1 DEF Holders
<1>6. HeldIds'
  BY <1>5 DEF HeldIds
<1>7. ASSUME NEW c \in Conns \ (stale \cup cut)' PROVE TrueLists(c)'
  <2>1. step[c] \in {"register", "registering", "gone"}
    BY <1>1 DEF ChatTypeOK
  <2>2. DOMAIN name_to_id_[c] = {} /\ buf[c].online_users = {}
    BY <2>1, ShapeFacts DEF NoListYet
  <2>3. tx'[c].type \notin {"RESP_USERS", "ZEROS"}
    BY <1>1, <2>1, ShapeFacts, PacketTypes DEF CallShape
  <2> QED
    BY <1>1, <2>2, <2>3 DEF TrueLists
<1> QED
  BY <1>3, <1>4, <1>6, <1>7 DEF ChatCore

\* Without a race the insertion finds nobody in registerUser, and the ID it
\* works on is above all that are stored.
LEMMA RegInsertCore ==
  ASSUME ChatTypeOK, ChatTypeOK', ClientShape, ChatCore, NEW c \in Conns, RegInsert(c),
         UNCHANGED app
  PROVE  ChatCore'
<1> SUFFICES ASSUME ~raced' PROVE ChatCore'
  BY RacedCore
<1>1. /\ ~raced /\ Registering = {} /\ pc[c] = "insert"
      /\ UNCHANGED <<next_id_, tx, wrapped>>
      /\ pc' = [pc EXCEPT ![c] = "assign"]
      /\ key' = [key EXCEPT ![c] = next_id_]
  BY DEF RegInsert
<1>2. UNCHANGED <<step, id_, username_, name_to_id_, buf, stale, cut, long>>
  BY DEF app
<1>3. Writing = {} /\ {key[d] : d \in Writing} = {}
  BY <1>1 DEF Writing, Registering
<1>4. /\ DOMAIN user_map_' = DOMAIN user_map_ \cup {next_id_}
      /\ \A i \in DOMAIN user_map_ : user_map_'[i] = user_map_[i]
  <2>1. PICK lost \in SUBSET {key[d] : d \in Writing} :
          user_map_' = Subscript(Without(user_map_, lost), next_id_)
    BY DEF RegInsert
  <2>2. lost = {}
    BY <1>3, <2>1
  <2>3. Without(user_map_, lost) = user_map_
    BY <2>2 DEF Without, ChatTypeOK, TypeOK
  <2> QED
    BY <2>1, <2>3 DEF Subscript, Store
<1>5. /\ pc'[c] = "assign" /\ key'[c] = next_id_
      /\ \A d \in Conns \ {c} : pc'[d] = pc[d]
  BY <1>1 DEF ChatTypeOK, TypeOK
<1>6. Registering' = {c} /\ Writing' = {c}
  BY <1>1, <1>5 DEF Registering, Writing
<1>7. OneRegistrationAtATime'
  BY <1>1, <1>4, <1>5, <1>6 DEF OneRegistrationAtATime, UserExists
<1>8. ASSUME ~wrapped'
      PROVE  StoredIds' /\ HeldIds' /\ \A d \in Conns \ (stale \cup cut)' : TrueLists(d)'
  <2>1. StoredIds /\ HeldIds /\ \A d \in Conns \ (stale \cup cut) : TrueLists(d)
    BY <1>1, <1>8 DEF ChatCore
  <2>2. next_id_ \in Nat /\ DOMAIN user_map_ \subseteq Nat
    BY IdCountAssumption DEF ChatTypeOK, TypeOK, Ids
  <2>3. \A i \in DOMAIN user_map_ : i < next_id_
    BY <1>1, <2>1 DEF StoredIds
  <2>4. StoredIds'
    BY <1>1, <1>4, <1>6, <2>2, <2>3 DEF StoredIds
  <2>5. Settled = DOMAIN user_map_
    BY <1>3 DEF Settled
  <2>6. Settled' = DOMAIN user_map_
    BY <1>4, <1>5, <1>6, <2>2, <2>3 DEF Settled
  <2>7. /\ Settled \subseteq Settled'
        /\ \A i \in Settled : user_map_'[i].username = user_map_[i].username
        /\ next_id_ <= next_id_'
    BY <1>1, <1>4, <2>2, <2>5, <2>6
  <2>8. ASSUME NEW d \in Holders' PROVE d \in Holders /\ Own(d)' = Own(d)
    BY <1>1, <1>2 DEF Holders, Own
  <2>9. HeldIds'
    BY <1>2, <2>1, <2>7, <2>8, HeldKept
  <2>10. \A d \in Conns \ (stale \cup cut)' : TrueLists(d)'
    BY <1>1, <1>2, <2>1, <2>7, ListsKept DEF SameLists
  <2> QED
    BY <2>4, <2>9, <2>10
<1> QED
  BY <1>7, <1>8 DEF ChatCore

\* The assignment writes the entry of the ID being handed out, no other, and
\* completes it.
LEMMA RegAssignCore ==
  ASSUME ChatTypeOK, ChatTypeOK', ClientShape, ChatCore, NEW c \in Conns, RegAssign(c),
         UNCHANGED app
  PROVE  ChatCore'
<1> SUFFICES ASSUME ~raced' PROVE ChatCore'
  BY RacedCore
<1>1. /\ ~raced /\ pc[c] = "assign"
      /\ UNCHANGED <<next_id_, rx, tx, key, old, wrapped>>
      /\ pc' = [pc EXCEPT ![c] = "load"]
  BY DEF RegAssign, locals
<1>2. UNCHANGED <<step, id_, username_, name_to_id_, buf, stale, cut, long>>
  BY DEF app
<1>3. /\ Registering = {c} /\ key[c] = next_id_ /\ next_id_ \in DOMAIN user_map_
  BY <1>1 DEF ChatCore, OneRegistrationAtATime, Registering, UserExists
<1>4. /\ DOMAIN user_map_' = DOMAIN user_map_
      /\ user_map_'[next_id_].username = rx[c].username
      /\ \A i \in DOMAIN user_map_ \ {next_id_} : user_map_'[i] = user_map_[i]
  BY <1>3 DEF RegAssign, Store
<1>5. pc'[c] = "load" /\ \A d \in Conns \ {c} : pc'[d] = pc[d]
  BY <1>1 DEF ChatTypeOK, TypeOK
<1>6. Registering' = {c} /\ Writing = {c} /\ Writing' = {}
  BY <1>1, <1>3, <1>5 DEF Registering, Writing
<1>7. OneRegistrationAtATime'
  BY <1>1, <1>3, <1>4, <1>5, <1>6 DEF OneRegistrationAtATime, UserExists
<1>8. ASSUME ~wrapped'
      PROVE  StoredIds' /\ HeldIds' /\ \A d \in Conns \ (stale \cup cut)' : TrueLists(d)'
  <2>1. StoredIds /\ HeldIds /\ \A d \in Conns \ (stale \cup cut) : TrueLists(d)
    BY <1>1, <1>8 DEF ChatCore
  <2>2. StoredIds'
    BY <1>1, <1>3, <1>4, <1>6, <2>1 DEF StoredIds
  <2>3. Settled = DOMAIN user_map_ \ {next_id_} /\ Settled' = DOMAIN user_map_
    BY <1>3, <1>4, <1>6 DEF Settled
  <2>4. next_id_ <= next_id_'
    BY <1>1, IdCountAssumption DEF ChatTypeOK, TypeOK, Ids
  <2>5. /\ Settled \subseteq Settled'
        /\ \A i \in Settled : user_map_'[i].username = user_map_[i].username
    BY <1>4, <2>3
  <2>6. ASSUME NEW d \in Holders' PROVE d \in Holders /\ Own(d)' = Own(d)
    BY <1>1, <1>2 DEF Holders, Own
  <2>7. HeldIds'
    BY <1>2, <2>1, <2>4, <2>5, <2>6, HeldKept
  <2>8. \A d \in Conns \ (stale \cup cut)' : TrueLists(d)'
    BY <1>1, <1>2, <2>1, <2>5, ListsKept DEF SameLists
  <2> QED
    BY <2>2, <2>7, <2>8
<1> QED
  BY <1>7, <1>8 DEF ChatCore

LEMMA RegLoadCore ==
  ASSUME ChatTypeOK, ChatTypeOK', ChatCore, NEW c \in Conns, RegLoad(c), UNCHANGED app
  PROVE  ChatCore'
<1> SUFFICES ASSUME ~raced' PROVE ChatCore'
  BY RacedCore
<1>1. /\ ~raced /\ pc[c] = "load"
      /\ UNCHANGED <<next_id_, user_map_, rx, tx, key, wrapped>>
      /\ pc' = [pc EXCEPT ![c] = "store"]
      /\ old' = [old EXCEPT ![c] = next_id_]
  BY DEF RegLoad, db
<1>2. UNCHANGED <<step, id_, username_, name_to_id_, buf, stale, cut, long>>
  BY DEF app
<1>3. /\ pc'[c] = "store" /\ old'[c] = next_id_
      /\ \A d \in Conns \ {c} : pc'[d] = pc[d] /\ old'[d] = old[d]
  BY <1>1 DEF ChatTypeOK, TypeOK
<1>4. Registering' = Registering /\ Writing' = Writing
  BY <1>1, <1>3 DEF Registering, Writing
<1>5. OneRegistrationAtATime'
  <2>1. \A d \in Registering : d \in Conns
    BY DEF Registering
  <2> QED
    BY <1>1, <1>3, <1>4, <2>1 DEF ChatCore, OneRegistrationAtATime, UserExists, Registering
<1>6. ASSUME ~wrapped'
      PROVE  StoredIds' /\ HeldIds' /\ \A d \in Conns \ (stale \cup cut)' : TrueLists(d)'
  <2>1. StoredIds /\ HeldIds /\ \A d \in Conns \ (stale \cup cut) : TrueLists(d)
    BY <1>1, <1>6 DEF ChatCore
  <2>2. StoredIds' /\ Settled' = Settled
    BY <1>1, <1>4, <2>1 DEF StoredIds, Settled
  <2>3. next_id_ <= next_id_'
    BY <1>1, IdCountAssumption DEF ChatTypeOK, TypeOK, Ids
  <2>4. ASSUME NEW d \in Holders' PROVE d \in Holders /\ Own(d)' = Own(d)
    BY <1>1, <1>2 DEF Holders, Own
  <2>5. HeldIds'
    BY <1>1, <1>2, <2>1, <2>2, <2>3, <2>4, HeldKept
  <2>6. \A d \in Conns \ (stale \cup cut)' : TrueLists(d)'
    BY <1>1, <1>2, <2>1, <2>2, ListsKept DEF SameLists
  <2> QED
    BY <2>2, <2>5, <2>6
<1> QED
  BY <1>5, <1>6 DEF ChatCore

\* The answer carries the ID just stored, which nobody else holds because it
\* is above all held IDs, and the name stored under it is the client's.
LEMMA RegStoreCore ==
  ASSUME ChatTypeOK, ChatTypeOK', ThreadShape, ClientShape, ChatCore, NEW c \in Conns,
         RegStore(c), UNCHANGED app
  PROVE  ChatCore'
<1> SUFFICES ASSUME ~raced' PROVE ChatCore'
  BY RacedCore
<1>1. /\ ~raced /\ pc[c] = "store"
      /\ UNCHANGED <<user_map_, rx, key>>
      /\ pc' = [pc EXCEPT ![c] = "send"]
      /\ next_id_' = Successor(old[c])
      /\ wrapped' = (wrapped \/ Successor(old[c]) = 0)
      /\ tx' = [tx EXCEPT ![c] = SerializeToArray(RespRegister(old[c]))]
  BY DEF RegStore
<1>2. UNCHANGED <<step, id_, username_, name_to_id_, buf, stale, cut, long>>
  BY DEF app
<1>3. /\ Registering = {c} /\ old[c] = next_id_ /\ next_id_ \in DOMAIN user_map_
      /\ user_map_[next_id_].username = rx[c].username
  BY <1>1 DEF ChatCore, OneRegistrationAtATime, Registering, UserExists
<1>4. tx'[c].type = "RESP_REGISTER" /\ tx'[c].assigned_id = next_id_
  BY <1>3, AnswerFacts DEF ChatTypeOK
<1>5. /\ pc'[c] = "send"
      /\ \A d \in Conns \ {c} : pc'[d] = pc[d] /\ tx'[d] = tx[d]
  BY <1>1 DEF ChatTypeOK, TypeOK
<1>6. Registering' = {} /\ Writing' = {} /\ Writing = {}
  BY <1>1, <1>3, <1>5 DEF Registering, Writing
<1>7. OneRegistrationAtATime'
  BY <1>6 DEF OneRegistrationAtATime
<1>8. step[c] = "registering" /\ (~SplitReads => rx[c].username = username_[c])
  <2>1. step[c] = "registering" /\ sock[c] \in {"data", "reset"} /\ sock[c] # "reset"
    BY <1>1, ShapeFacts DEF CallShape
  <2> QED
    BY <1>1, <2>1, ShapeFacts DEF RequestShape
<1>9. ASSUME ~wrapped'
      PROVE  StoredIds' /\ HeldIds' /\ \A d \in Conns \ (stale \cup cut)' : TrueLists(d)'
  <2>1. StoredIds /\ HeldIds /\ \A d \in Conns \ (stale \cup cut) : TrueLists(d)
    BY <1>1, <1>9 DEF ChatCore
  <2>2. /\ next_id_ \in Nat /\ DOMAIN user_map_ \subseteq Nat
        /\ \A d \in Conns : id_[d] \in Nat /\ tx[d].assigned_id \in Nat
    BY IdCountAssumption DEF ChatTypeOK, TypeOK, Replies, Ids
  <2>3. next_id_' = next_id_ + 1
    BY <1>1, <1>3, <1>9 DEF Successor
  <2>4. StoredIds'
    <3>1. \A i \in DOMAIN user_map_ : i < next_id_ \/ i = next_id_
      BY <2>1 DEF StoredIds
    <3> QED
      BY <1>1, <2>2, <2>3, <3>1 DEF StoredIds
  <2>5. Settled = DOMAIN user_map_ /\ Settled' = DOMAIN user_map_
    BY <1>1, <1>6 DEF Settled
  <2>6. ASSUME NEW d \in Holders', d # c
        PROVE  /\ Own(d)' = Own(d) /\ Own(d) \in Settled' /\ Own(d) < next_id_
               /\ ~SplitReads => user_map_[Own(d)].username = username_[d]
               /\ \A e \in Holders : Own(d) = Own(e) => d = e
               /\ d \in Holders /\ Own(d) \in Nat
    <3>1. d \in Conns /\ d \in Holders /\ Own(d)' = Own(d)
      BY <1>2, <1>5, <2>6 DEF Holders, Own
    <3>2. Own(d) \in Nat
      BY <2>2, <3>1 DEF Own
    <3> QED
      BY <2>1, <2>5, <3>1, <3>2 DEF HeldIds
  <2>7. Own(c)' = next_id_
    BY <1>4 DEF Own
  <2>8. ASSUME NEW d \in Holders'
        PROVE  /\ Own(d)' \in Settled' /\ Own(d)' < next_id_'
               /\ ~SplitReads => user_map_'[Own(d)'].username = username_'[d]
               /\ \A e \in Holders' : Own(d)' = Own(e)' => d = e
    <3>1. CASE d = c
      <4>1. ASSUME NEW e \in Holders', e # c PROVE Own(e)' # next_id_
        BY <2>2, <2>6, <4>1
      <4>2. Own(d)' \in Settled' /\ Own(d)' < next_id_'
        BY <1>3, <2>2, <2>3, <2>5, <2>7, <3>1
      <4>3. ~SplitReads => user_map_'[Own(d)'].username = username_'[d]
        BY <1>1, <1>2, <1>3, <1>8, <2>7, <3>1
      <4>4. \A e \in Holders' : Own(d)' = Own(e)' => d = e
        BY <2>7, <3>1, <4>1
      <4> QED
        BY <4>2, <4>3, <4>4
    <3>2. CASE d # c
      <4>1. ASSUME NEW e \in Holders', Own(d)' = Own(e)' PROVE d = e
        <5>1. e # c
          BY <2>2, <2>6, <2>7, <3>2, <4>1
        <5> QED
          BY <2>6, <3>2, <4>1, <5>1
      <4>2. Own(d)' < next_id_'
        BY <2>2, <2>3, <2>6, <3>2
      <4>3. /\ Own(d)' \in Settled'
            /\ ~SplitReads => user_map_'[Own(d)'].username = username_'[d]
        BY <1>1, <1>2, <2>6, <3>2
      <4> QED
        BY <4>1, <4>2, <4>3
    <3> QED
      BY <3>1, <3>2
  <2>9. HeldIds'
    BY <2>8 DEF HeldIds
  <2>10. TrueLists(c)'
    BY <1>2, <1>4, <1>8, ShapeFacts DEF TrueLists, NoListYet
  <2>11. \A d \in Conns \ (stale \cup cut)' : TrueLists(d)'
    BY <1>1, <1>2, <1>5, <2>1, <2>5, <2>10, ListsKept DEF SameLists
  <2> QED
    BY <2>4, <2>9, <2>11
<1> QED
  BY <1>7, <1>9 DEF ChatCore

\* A list that is made while nobody writes the map has settled entries only,
\* and the requestor is not among them.
LEMMA UsersCore ==
  ASSUME ChatTypeOK, ChatTypeOK', ThreadShape, ClientShape, ChatCore, NEW c \in Conns,
         UsersLookup(c) \/ UsersIterate(c), UNCHANGED app
  PROVE  ChatCore'
<1> SUFFICES ASSUME ~raced' PROVE ChatCore'
  BY RacedCore
<1>1. /\ ~raced /\ Writing = {}
      /\ UNCHANGED <<next_id_, user_map_, rx, key, old, wrapped>>
      /\ pc[c] \in {"lookup", "iterate"} /\ pc'[c] \in {"iterate", "send"}
      /\ \A d \in Conns \ {c} : pc'[d] = pc[d] /\ tx'[d] = tx[d]
  BY DEF UsersLookup, UsersIterate, db, ChatTypeOK, TypeOK
<1>2. UNCHANGED <<step, id_, username_, name_to_id_, buf, stale, cut, long>>
  BY DEF app
<1>3. UNCHANGED raced
  BY <1>1 DEF ChatTypeOK, TypeOK
<1>4. /\ step[c] = "polling" /\ tx[c].type = "NONE"
      /\ ~SplitReads => rx[c].requestor_id = id_[c]
  <2>1. step[c] = "polling" /\ sock[c] \in {"data", "reset"} /\ sock[c] # "reset"
    BY <1>1, ShapeFacts DEF CallShape
  <2>2. ~SplitReads => rx[c].requestor_id = id_[c]
    BY <1>1, <2>1, ShapeFacts DEF RequestShape
  <2> QED
    BY <1>1, <2>1, <2>2 DEF ThreadShape
<1>5. \/ tx'[c] = tx[c]
      \/ tx'[c].online_users = {}
      \/ tx'[c].online_users = OtherUsers(user_map_, rx[c].requestor_id)
  <2>1. ASSUME NEW v, NEW us
        PROVE  SerializeToArray(RespUsers(v, us)).online_users \in {us, {}}
    BY DEF SerializeToArray, RespUsers, ZeroBytes, Reply
  <2>2. CASE UsersLookup(c)
    <3>1. \/ UNCHANGED tx
          \/ tx' = [tx EXCEPT ![c] = SerializeToArray(RespUsers(1, {}))]
      BY <2>2 DEF UsersLookup
    <3>2. tx \in [Conns -> Replies]
      BY DEF ChatTypeOK, TypeOK
    <3>3. SerializeToArray(RespUsers(1, {})).online_users = {}
      BY <2>1
    <3> QED
      BY <3>1, <3>2, <3>3
  <2>3. CASE UsersIterate(c)
    <3>1. tx' = [tx EXCEPT ![c] =
                   SerializeToArray(RespUsers(0, OtherUsers(user_map_, rx[c].requestor_id)))]
      BY <1>1, <2>3 DEF UsersIterate
    <3> QED
      BY <2>1, <3>1 DEF ChatTypeOK, TypeOK
  <2> QED
    BY <2>2, <2>3
<1>6. Settled = DOMAIN user_map_ /\ Settled' = DOMAIN user_map_
  <2>1. Writing' = {}
    BY <1>1 DEF Writing
  <2> QED
    BY <1>1, <2>1 DEF Settled
<1>7. ASSUME NEW u \in OtherUsers(user_map_, rx[c].requestor_id)
      PROVE  Listable(c, u.user_id, u.username)'
  <2>1. PICK i \in DOMAIN user_map_ \ {rx[c].requestor_id} :
          u = [user_id |-> i, username |-> user_map_[i].username]
    BY DEF OtherUsers
  <2>2. u.user_id = i /\ u.username = user_map_[i].username
    BY <2>1
  <2>3. Listable(c, i, user_map_[i].username)
    BY <1>4, <1>6, <2>1 DEF Listable
  <2> QED
    BY <1>1, <1>2, <1>4, <1>6, <2>1, <2>2 DEF Listable
<1>8. ASSUME TrueLists(c) PROVE TrueLists(c)'
  <2>1. ASSUME NEW i, NEW n, Listable(c, i, n) PROVE Listable(c, i, n)'
    BY <1>1, <1>2, <1>6, <2>1 DEF Listable
  <2>2. tx'[c].type \in {"RESP_USERS", "ZEROS"} =>
          \A u \in tx'[c].online_users : Listable(c, u.user_id, u.username)'
    BY <1>4, <1>5, <1>7
  <2> QED
    BY <1>2, <1>8, <2>1, <2>2 DEF TrueLists
<1>9. ASSUME NEW d \in Holders' PROVE d \in Holders /\ Own(d)' = Own(d)
  <2>1. d \in Conns
    BY DEF Holders
  <2>2. tx'[c].type # "RESP_REGISTER"
    BY <1>4, <1>5, AnswerFacts DEF ChatTypeOK
  <2>3. CASE d = c
    BY <1>2, <1>4, <2>1, <2>2, <2>3 DEF Holders, Own
  <2>4. CASE d # c
    BY <1>1, <1>2, <2>1, <2>4, SameHolder
  <2> QED
    BY <2>3, <2>4
<1>10. \A d \in Conns :
        \/ /\ pc'[d] = pc[d] /\ rx'[d] = rx[d] /\ key'[d] = key[d] /\ old'[d] = old[d]
        \/ /\ pc[d] \notin {"assign", "load", "store"}
           /\ pc'[d] \notin {"assign", "load", "store"}
  BY <1>1
<1>11. ASSUME NEW d \in Conns \ (stale \cup cut)', d # c
      PROVE  SameLists(d)
  BY <1>1, <1>2, <1>11 DEF SameLists
<1> QED
  BY <1>1, <1>2, <1>3, <1>8, <1>9, <1>10, <1>11, QuietCore

LEMMA ChatInitCore == ChatInit => ChatCore
<1> SUFFICES ASSUME ChatInit PROVE ChatCore
  OBVIOUS
<1>1. \A c \in Conns : /\ pc[c] = "none" /\ tx[c].type = "NONE" /\ step[c] = "register"
                       /\ DOMAIN name_to_id_[c] = {} /\ buf[c].online_users = {}
  BY PacketTypes DEF ChatInit, Init, EmptyMap
<1>2. DOMAIN user_map_ = {}
  BY DEF ChatInit, Init
<1>3. Registering = {} /\ Holders = {}
  BY <1>1 DEF Registering, Holders
<1>4. OneRegistrationAtATime /\ StoredIds /\ HeldIds
  BY <1>2, <1>3 DEF OneRegistrationAtATime, StoredIds, HeldIds
<1>5. \A c \in Conns : TrueLists(c)
  BY <1>1 DEF TrueLists
<1> QED
  BY <1>4, <1>5 DEF ChatCore

LEMMA ChatNextCore ==
  ASSUME ChatTypeOK, ChatTypeOK', ThreadShape, ClientShape, ChatCore, [ChatNext]_chatVars
  PROVE  ChatCore'
<1>1. CASE ServerStep /\ UNCHANGED <<app, faults>>
  <2>1. UNCHANGED app
    BY <1>1
  <2>2. CASE Accept \/ Crash
    <3>1. CASE Conns = {}
      <4>1. OneRegistrationAtATime'
        BY <3>1 DEF OneRegistrationAtATime, Registering
      <4>2. UNCHANGED <<next_id_, user_map_, raced, wrapped>>
        BY <2>2 DEF Accept, Crash, db
      <4>3. StoredIds => StoredIds'
        BY <3>1, <4>2 DEF StoredIds, Registering
      <4>4. HeldIds'
        BY <3>1 DEF HeldIds, Holders
      <4> QED
        BY <3>1, <4>1, <4>2, <4>3, <4>4 DEF ChatCore
    <3>2. ASSUME NEW c \in Conns PROVE ChatCore'
      BY <2>1, <2>2, QuietServerCore
    <3> QED
      BY <3>1, <3>2
  <2>3. ASSUME NEW c \in Conns, Thread(c) PROVE ChatCore'
    <3>1. \/ Receive(c) \/ RegInsert(c) \/ RegAssign(c) \/ RegLoad(c) \/ RegStore(c)
          \/ UsersLookup(c) \/ UsersIterate(c) \/ Send(c)
      BY <2>3 DEF Thread
    <3>2. CASE Receive(c) \/ Send(c)
      BY <2>1, <3>2, QuietServerCore
    <3>3. CASE RegInsert(c) \/ RegAssign(c) \/ RegLoad(c) \/ RegStore(c)
      BY <2>1, <3>3, RegInsertCore, RegAssignCore, RegLoadCore, RegStoreCore
    <3>4. CASE UsersLookup(c) \/ UsersIterate(c)
      BY <2>1, <3>4, UsersCore
    <3> QED
      BY <3>1, <3>2, <3>3, <3>4
  <2> QED
    BY <1>1, <2>2, <2>3 DEF ServerStep
<1>2. CASE Restart
  BY <1>2, RestartCore
<1>3. ASSUME NEW c \in Conns, Dial(c) PROVE ChatCore'
  BY <1>3, QuietServerCore DEF Dial
<1>4. ASSUME NEW c \in Conns, RegisterUser(c) \/ PollUsers(c) \/ Leave(c) PROVE ChatCore'
  BY <1>4, SendCore
<1>5. ASSUME NEW c \in Conns, HandleRegister(c) PROVE ChatCore'
  BY <1>5, HandleRegisterCore
<1>6. ASSUME NEW c \in Conns, HandleUsers(c) PROVE ChatCore'
  BY <1>6, HandleUsersCore
<1>7. ASSUME NEW c \in Conns, Quit(c) PROVE ChatCore'
  BY <1>7, QuitCore
<1>8. CASE UNCHANGED chatVars
  <2>1. /\ UNCHANGED <<next_id_, user_map_, pc, rx, tx, key, old, raced, wrapped>>
        /\ UNCHANGED <<step, id_, username_, name_to_id_, buf, stale, cut, long>>
    BY <1>8 DEF chatVars, vars, app, db, locals
  <2>2. \A d \in Holders' : d \in Holders /\ Own(d)' = Own(d)
    BY <2>1 DEF Holders, Own
  <2> QED
    BY <2>1, <2>2, QuietCore DEF SameLists
<1> QED
  BY <1>1, <1>2, <1>3, <1>4, <1>5, <1>6, <1>7, <1>8 DEF ChatNext, UsersThread

LEMMA ChatInvariance == ChatSpec => []ChatInv
<1>1. ChatInit => ChatInv
  BY ChatInitType, ChatInitShape, ChatInitCore DEF ChatInv
<1>2. ChatInv /\ [ChatNext]_chatVars => ChatInv'
  <2> SUFFICES ASSUME ChatTypeOK, ThreadShape, ClientShape, ChatCore, [ChatNext]_chatVars
               PROVE  ChatTypeOK' /\ ThreadShape' /\ ClientShape' /\ ChatCore'
    BY DEF ChatInv
  <2>1. ChatTypeOK'
    BY ChatNextType
  <2>2. ThreadShape' /\ ClientShape'
    BY ChatNextShape
  <2>3. ChatCore'
    BY <2>1, ChatNextCore
  <2> QED
    BY <2>1, <2>2, <2>3
<1> QED
  BY <1>1, <1>2, PTL DEF ChatSpec

\* A client that registered with the running server holds an ID.
LEMMA OnlineHolds ==
  ASSUME ChatInv, NEW c \in Online
  PROVE  c \in Conns \ stale /\ c \in Holders /\ Own(c) = id_[c]
<1>1. c \in Conns \ stale /\ step[c] \in {"poll", "polling"}
  BY DEF Online
<1>2. tx[c].type # "RESP_REGISTER"
  BY <1>1, ShapeFacts DEF ChatInv, CallShape
<1> QED
  BY <1>1, <1>2 DEF Holders, Own

\* A client that registered with the running server goes on, request after
\* request and whoever comes, goes or restarts beside it, with an ID that
\* Database::registerUser gave to nobody else and under which the database
\* holds the client's name, unless threads raced or the counter wrapped.
THEOREM OwnIdsTheorem == ChatSpec => []OwnIds
<1>1. ChatInv => OwnIds
  <2> SUFFICES ASSUME ChatInv, ~raced, ~wrapped, NEW c \in Online
               PROVE  /\ \A d \in Online : id_[c] = id_[d] => c = d
                      /\ UserExists(user_map_, id_[c])
                      /\ ~SplitReads => user_map_[id_[c]].username = username_[c]
    BY DEF OwnIds
  <2>1. HeldIds
    BY DEF ChatInv, ChatCore
  <2>2. c \in Holders /\ Own(c) = id_[c] /\ \A d \in Online : d \in Holders /\ Own(d) = id_[d]
    BY OnlineHolds
  <2>3. id_[c] \in Settled /\ Settled \subseteq DOMAIN user_map_
    BY <2>1, <2>2 DEF HeldIds, Settled
  <2> QED
    BY <2>1, <2>2, <2>3 DEF HeldIds, UserExists
<1> QED
  BY <1>1, ChatInvariance, PTL

\* Whatever periodicGetOnlineUsers parsed last, the list of a client that
\* registered with the running server holds users of its database under
\* their names, and never the client itself, unless threads raced, the
\* counter wrapped, or the client took parts of responses for whole ones.  A
\* list that is longer than the client's buffer, whatever the sizes of the
\* two buffers, adds one other entry at most.
THEOREM ListedAreOthersTheorem == ChatSpec => []ListedAreOthers
<1>1. ASSUME NEW c, NEW n, Listable(c, name_to_id_[c][n], n) PROVE IsOther(c, n)
  BY <1>1 DEF Listable, Settled, UserExists, IsOther
<1>2. ChatInv => ListedAreOthers
  <2> SUFFICES ASSUME ChatInv, ~raced, ~wrapped, NEW c \in Listing
               PROVE  /\ c \notin long => \A n \in DOMAIN name_to_id_[c] : IsOther(c, n)
                      /\ \A m, n \in DOMAIN name_to_id_[c] :
                           IsOther(c, m) \/ IsOther(c, n) \/ m = n
    BY DEF ListedAreOthers
  <2>1. c \in Conns \ (stale \cup cut)
    BY DEF Listing, Online
  <2>2. /\ c \notin long =>
             \A n \in DOMAIN name_to_id_[c] : Listable(c, name_to_id_[c][n], n)
        /\ \A m, n \in DOMAIN name_to_id_[c] :
             \/ Listable(c, name_to_id_[c][m], m)
             \/ Listable(c, name_to_id_[c][n], n)
             \/ m = n
    BY <2>1 DEF ChatInv, ChatCore, TrueLists
  <2> QED
    BY <1>1, <2>2
<1> QED
  BY <1>2, ChatInvariance, PTL

=============================================================================
