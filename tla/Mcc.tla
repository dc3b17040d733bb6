-------------------------------- MODULE Mcc ---------------------------------
(***************************************************************************)
(* The Multiple Computer Communication protocol: MccClient                 *)
(* (client/client.cpp) encodes a request, MccServer (server/server.cpp)    *)
(* parses it, works on the Database and encodes the response, and a        *)
(* handleResp method of the client decodes that.  The library code serves  *)
(* one request at a time; here the requests of several clients interleave  *)
(* as whole calls of MccServer::parse, and a connection may fail before or *)
(* after that call.  MccServer has no other state than the Database, so a  *)
(* restart of the server leaves an empty one.                              *)
(*                                                                         *)
(* A response is the fields its bytes carry; the header's length, which    *)
(* the client never reads, is left out:                                    *)
(*   value    the byte after the header                                    *)
(*   word     the next four bytes: an assigned ID or a number of entries   *)
(*   entries  what follows: (ID, text) pairs, users and messages alike     *)
(* A client keeps one receive buffer, and what a response does not         *)
(* overwrite in it is still there: rx_buffer_ is the word and the entries  *)
(* that earlier responses left.                                            *)
(***************************************************************************)
EXTENDS Database, Integers, FiniteSets

CONSTANTS
  Clients,
  NoId,          \* a client that has no ID yet
  MaxMsgs,       \* bound: messages the server accepts
  MaxHanded,     \* bound: messages handed to one client
  MaxRestarts,   \* bound: restarts of the server
  MaxLate        \* bound: requests made after the first restart

ASSUME MccAssumption ==
  /\ NoId \notin Ids
  /\ MaxMsgs \in Nat
  /\ MaxHanded \in Nat
  /\ MaxRestarts \in Nat
  /\ MaxLate \in Nat

VARIABLES
  up,          \* the server runs: no assertion has failed
  next_id_, user_map_,
  accepted,    \* history: number of messages queued
  restarts,    \* number of restarts so far
  late,        \* number of requests made after the first of them
  req,         \* the request each client has sent, until it is parsed
  resp,        \* the response on its way
  rx_buffer_,
  id,          \* the ID the client was given
  name_to_id,  \* result of handleRespUsers
  msgs         \* results of handleRespRecv, one after the other

db     == <<next_id_, user_map_>>
wire   == <<req, resp>>
client == <<rx_buffer_, id, name_to_id, msgs>>
vars   == <<up, db, accepted, restarts, late, wire, client>>

-----------------------------------------------------------------------------
Request(type, source, dest, text) ==
  [type |-> type, source |-> source, target |-> dest, text |-> text]

\* The requests of client c: it registers, in the format of MccClient or in
\* that of ClientParser, and then uses its ID.
Requests(c) ==
  IF id[c] = NoId
  THEN {Request(t, NoId, NoId, n) :
          t \in {"kRequestRegister", "proto"}, n \in Names}
  ELSE {Request(t, id[c], NoId, NoName) :
          t \in {"kRequestUsers", "kRequestRecv"}}
       \cup {Request("kRequestSend", id[c], i, t) : 
          i \in Ids, t \in Texts \cup {NoName}}

NoRequest == Request("none", NoId, NoId, NoName)

Response(type, value, word, entries) ==
  [type |-> type, value |-> value, word |-> word, entries |-> entries]

\* A response of a value only: the fields after it are not sent.
NotSent == -1

RespValue(type, value) == Response(type, value, NotSent, << >>)

NoResponse == RespValue("none", 0)

Init ==
  /\ up = TRUE
  /\ next_id_ = 0
  /\ user_map_ = [i \in {} |-> DefaultMetadata]
  /\ accepted = 0
  /\ restarts = 0
  /\ late = 0
  /\ req = [c \in Clients |-> NoRequest]
  /\ resp = [c \in Clients |-> NoResponse]
  /\ rx_buffer_ = [c \in Clients |-> [word |-> 0, entries |-> << >>]]
  /\ id = [c \in Clients |-> NoId]
  /\ name_to_id = [c \in Clients |-> [n \in {} |-> 0]]
  /\ msgs = [c \in Clients |-> << >>]

-----------------------------------------------------------------------------
(* MccServer.  Each parse method answers the request of client c.          *)

Encode(c) ==
  /\ up
  /\ req[c] = NoRequest /\ resp[c] = NoResponse
  /\ \E r \in Requests(c) : req' = [req EXCEPT ![c] = r]
  /\ late' = IF restarts = 0 THEN late ELSE late + 1
  /\ late' <= MaxLate
  /\ UNCHANGED <<up, db, accepted, restarts, resp, client>>

\* MccServer::parse dispatches on the type and returns the response r.
Parse(c, type, r) ==
  /\ up
  /\ req[c].type = type
  /\ resp' = [resp EXCEPT ![c] = r]
  /\ req' = [req EXCEPT ![c] = NoRequest]

\* Bound: registrations since the start of the server, of which there may be
\* IdCount before the counter wraps and gives an ID a second time.  ServerApp
\* has the case in which it does.
BeforeWrap == next_id_ \notin DOMAIN user_map_

\* Database::registerUser.
RegisterUser(n) ==
  /\ BeforeWrap
  /\ user_map_' = Store(user_map_, next_id_, [username |-> n, msg_q |-> << >>])
  /\ next_id_' = Successor(next_id_)

ParseRequestRegister(c) ==
  /\ Parse(c, "kRequestRegister", Response("kRespRegister", 0, next_id_, << >>))
  /\ RegisterUser(req[c].text)
  /\ UNCHANGED <<up, accepted, restarts, late, client>>

\* The type byte of ClientParser's request is none of MccServer's.  Parsing
\* a header from the stream consumes all of it, and the username is read
\* from the empty rest.
ParseRequestRegisterProto(c) ==
  /\ Parse(c, "proto", Response("kRespRegister", 0, next_id_, << >>))
  /\ RegisterUser(NoName)
  /\ UNCHANGED <<up, accepted, restarts, late, client>>

\* The orders in which an iteration over a hash map may list the set S.
Listings(S) ==
  {f \in [1 .. Cardinality(S) -> S] : \A i, j \in DOMAIN f : f[i] = f[j] => i = j}

UserEntries(users) == {[sender_id |-> u.user_id, msg |-> u.username] : u \in users}

ParseRequestUsers_CountsRequestor(c) ==
  /\ \/ /\ ~UserExists(user_map_, req[c].source)
        /\ Parse(c, "kRequestUsers", RespValue("kRespUsers", 1))
     \/ /\ UserExists(user_map_, req[c].source)
        /\ \E l \in Listings(UserEntries(OtherUsers(user_map_, req[c].source))) :
             Parse(c, "kRequestUsers",
                   Response("kRespUsers", 0, Cardinality(DOMAIN user_map_), l))
  /\ UNCHANGED <<up, db, accepted, restarts, late, client>>

ParseRequestUsers_ListsRequestor(c) ==
  /\ UserExists(user_map_, req[c].source)
  /\ \E l \in Listings(UserEntries(OtherUsers(user_map_, NoId))) :
       Parse(c, "kRequestUsers",
             Response("kRespUsers", 0, Cardinality(DOMAIN user_map_), l))
  /\ UNCHANGED <<up, db, accepted, restarts, late, client>>

\* The number of users is that of the database less one; the entries are
\* those of the loop that leaves out the requestor.
ParseRequestUsers(c) ==
  /\ \/ /\ ~UserExists(user_map_, req[c].source)
        /\ Parse(c, "kRequestUsers", RespValue("kRespUsers", 1))
     \/ /\ UserExists(user_map_, req[c].source)
        /\ \E l \in Listings(UserEntries(OtherUsers(user_map_, req[c].source))) :
             Parse(c, "kRequestUsers",
                   Response("kRespUsers", 0, Cardinality(DOMAIN user_map_) - 1, l))
  /\ UNCHANGED <<up, db, accepted, restarts, late, client>>

\* Database::queueMsg
QueueMsg(i, m) ==
  user_map_' = [user_map_ EXCEPT ![i].msg_q = Append(@, m)]

\* The assertion on the payload length fails for an empty message.
ParseRequestSend(c) ==
  \/ /\ req[c].text # NoName
     /\ \/ /\ ~UserExists(user_map_, req[c].source)
           /\ Parse(c, "kRequestSend", RespValue("kRespSend", 1))
           /\ UNCHANGED <<user_map_, accepted>>
        \/ /\ UserExists(user_map_, req[c].source)
           /\ ~UserExists(user_map_, req[c].target)
           /\ Parse(c, "kRequestSend", RespValue("kRespSend", 2))
           /\ UNCHANGED <<user_map_, accepted>>
        \/ /\ UserExists(user_map_, req[c].source)
           /\ UserExists(user_map_, req[c].target)
           /\ accepted < MaxMsgs
           /\ accepted' = accepted + 1
           /\ QueueMsg(req[c].target,
                       [sender_id |-> req[c].source, msg |-> req[c].text])
           /\ Parse(c, "kRequestSend", RespValue("kRespSend", 0))
     /\ UNCHANGED <<up, next_id_, restarts, late, client>>
  \/ /\ up
     /\ req[c].type = "kRequestSend"
     /\ req[c].text = NoName
     /\ up' = FALSE
     /\ UNCHANGED <<db, accepted, restarts, late, wire, client>>

ParseRequestRecv_KeepsQueue(c) ==
  /\ UserExists(user_map_, req[c].source)
  /\ LET q == user_map_[req[c].source].msg_q
     IN  Parse(c, "kRequestRecv", Response("kRespRecv", 0, Len(q), q))
  /\ UNCHANGED <<up, db, accepted, restarts, late, client>>

\* All waiting messages go into the response, and out of the database.
ParseRequestRecv(c) ==
  /\ \/ /\ ~UserExists(user_map_, req[c].source)
        /\ Parse(c, "kRequestRecv", RespValue("kRespRecv", 1))
        /\ UNCHANGED user_map_
     \/ /\ UserExists(user_map_, req[c].source)
        /\ LET q == user_map_[req[c].source].msg_q
           IN  Parse(c, "kRequestRecv", Response("kRespRecv", 0, Len(q), q))
        /\ user_map_' = [user_map_ EXCEPT ![req[c].source].msg_q = << >>]
  /\ UNCHANGED <<up, next_id_, accepted, restarts, late, client>>

\* The process ends and is started again.  Connections are lost with it.
Restart ==
  /\ restarts < MaxRestarts
  /\ restarts' = restarts + 1
  /\ up' = TRUE
  /\ next_id_' = 0
  /\ user_map_' = [i \in {} |-> DefaultMetadata]
  /\ req' = [c \in Clients |-> NoRequest]
  /\ resp' = [c \in Clients |-> NoResponse]
  /\ UNCHANGED <<accepted, late, client>>

\* A connection fails, before the request is parsed or after.
Disconnect(c) ==
  /\ req[c] # NoRequest \/ resp[c] # NoResponse
  /\ req' = [req EXCEPT ![c] = NoRequest]
  /\ resp' = [resp EXCEPT ![c] = NoResponse]
  /\ UNCHANGED <<up, db, accepted, restarts, late, client>>

-----------------------------------------------------------------------------
(* MccClient: the handleResp methods.                                      *)

\* The receive buffer after response r has been written over its contents b.
\* Of entries that are longer than the new ones a tail stays in the buffer;
\* no handler reads it, for only a registration, which comes first, changes
\* the word and not the entries.
Overwrite(b, r) ==
  [word    |-> IF r.word = NotSent THEN b.word ELSE r.word,
   entries |-> IF r.entries = << >> THEN b.entries ELSE r.entries]

\* Bytes nobody has written are zero: an ID of 0 and an empty string.
ZeroEntry == [sender_id |-> 0, msg |-> NoName]

\* The entries a handler decodes: as many as the count says.
Decoded(b) ==
  [i \in 1 .. b.word |-> IF i <= Len(b.entries) THEN b.entries[i] ELSE ZeroEntry]

\* The response arrives and the call is over.
Return(c, type) ==
  /\ resp[c].type = type
  /\ rx_buffer_' = [rx_buffer_ EXCEPT ![c] = Overwrite(@, resp[c])]
  /\ resp' = [resp EXCEPT ![c] = NoResponse]
  /\ UNCHANGED <<up, db, accepted, restarts, late, req>>

HandleRespRegister(c) ==
  /\ Return(c, "kRespRegister")
  /\ id' = [id EXCEPT ![c] = rx_buffer_'[c].word]
  /\ UNCHANGED <<name_to_id, msgs>>

\* name_to_id[username] = id, entry after entry.
Mapping(entries) ==
  [n \in {entries[i].msg : i \in DOMAIN entries} |->
     LET last == CHOOSE i \in DOMAIN entries :
                   /\ entries[i].msg = n
                   /\ \A j \in DOMAIN entries : entries[j].msg = n => j <= i
     IN  entries[last].sender_id]

\* A negative response leaves the map alone.
HandleRespUsers(c) ==
  /\ Return(c, "kRespUsers")
  /\ name_to_id' =
       IF resp[c].value # 0 THEN name_to_id
       ELSE [name_to_id EXCEPT ![c] = Mapping(Decoded(rx_buffer_'[c]))]
  /\ UNCHANGED <<id, msgs>>

\* The status is handed on; nothing else changes.
HandleRespSend(c) ==
  /\ Return(c, "kRespSend")
  /\ UNCHANGED <<id, name_to_id, msgs>>

\* A negative response is logged; decoding goes on all the same.
HandleRespRecv(c) ==
  /\ Return(c, "kRespRecv")
  /\ msgs' = [msgs EXCEPT ![c] = @ \o Decoded(rx_buffer_'[c])]
  /\ Len(msgs'[c]) <= MaxHanded
  /\ UNCHANGED <<id, name_to_id>>

-----------------------------------------------------------------------------
Next ==
  \/ Restart
  \/ \E c \in Clients :
       \/ Encode(c)
       \/ ParseRequestRegister(c) \/ ParseRequestRegisterProto(c)
       \/ ParseRequestUsers(c) \/ ParseRequestSend(c) \/ ParseRequestRecv(c)
       \/ HandleRespRegister(c) \/ HandleRespUsers(c)
       \/ HandleRespSend(c) \/ HandleRespRecv(c)
       \/ Disconnect(c)

Spec == Init /\ [][Next]_vars

-----------------------------------------------------------------------------
(* Properties                                                              *)

Entry == [sender_id : Ids, msg : Texts \cup Names \cup {NoName}]

RequestTypes == {"none", "kRequestRegister", "proto", "kRequestUsers",
                 "kRequestSend", "kRequestRecv"}

Responses ==
  [type : {"none", "kRespRegister", "kRespUsers", "kRespSend", "kRespRecv"},
   value : 0 .. 2, word : Nat \cup {NotSent}, entries : Seq(Entry)]

\* A response that is on its way answers the request the client sent, and
\* its count is the number of its entries.
TypeOK ==
  /\ up \in BOOLEAN
  /\ next_id_ \in Ids
  /\ DOMAIN user_map_ \subseteq Ids
  /\ user_map_ \in [DOMAIN user_map_ -> UserMetadata(Names \cup {NoName})]
  /\ accepted \in 0 .. MaxMsgs
  /\ restarts \in 0 .. MaxRestarts
  /\ late \in 0 .. MaxLate
  /\ req \in [Clients -> [type : RequestTypes, source : Ids \cup {NoId},
                          target : Ids \cup {NoId},
                          text : Names \cup Texts \cup {NoName}]]
  /\ resp \in [Clients -> Responses]
  /\ rx_buffer_ \in [Clients -> [word : Nat, entries : Seq(Entry)]]
  /\ id \in [Clients -> Ids \cup {NoId}]
  /\ DOMAIN name_to_id = Clients
  /\ msgs \in [Clients -> Seq(Entry)]
  /\ \A c \in Clients :
       /\ \A n \in DOMAIN name_to_id[c] : name_to_id[c][n] \in Ids
       /\ resp[c].type \in {"kRespUsers", "kRespRecv"} /\ resp[c].value = 0 =>
            resp[c].word = Len(resp[c].entries)

\* What waits for user i: the messages in a response that is on its way to
\* the client with that ID, then those in the database.
InFlight(i) ==
  {c \in Clients : id[c] = i /\ resp[c].type = "kRespRecv" /\ resp[c].value = 0}

Pending(i) ==
  (IF InFlight(i) = {} THEN << >>
   ELSE resp[CHOOSE c \in InFlight(i) : TRUE].entries)
  \o (IF i \in DOMAIN user_map_ THEN user_map_[i].msg_q ELSE << >>)

Holders(i) == {c \in Clients : id[c] = i}

Handed(i) ==
  IF Holders(i) = {} THEN << >> ELSE msgs[CHOOSE c \in Holders(i) : TRUE]

Box == [i \in Ids |-> IF restarts = 0 THEN Pending(i) ELSE << >>]

Got == [i \in Ids |-> IF restarts = 0 THEN Handed(i) ELSE << >>]

Service ==
  INSTANCE ChatService
  WITH Users <- Ids, Messages <- Msg, box <- Box, got <- Got

\* The exchange of queueMsg, parseRequestRecv and handleRespRecv implements
\* the store-and-forward service: messages reach the user they were sent to,
\* in the order in which the server accepted them and at most once, however
\* the clients' requests interleave and connections fail.
RefinesChatService == Service!Spec

\* Every entry of the map that handleRespUsers fills is a user of the
\* database under that name, and never the client itself: the count and the
\* entries of the response, which are computed apart, agree.
UsersMapValid ==
  restarts = 0 =>
    \A c \in Clients : \A n \in DOMAIN name_to_id[c] :
      /\ UserExists(user_map_, name_to_id[c][n])
      /\ user_map_[name_to_id[c][n]].username = n
      /\ name_to_id[c][n] # id[c]

\* client.h: msgs holds the messages received from the server.  No more
\* messages are handed to the clients than the server accepted.
OnlyReceivedMessages ==
  Cardinality(UNION {{c} \X DOMAIN msgs[c] : c \in Clients}) <= accepted

-----------------------------------------------------------------------------
(* The inductive invariant behind UsersMapValid and RefinesChatService.    *)

\* A client has one call under way; it registers before everything else, and
\* then makes its requests under its own ID.
CallState(c) ==
  /\ req[c].type = "none" \/ resp[c].type = "none"
  /\ req[c].type \in {"kRequestRegister", "proto"} => id[c] = NoId
  /\ req[c].type = "kRequestRegister" => req[c].text \in Names
  /\ req[c].type \in {"kRequestUsers", "kRequestSend", "kRequestRecv"} =>
       id[c] # NoId /\ req[c].source = id[c]
  /\ req[c].type = "kRequestSend" =>
       req[c].target \in Ids /\ req[c].text \in Texts \cup {NoName}
  /\ resp[c].type = "kRespRegister" => id[c] = NoId /\ resp[c].word \in Ids
  /\ resp[c].type \in {"kRespUsers", "kRespSend", "kRespRecv"} => id[c] # NoId

WireState == \A c \in Clients : CallState(c)

\* The ID a client has, or the one on its way to it.
Own(c) == IF resp[c].type = "kRespRegister" THEN resp[c].word ELSE id[c]

\* Until a restart, clients have IDs of the database, no two the same.
IdState ==
  restarts = 0 =>
    \A c \in Clients : Own(c) # NoId =>
      /\ Own(c) \in DOMAIN user_map_
      /\ \A d \in Clients \ {c} : Own(d) # Own(c)

\* Nothing has been handed to a client without an ID.
FreshState ==
  \A c \in Clients : id[c] = NoId => msgs[c] = << >> /\ DOMAIN name_to_id[c] = {}

\* A list of users on its way to client c is still true when it arrives.
ListTrue(c) ==
  resp[c].type = "kRespUsers" /\ resp[c].value = 0 =>
    \A k \in DOMAIN resp[c].entries :
      /\ resp[c].entries[k].sender_id \in DOMAIN user_map_ \ {id[c]}
      /\ user_map_[resp[c].entries[k].sender_id].username = resp[c].entries[k].msg

ListState == restarts = 0 => \A c \in Clients : ListTrue(c)

\* Until a restart no request for messages is refused.
RecvState ==
  restarts = 0 =>
    \A c \in Clients : resp[c].type = "kRespRecv" => resp[c].value = 0

MccInv ==
  /\ TypeOK /\ WireState /\ IdState /\ FreshState /\ ListState /\ RecvState
  /\ UsersMapValid

=============================================================================
