----------------------------- MODULE ChatSystem -----------------------------
(***************************************************************************)
(* The executables together: the server of module ServerApp, and clients   *)
(* (client/app.cpp) that register and then poll the list of online users,  *)
(* one connection per request.  Where module App has an arbitrary server   *)
(* and ServerApp arbitrary clients, here each one's requests and answers   *)
(* are the other's.                                                        *)
(*                                                                         *)
(* A client uses one connection at a time, so Conns is the set of clients, *)
(* and a connection that the client has closed is used again for its next  *)
(* request.  The server may be restarted: its database is in memory only,  *)
(* and the clients notice nothing but broken connections.  Clients may be  *)
(* quit and started again between two requests: nothing ever removes a     *)
(* user from the database.  A response may arrive in part: in two          *)
(* segments, of which the client's one recv() returns the first, or longer *)
(* than the client's buffer, which is smaller than the server's.           *)
(***************************************************************************)
EXTENDS ServerApp

CONSTANTS
  Typed,           \* the names that the user of a client may type
  ClientCapacity,  \* size of the largest list that fits the 1000-byte rx_buffer
  MaxFaults        \* bound: ends of the server and of clients, and responses
                   \* that arrive in two segments

ASSUME TypedNamesAssumption == Typed \in [Conns -> SUBSET Names]
ASSUME ClientAssumption == ClientCapacity \in Nat
ASSUME FaultsAssumption == MaxFaults \in Nat

VARIABLES
  step,          \* where the client is: register, registering, poll, polling;
                 \* or gone
  id_,
  username_,
  name_to_id_,
  buf,           \* the response in the users thread's rx_buffer
  stale,         \* history: clients whose id_ is not from the running server
  cut,           \* history: clients whose rx_buffer held parts of responses
  long,          \* history: clients that were sent a list longer than rx_buffer
  faults         \* what MaxFaults bounds

app      == <<step, id_, username_, name_to_id_, buf, stale, cut, long>>
chatVars == <<vars, app, faults>>

EmptyMap == [n \in {} |-> 0]

ChatInit ==
  /\ Init
  /\ step = [c \in Conns |-> "register"]
  /\ id_ = [c \in Conns |-> 0]
  /\ username_ = [c \in Conns |-> NoName]
  /\ name_to_id_ = [c \in Conns |-> EmptyMap]
  /\ buf = [c \in Conns |-> ZeroBytes]
  /\ stale = {}
  /\ cut = {}
  /\ long = {}
  /\ faults = 0

-----------------------------------------------------------------------------
(* The server.                                                             *)

ServerStep == Accept \/ Crash \/ \E c \in Conns : Thread(c)

\* The process ends and is started again, with an empty database.  Answers
\* that were sent still arrive.  Of the other connections those whose request
\* the server had read are closed without an answer, which the client waits
\* for ever after; the rest are reset.
Restart ==
  LET kept  == {c \in Conns : pc[c] \in {"none", "closed"}}
      reset == {c \in Conns : pc[c] \in {"queued", "recv"}}
  IN  /\ faults < MaxFaults
      /\ faults' = faults + 1
      /\ up' = TRUE
      /\ next_id_' = 0
      /\ user_map_' = [i \in {} |-> DefaultMetadata]
      /\ backlog' = << >>
      /\ raced' = FALSE
      /\ wrapped' = FALSE
      /\ pc' = [c \in Conns |-> IF c \in kept THEN pc[c] ELSE "closed"]
      /\ sock' = [c \in Conns |-> IF c \in reset THEN "reset" ELSE sock[c]]
      /\ tx' = [c \in Conns |-> IF c \in kept THEN tx[c] ELSE NoReply]
      /\ stale' = stale \cup {c \in Conns :
           step[c] \in {"poll", "polling"} \/ tx'[c].type = "RESP_REGISTER"}
      /\ UNCHANGED <<sent, known, rx, key, old, step, id_, username_,
                     name_to_id_, buf, cut, long>>

-----------------------------------------------------------------------------
(* The clients.                                                            *)

\* ~Socket: the client closes the connection, and c stands for its next one.
Recycle(c) ==
  /\ pc' = [pc EXCEPT ![c] = "none"]
  /\ sock' = [sock EXCEPT ![c] = "none"]
  /\ sent' = [sent EXCEPT ![c] = EmptyPacket]
  /\ known' = [known EXCEPT ![c] = {}]
  /\ rx' = [rx EXCEPT ![c] = EmptyPacket]
  /\ tx' = [tx EXCEPT ![c] = NoReply]
  /\ key' = [key EXCEPT ![c] = 0]
  /\ old' = [old EXCEPT ![c] = 0]
  /\ UNCHANGED <<up, db, backlog, raced, wrapped>>

\* connectB of registerUser, and of a round of periodicGetOnlineUsers.
Dial(c) ==
  /\ step[c] \in {"register", "poll"}
  /\ Connect(c)
  /\ UNCHANGED <<app, faults>>

\* sendB, whose result nobody looks at: on a broken connection nothing is
\* sent.
SendRequest(c, p) ==
  \/ ClientSend(c, p)
  \/ sock[c] = "reset" /\ UNCHANGED vars

\* The user types a name; the connection has been open since the prompt.
RegisterUser(c) ==
  /\ step[c] = "register"
  /\ \E n \in Typed[c] :
       /\ SendRequest(c, [type |-> "REQUEST_REGISTER", username |-> n,
                          requestor_id |-> Missing])
       /\ username_' = [username_ EXCEPT ![c] = n]
  /\ step' = [step EXCEPT ![c] = "registering"]
  /\ UNCHANGED <<id_, name_to_id_, buf, stale, cut, long, faults>>

\* The user ends the client at the prompt: its connection is closed without a
\* request, and the server's thread spins on the end of file.
Leave(c) ==
  /\ faults < MaxFaults
  /\ step[c] = "register"
  /\ ClientQuit(c) /\ sock'[c] = "eof"
  /\ step' = [step EXCEPT ![c] = "gone"]
  /\ faults' = faults + 1
  /\ UNCHANGED <<id_, username_, name_to_id_, buf, stale, cut, long>>

\* A round of periodicGetOnlineUsers.
PollUsers(c) ==
  /\ step[c] = "poll"
  /\ SendRequest(c, [type |-> "REQUEST_USERS", username |-> Missing,
                     requestor_id |-> id_[c]])
  /\ step' = [step EXCEPT ![c] = "polling"]
  /\ UNCHANGED <<id_, username_, name_to_id_, buf, stale, cut, long, faults>>

HandleRegister_ForgetsId(c) ==
  /\ step[c] = "registering"
  /\ pc[c] = "closed"
  /\ tx[c].type = "RESP_REGISTER" /\ UNCHANGED <<id_, stale>>
  /\ step' = [step EXCEPT ![c] = "poll"]
  /\ Recycle(c)
  /\ UNCHANGED <<username_, name_to_id_, buf, cut, long, faults>>

\* recv() returns the first of two segments, and the second one never gets
\* read.
FirstSegmentOnly == faults < MaxFaults /\ faults' = faults + 1

\* registerUser goes on after an error: parsing a buffer of zeros gives no
\* response, whose assigned_id() is 0.  So does a response that is cut before
\* its last field, and one cut inside it gives a part of the ID.
HandleRegister(c) ==
  /\ step[c] = "registering"
  /\ pc[c] = "closed"
  /\ \/ /\ tx[c].type = "RESP_REGISTER"
        /\ id_' = [id_ EXCEPT ![c] = tx[c].assigned_id]
        /\ UNCHANGED <<stale, faults>>
     \/ /\ tx[c].type = "RESP_REGISTER"
        /\ FirstSegmentOnly
        /\ \E i \in CutNumber(tx[c].assigned_id) : id_' = [id_ EXCEPT ![c] = i]
        /\ stale' = IF id_'[c] = tx[c].assigned_id THEN stale ELSE stale \cup {c}
     \/ /\ sock[c] = "reset"
        /\ id_' = [id_ EXCEPT ![c] = 0]
        /\ stale' = stale \cup {c}
        /\ UNCHANGED faults
  /\ step' = [step EXCEPT ![c] = "poll"]
  /\ Recycle(c)
  /\ UNCHANGED <<username_, name_to_id_, buf, cut, long>>

\* new_name_to_id[username] = user_id, in the order of the server's map: of
\* two users with one name either may be the last.
Mappings(users) ==
  {m \in [{u.username : u \in users} -> {u.user_id : u \in users}] :
     \A n \in DOMAIN m : [user_id |-> m[n], username |-> n] \in users}

\* Where a list breaks off that is longer than rx_buffer, in the order in which
\* the server's unordered_map has it: behind the entries that fit.
Cuts(users) ==
  {k \in (SUBSET users) \X users :
     /\ k[2] \notin k[1]
     /\ ListSize(k[1]) <= ClientCapacity
     /\ ListSize(k[1] \cup {k[2]}) > ClientCapacity}

\* The one recv() of a round, and what rx_buffer then encodes: the response
\* that was sent, as much of a longer list as the buffer holds, or the first
\* segment in front of the end of the previous response.  The end of a longer
\* one behind a whole response is no part of its list, unless a name has a
\* colon in it, the tag of resp_users; zeros end the packet wherever they
\* start.  A connection error leaves the previous response, which is parsed
\* again.
ReceiveUsers(c) ==
  LET size == ListSize(tx[c].online_users)
      Decodes(values, lists) ==
        \E v \in values, list \in lists :
          buf' = [buf EXCEPT ![c] = RespUsers(v, list)]
  IN  \/ /\ tx[c].type = "ZEROS"
         /\ buf' = [buf EXCEPT ![c] = tx[c]]
         /\ UNCHANGED <<cut, long, faults>>
      \/ /\ tx[c].type = "RESP_USERS"
         /\ size <= ClientCapacity
         /\ buf' = [buf EXCEPT ![c] = tx[c]]
         /\ cut' = IF c \notin long /\ ListSize(buf[c].online_users) <= size
                   THEN cut ELSE cut \cup {c}
         /\ UNCHANGED <<long, faults>>
      \/ /\ tx[c].type = "RESP_USERS"
         /\ size > ClientCapacity
         /\ Decodes({tx[c].resp_value},
                    Shortened(Cuts(tx[c].online_users), NoName, Usernames))
         /\ long' = long \cup {c}
         /\ UNCHANGED <<cut, faults>>
      \/ /\ tx[c].type = "RESP_USERS"
         /\ FirstSegmentOnly
         /\ Decodes({0, tx[c].resp_value, buf[c].resp_value},
                    Garbled(tx[c].online_users \cup buf[c].online_users, Usernames))
         /\ cut' = cut \cup {c}
         /\ UNCHANGED long
      \/ /\ sock[c] = "reset"
         /\ UNCHANGED <<buf, cut, long, faults>>

\* A negative response leaves the map alone.
HandleUsers(c) ==
  /\ step[c] = "polling"
  /\ pc[c] = "closed"
  /\ ReceiveUsers(c)
  /\ IF buf'[c].resp_value # 0
     THEN UNCHANGED name_to_id_
     ELSE \E m \in Mappings(buf'[c].online_users) :
            name_to_id_' = [name_to_id_ EXCEPT ![c] = m]
  /\ step' = [step EXCEPT ![c] = "poll"]
  /\ Recycle(c)
  /\ UNCHANGED <<id_, username_, stale>>

\* The user ends the client between two requests, or while an answer waits
\* to be read, and starts it again.
Quit(c) ==
  /\ faults < MaxFaults
  /\ pc[c] \in {"none", "closed"}
  /\ faults' = faults + 1
  /\ step' = [step EXCEPT ![c] = "register"]
  /\ id_' = [id_ EXCEPT ![c] = 0]
  /\ username_' = [username_ EXCEPT ![c] = NoName]
  /\ name_to_id_' = [name_to_id_ EXCEPT ![c] = EmptyMap]
  /\ buf' = [buf EXCEPT ![c] = ZeroBytes]
  /\ stale' = stale \ {c}
  /\ cut' = cut \ {c}
  /\ long' = long \ {c}
  /\ Recycle(c)

-----------------------------------------------------------------------------
\* What the client does without its user: connecting for a poll, sending the
\* request, and handling what comes back.
UsersThread(c) ==
  \/ step[c] = "poll" /\ Dial(c)
  \/ PollUsers(c) \/ HandleUsers(c) \/ HandleRegister(c)

ChatNext ==
  \/ ServerStep /\ UNCHANGED <<app, faults>>
  \/ Restart
  \/ \E c \in Conns :
       Dial(c) \/ RegisterUser(c) \/ Leave(c) \/ Quit(c) \/ UsersThread(c)

\* The main thread polls accept() and the operating system runs every server
\* thread and every client's users thread.  Nobody has to type a name, to
\* quit or to restart anything.
ChatSpec ==
  /\ ChatInit
  /\ [][ChatNext]_chatVars
  /\ WF_chatVars(Accept /\ UNCHANGED <<app, faults>>)
  /\ \A c \in Conns :
       /\ WF_chatVars(Thread(c) /\ UNCHANGED <<app, faults>>)
       /\ WF_chatVars(UsersThread(c))

-----------------------------------------------------------------------------
(* Properties                                                              *)

\* Types, those of the server included: it stays within them although its
\* connections are used again and again.
ChatTypeOK ==
  /\ TypeOK
  /\ step \in [Conns -> {"register", "registering", "poll", "polling", "gone"}]
  /\ id_ \in [Conns -> Ids]
  /\ username_ \in [Conns -> Usernames]
  /\ DOMAIN name_to_id_ = Conns
  /\ \A c \in Conns :
       /\ DOMAIN name_to_id_[c] \subseteq Usernames
       /\ \A n \in DOMAIN name_to_id_[c] : name_to_id_[c][n] \in Ids
  /\ buf \in [Conns -> Replies]
  /\ stale \subseteq Conns
  /\ cut \subseteq Conns
  /\ long \subseteq Conns

\* The clients that registered with the running server.
Online == {c \in Conns : step[c] \in {"poll", "polling"}} \ stale

\* Until threads race or the counter wraps, a client that registered with the
\* running server has an ID of its own in the database, and under its name if
\* requests arrive in one piece.  A client that failed to register, that got
\* only a part of its ID, or that a restart left with an old one, is another
\* matter: it goes on with an ID that is somebody else's.
OwnIds ==
  ~raced /\ ~wrapped =>
    \A c \in Online :
      /\ \A d \in Online : id_[c] = id_[d] => c = d
      /\ UserExists(user_map_, id_[c])
      /\ ~SplitReads => user_map_[id_[c]].username = username_[c]

\* What client c has under name n is a user of the database with that name,
\* and not c itself (if its request arrived in one piece).
IsOther(c, n) ==
  LET i == name_to_id_[c][n]
  IN  /\ ~SplitReads => i # id_[c]
      /\ UserExists(user_map_, i)
      /\ user_map_[i].username = n

\* The lists of clients whose responses arrived in one piece.
Listing == Online \ cut

\* Every entry of an online client's list is another user, across requests of
\* several clients, lists too long for the server, and clients that were
\* quit.  If the server's list was too long for the client, all entries but
\* one are.  A counter that wraps gives the ID of a listed user to somebody
\* with another name.  Of a client that took parts of responses for a whole
\* one nothing is claimed: one may have the ID of one user under the name of
\* another.
ListedAreOthers ==
  ~raced /\ ~wrapped =>
    \A c \in Listing :
      /\ c \notin long => \A n \in DOMAIN name_to_id_[c] : IsOther(c, n)
      /\ \A m, n \in DOMAIN name_to_id_[c] :
           IsOther(c, m) \/ IsOther(c, n) \/ m = n

\* The list of users for c fits the buffers of both sides.
Fits(c) ==
  LET size == ListSize(OtherUsers(user_map_, id_[c]))
  IN  size <= Capacity /\ size <= ClientCapacity

\* README.md: a client is kept up to date about who is online.  Two clients
\* that stay online see each other for good, unless threads raced or the
\* list, in which users who left stay for ever, has outgrown a buffer.  A
\* list that arrived in part is made good by the next one that does not.
EventuallyListed ==
  \A c, d \in Conns :
    c # d /\ <>[](up /\ ~raced /\ Fits(c) /\ {c, d} \subseteq Online) =>
      <>[](username_[d] \in DOMAIN name_to_id_[c])

-----------------------------------------------------------------------------
(* The inductive invariant behind OwnIds and ListedAreOthers.              *)

\* Where a client is and where the thread of its connection is: a request is
\* on the connection from the moment the client waits for an answer, and the
\* answer is of the kind the client waits for.
CallShape(c) ==
  /\ sock[c] = "reset" => pc[c] = "closed" /\ tx[c].type = "NONE"
  /\ sock[c] = "data" => step[c] \in {"registering", "polling"}
  /\ pc[c] \notin {"none", "queued", "recv"} => sock[c] \in {"data", "reset"}
  /\ pc[c] \in {"insert", "assign", "load", "store"} => step[c] = "registering"
  /\ pc[c] \in {"lookup", "iterate"} => step[c] = "polling"
  /\ tx[c].type = "RESP_REGISTER" => step[c] = "registering"
  /\ tx[c].type \in {"RESP_USERS", "ZEROS"} => step[c] = "polling"

\* The request is the client's, and arrived as it was sent if nothing splits
\* it.
RequestShape(c) ==
  /\ sock[c] = "data" /\ step[c] = "registering" =>
       sent[c].type = "REQUEST_REGISTER" /\ sent[c].username = username_[c]
  /\ sock[c] = "data" /\ step[c] = "polling" =>
       sent[c].type = "REQUEST_USERS" /\ sent[c].requestor_id = id_[c]
  /\ ~SplitReads /\ sock[c] = "data" /\ pc[c] \notin {"none", "queued", "recv"} =>
       rx[c] = sent[c]

\* A client that has not registered has no list of users.
NoListYet(c) ==
  step[c] \in {"register", "registering", "gone"} =>
    DOMAIN name_to_id_[c] = {} /\ buf[c].online_users = {}

ClientShape ==
  \A c \in Conns : CallShape(c) /\ RequestShape(c) /\ NoListYet(c)

\* The IDs whose entry is complete: registerUser will not write it again.
Settled == DOMAIN user_map_ \ {key[d] : d \in Writing}

\* The counter is above all stored IDs but that of the thread that is adding
\* one.
StoredIds ==
  \A i \in DOMAIN user_map_ : i < next_id_ \/ (i = next_id_ /\ Registering # {})

\* The clients with an ID from the running server, or with one on its way.
Holders ==
  {c \in Conns : step[c] \in {"poll", "polling"} \/ tx[c].type = "RESP_REGISTER"}
  \ stale

Own(c) == IF tx[c].type = "RESP_REGISTER" THEN tx[c].assigned_id ELSE id_[c]

HeldIds ==
  \A c \in Holders :
    /\ Own(c) \in Settled /\ Own(c) < next_id_
    /\ ~SplitReads => user_map_[Own(c)].username = username_[c]
    /\ \A d \in Holders : Own(c) = Own(d) => c = d

\* User i, under name n, may be on the list of client c.
Listable(c, i, n) ==
  /\ i \in Settled
  /\ user_map_[i].username = n
  /\ ~SplitReads => i # id_[c]

\* The lists on their way to a client, in its buffer and in its map are true,
\* but for one entry if a list was too long.
TrueLists(c) ==
  LET InBuffer(u) == Listable(c, u.user_id, u.username)
      InMap(n)    == Listable(c, name_to_id_[c][n], n)
  IN  /\ tx[c].type \in {"RESP_USERS", "ZEROS"} =>
           \A u \in tx[c].online_users : InBuffer(u)
      /\ c \notin long =>
           /\ \A u \in buf[c].online_users : InBuffer(u)
           /\ \A n \in DOMAIN name_to_id_[c] : InMap(n)
      /\ \A u, v \in buf[c].online_users : InBuffer(u) \/ InBuffer(v) \/ u = v
      /\ \A m, n \in DOMAIN name_to_id_[c] : InMap(m) \/ InMap(n) \/ m = n

ChatCore ==
  /\ OneRegistrationAtATime
  /\ ~raced /\ ~wrapped =>
       StoredIds /\ HeldIds /\ \A c \in Conns \ (stale \cup cut) : TrueLists(c)

ChatInv == ChatTypeOK /\ ThreadShape /\ ClientShape /\ ChatCore

=============================================================================
