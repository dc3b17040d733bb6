-------------------------------- MODULE App ---------------------------------
(***************************************************************************)
(* The chat client executable: App (client/app.cpp).  After registerUser   *)
(* its main thread runs the menu while two threads poll the server every   *)
(* second:                                                                 *)
(*                                                                         *)
(*   main   name -> register -> menu -> print -> menu                      *)
(*                              menu -> target -> chat -> answer -> chat   *)
(*   users  sleep -> wait -> lock -> clear -> emplace -> print -> sleep    *)
(*   msgs   sleep -> wait -> find -> subscript -> find -> sleep            *)
(*                                                                         *)
(* They share name_to_id_, id_to_name_ and the mutex name_mtx, which only  *)
(* the users thread keeps over several steps here: a critical section that *)
(* touches one map once is one step, guarded by the mutex being free.  The *)
(* msgs thread reads and subscripts id_to_name_ without the mutex; the     *)
(* outcomes represented of that race are every interleaving, a search that *)
(* misses, and the death of the process.                                   *)
(*                                                                         *)
(* The server is the environment: it registers other users at any time and *)
(* ends each request in one of the ways listed by Answers:                 *)
(*   reply  a protocol packet, built from what is registered at that time  *)
(*   cut    such a packet, of which the one recv() returned a beginning:   *)
(*          the first segment, or the 1000 bytes of the buffer             *)
(*   zeros  the zero bytes ServerApp sends for a list over 1024 bytes      *)
(*   reset  a connection error: recv() returns -1                          *)
(*   eof    a close without a reply: recv() returns 0 for ever             *)
(***************************************************************************)
EXTENDS Packet, Naturals, Sequences, FiniteSets

CONSTANTS
  IdCount,     \* number of values of user_id_t
  Names,       \* usernames
  NoName,      \* the empty string
  MaxMail,     \* bound: messages in one receive response
  Answers      \* request type -> the ways in which the server ends it

Outcomes   == {"reply", "cut", "zeros", "reset", "eof"}
ConnStates == {"none", "sent", "answered", "eof"}

ASSUME AppIdAssumption     == IdCount \in Nat \ {0}
ASSUME AppNameAssumption   == NoName \notin Names
ASSUME AppMailAssumption   == MaxMail \in Nat
ASSUME AppAnswerAssumption ==
  Answers \in [{"REGISTER", "USERS", "SEND", "RECV"} -> SUBSET Outcomes]

Ids       == 0 .. IdCount - 1
Threads   == {"main", "users", "msgs"}
Usernames == Names \cup {NoName}
User      == [user_id : Ids, username : Usernames]

VARIABLES
  up,           \* the client process is alive
  registered,   \* environment: the users in the server's database
  pc,           \* next statement of each thread
  conn,         \* state of each thread's request: none, sent, answered or eof
  rx,           \* what the threads' receive buffers encode
  mail,         \* senders of the messages periodicGetMessages has yet to show
  name_mtx,     \* "free", or the thread that holds the mutex
  name_to_id_,
  id_to_name_,
  id_,
  target,       \* target_user of taskChatWithUser
  raced,        \* history: an update fell into the msgs thread's accesses
  shrunk,       \* history: a users response dropped an entry
  listed,       \* history: all (name, id) entries the client decoded from
                \* users responses
  sends,        \* history: (name, id) of the SEND request under way
  shown         \* history: (name, sender) of the last message of the round

server == <<registered, conn, rx>>
maps   == <<name_mtx, name_to_id_, id_to_name_>>
hist   == <<raced, shrunk, listed, sends, shown>>
vars   == <<up, server, pc, mail, maps, id_, target, hist>>

-----------------------------------------------------------------------------
EmptyMap == [x \in {} |-> x]

\* map[k] = v
Put(map, k, v) == [x \in DOMAIN map \cup {k} |-> IF x = k THEN v ELSE map[x]]

\* operator[] on a map: a key that is not there appears with the value dflt.
Subscript(map, k, dflt) == IF k \in DOMAIN map THEN map ELSE Put(map, k, dflt)

Init ==
  /\ up = TRUE
  /\ registered = {}
  /\ pc = [main |-> "name", users |-> "none", msgs |-> "none"]
  /\ conn = [t \in Threads |-> "none"]
  /\ rx = [id |-> 0, negative |-> FALSE, users |-> {}, msgs |-> << >>,
           sent |-> FALSE]
  /\ mail = << >>
  /\ name_mtx = "free"
  /\ name_to_id_ = EmptyMap
  /\ id_to_name_ = EmptyMap
  /\ id_ = 0
  /\ target = NoName
  /\ raced = FALSE
  /\ shrunk = FALSE
  /\ listed = {}
  /\ sends = {}
  /\ shown = {}

-----------------------------------------------------------------------------
(* The server, as the waiting thread sees it.  A Serve action ends one     *)
(* request and leaves in rx what the thread's receive buffer then encodes: *)
(* a part of a response stands in front of the old contents, and an error  *)
(* leaves those alone; the thread parses them again.                       *)

UsedIds == {u.user_id : u \in registered}

\* The database hands out its next ID to whoever registers; names repeat.
Register(n) ==
  /\ Cardinality(registered) < IdCount
  /\ registered' = registered \cup
       {[user_id |-> Cardinality(registered), username |-> n]}

\* The request of thread t ends in a way that its receiveNb can tell apart:
\* with a result, be it an error, or with 0 for ever.
Ended(t, a) ==
  conn' = [conn EXCEPT ![t] = IF a = "eof" THEN "eof" ELSE "answered"]

OtherRegisters ==
  /\ \E n \in Names : Register(n)
  /\ UNCHANGED <<up, pc, conn, rx, mail, maps, id_, target, hist>>

ServeRegister ==
  /\ pc["main"] = "register" /\ conn["main"] = "sent"
  /\ \E a \in Answers["REGISTER"] :
       /\ Ended("main", a)
       /\ \/ /\ a \in {"reply", "cut"}
             /\ \E n \in Names : Register(n)
             /\ \E i \in IF a = "reply" THEN {Cardinality(registered)}
                                        ELSE CutNumber(Cardinality(registered)) :
                  rx' = [rx EXCEPT !.id = i]
          \/ /\ a \notin {"reply", "cut"}
             /\ UNCHANGED <<registered, rx>>
  /\ UNCHANGED <<up, pc, mail, maps, id_, target, raced, shrunk, listed,
                 sends, shown>>

\* The list without the requestor, or a negative response if id_ is unknown.
Unknown == id_ \notin UsedIds
Others  == {u \in registered : ~Unknown /\ u.user_id # id_}

ServeUsers ==
  /\ conn["users"] = "sent"
  /\ \E a \in Answers["USERS"] :
       /\ Ended("users", a)
       /\ \/ a = "reply" /\ rx' = [rx EXCEPT !.negative = Unknown, !.users = Others]
          \/ /\ a = "cut"
             /\ \E v \in BOOLEAN, list \in Garbled(Others \cup rx.users, Usernames) :
                  /\ v => Unknown \/ rx.negative
                  /\ rx' = [rx EXCEPT !.negative = v, !.users = list]
          \/ a = "zeros" /\ rx' = [rx EXCEPT !.negative = FALSE, !.users = {}]
          \/ a \in {"reset", "eof"} /\ UNCHANGED rx
  /\ UNCHANGED <<up, registered, pc, mail, maps, id_, target, hist>>

\* Messages that registered users sent to this client.
ServeRecv ==
  LET senders == UsedIds \cup {rx.msgs[i] : i \in DOMAIN rx.msgs}
      Decodes(ids) ==
        \E k \in 0 .. MaxMail : \E m \in [1 .. k -> ids] :
          rx' = [rx EXCEPT !.msgs = m]
  IN  /\ conn["msgs"] = "sent"
      /\ \E a \in Answers["RECV"] :
           /\ Ended("msgs", a)
           /\ \/ a = "reply" /\ Decodes(UsedIds)
              \/ a = "cut" /\ Decodes(Numbers(senders))
              \/ a = "zeros" /\ rx' = [rx EXCEPT !.msgs = << >>]
              \/ a \in {"reset", "eof"} /\ UNCHANGED rx
      /\ UNCHANGED <<up, registered, pc, mail, maps, id_, target, hist>>

\* A send response is looked at for its presence only.
ServeSend ==
  /\ pc["main"] = "answer" /\ conn["main"] = "sent"
  /\ \E a \in Answers["SEND"] :
       /\ Ended("main", a)
       /\ \/ a = "reply" /\ rx' = [rx EXCEPT !.sent = TRUE]
          \/ a = "cut" /\ \E b \in BOOLEAN : rx' = [rx EXCEPT !.sent = b]
          \/ a = "zeros" /\ rx' = [rx EXCEPT !.sent = FALSE]
          \/ a \in {"reset", "eof"} /\ UNCHANGED rx
  /\ UNCHANGED <<up, registered, pc, mail, maps, id_, target, hist>>

\* receiveNb has returned something other than 0.
Received(t) == conn[t] = "answered"

Goto(t, from, to) == pc[t] = from /\ pc' = [pc EXCEPT ![t] = to]

\* Thread t connects and sends a request.
Request(t, from, to) ==
  /\ Goto(t, from, to)
  /\ conn' = [conn EXCEPT ![t] = "sent"]

-----------------------------------------------------------------------------
(* The main thread: registerUser, then run().                              *)

\* Connects, prompts for the name and sends the register request.
SendRegister ==
  /\ Request("main", "name", "register")
  /\ UNCHANGED <<up, registered, rx, mail, maps, id_, target, hist>>

\* Errors in the response are logged only; assigned_id() of a missing
\* response is 0.  run() then starts the two threads.  (Here and below, a
\* local variable that goes out of scope takes its initial value again.)
HandleRegister ==
  /\ pc["main"] = "register" /\ Received("main")
  /\ id_' = rx.id
  /\ rx' = [rx EXCEPT !.id = 0]
  /\ pc' = [main |-> "menu", users |-> "sleep", msgs |-> "sleep"]
  /\ conn' = [conn EXCEPT !["main"] = "none"]
  /\ UNCHANGED <<up, registered, mail, maps, target, hist>>

\* getUserCommand returns one of the two commands.
UserCommand ==
  /\ Goto("main", "menu", "print") \/ Goto("main", "menu", "target")
  /\ UNCHANGED <<up, server, mail, maps, id_, target, hist>>

\* printOnlineUsers holds the mutex while it prints.
MainPrint ==
  /\ Goto("main", "print", "menu")
  /\ name_mtx = "free"
  /\ UNCHANGED <<up, server, mail, maps, id_, target, hist>>

ChooseTarget_AnyName ==
  /\ \/ /\ Goto("main", "target", "menu")
        /\ UNCHANGED target
     \/ /\ name_mtx = "free"
        /\ \E n \in Usernames : target' = n
        /\ Goto("main", "target", "chat")
  /\ UNCHANGED <<up, server, mail, maps, id_, hist>>

\* The user types x, or a name; it is looked up under the mutex.
ChooseTarget ==
  /\ \/ /\ Goto("main", "target", "menu")
        /\ UNCHANGED target
     \/ /\ name_mtx = "free"
        /\ \E n \in DOMAIN name_to_id_ : target' = n
        /\ Goto("main", "target", "chat")
  /\ UNCHANGED <<up, server, mail, maps, id_, hist>>

\* The user types x, or a message: its target ID is subscripted under the
\* mutex, by the name found earlier.
ChatMessage ==
  \/ /\ Goto("main", "chat", "menu")
     /\ target' = NoName
     /\ rx' = [rx EXCEPT !.sent = FALSE]
     /\ UNCHANGED <<up, registered, conn, mail, maps, id_, hist>>
  \/ /\ name_mtx = "free"
     /\ name_to_id_' = Subscript(name_to_id_, target, 0)
     /\ sends' = {[name |-> target, id |-> name_to_id_'[target]]}
     /\ Request("main", "chat", "answer")
     /\ UNCHANGED <<up, registered, rx, mail, name_mtx, id_to_name_, id_,
                    target, raced, shrunk, listed, shown>>

\* Every response value is reported and the chat goes on; a missing response
\* ends it.
HandleSend ==
  /\ Received("main")
  /\ Goto("main", "answer", IF rx.sent THEN "chat" ELSE "menu")
  /\ target' = IF rx.sent THEN target ELSE NoName
  /\ conn' = [conn EXCEPT !["main"] = "none"]
  /\ sends' = {}
  /\ UNCHANGED <<up, registered, rx, mail, maps, id_, raced, shrunk,
                 listed, shown>>

-----------------------------------------------------------------------------
(* periodicGetOnlineUsers                                                  *)

SendUsers ==
  /\ Request("users", "sleep", "wait")
  /\ UNCHANGED <<up, registered, rx, mail, maps, id_, target, hist>>

HandleUsers ==
  /\ Received("users")
  /\ Goto("users", "wait", IF rx.negative THEN "sleep" ELSE "lock")
  /\ conn' = [conn EXCEPT !["users"] = "none"]
  /\ UNCHANGED <<up, registered, rx, mail, maps, id_, target, hist>>

\* new_name_to_id: of several users with a name the last one listed counts.
NewNameToId(users) ==
  {m \in [{u.username : u \in users} -> Ids] :
     \A n \in DOMAIN m : [user_id |-> m[n], username |-> n] \in users}

CompareUsers_KeepsLock ==
  /\ name_mtx = "free"
  /\ \E new \in NewNameToId(rx.users) :
       /\ listed' = listed \cup {[name |-> n, id |-> new[n]] : n \in DOMAIN new}
       /\ IF new = name_to_id_
          THEN Goto("users", "lock", "sleep") /\ UNCHANGED <<name_to_id_, shrunk>>
          ELSE /\ Goto("users", "lock", "clear")
               /\ name_to_id_' = new
               /\ shrunk' = (shrunk \/ ~(DOMAIN name_to_id_ \subseteq DOMAIN new))
       /\ name_mtx' = "users"
  /\ UNCHANGED <<up, server, mail, id_to_name_, id_, target, raced,
                 sends, shown>>

\* Takes the mutex; if nothing changed, gives it back and goes on polling.
CompareUsers ==
  /\ name_mtx = "free"
  /\ \E new \in NewNameToId(rx.users) :
       /\ listed' = listed \cup {[name |-> n, id |-> new[n]] : n \in DOMAIN new}
       /\ \/ /\ new = name_to_id_
             /\ Goto("users", "lock", "sleep")
             /\ UNCHANGED <<name_mtx, name_to_id_, shrunk>>
          \/ /\ new # name_to_id_
             /\ Goto("users", "lock", "clear")
             /\ name_mtx' = "users"
             /\ name_to_id_' = new
             /\ shrunk' =
                  (shrunk \/ ~(DOMAIN name_to_id_ \subseteq DOMAIN new))
  /\ UNCHANGED <<up, server, mail, id_to_name_, id_, target, raced,
                 sends, shown>>

ClearNames_Unlocks ==
  /\ Goto("users", "clear", "emplace")
  /\ id_to_name_' = EmptyMap
  /\ name_mtx' = "free"
  /\ UNCHANGED <<up, server, mail, name_to_id_, id_, target, hist>>

ClearNames_Skipped ==
  /\ Goto("users", "clear", "emplace")
  /\ raced' = (raced \/ pc["msgs"] = "subscript")
  /\ UNCHANGED <<up, server, mail, maps, id_, target, shrunk, listed,
                 sends, shown>>

\* id_to_name_.clear()
ClearNames ==
  /\ Goto("users", "clear", "emplace")
  /\ id_to_name_' = EmptyMap
  /\ raced' = (raced \/ pc["msgs"] = "subscript")
  /\ UNCHANGED <<up, server, mail, name_mtx, name_to_id_, id_, target,
                 shrunk, listed, sends, shown>>

\* The names of name_to_id_ that the copying loop has still to reach.
Uncopied ==
  {n \in DOMAIN name_to_id_ : name_to_id_[n] \notin DOMAIN id_to_name_}

\* One round of the loop (emplace keeps an entry that is already there), or
\* the end of the critical section.
EmplaceName ==
  \/ /\ pc["users"] = "emplace"
     /\ \E n \in Uncopied : id_to_name_' = Put(id_to_name_, name_to_id_[n], n)
     /\ UNCHANGED <<up, server, pc, mail, name_mtx, name_to_id_, id_, target,
                    hist>>
  \/ /\ Uncopied = {}
     /\ Goto("users", "emplace",
             IF DOMAIN name_to_id_ = {} THEN "sleep" ELSE "print")
     /\ name_mtx' = "free"
     /\ UNCHANGED <<up, server, mail, name_to_id_, id_to_name_, id_, target,
                    hist>>

UsersPrint ==
  /\ Goto("users", "print", "sleep")
  /\ name_mtx = "free"
  /\ UNCHANGED <<up, server, mail, maps, id_, target, hist>>

-----------------------------------------------------------------------------
(* periodicGetMessages                                                     *)

SendRecv ==
  /\ Request("msgs", "sleep", "wait")
  /\ UNCHANGED <<up, registered, rx, mail, maps, id_, target, hist>>

HandleRecv ==
  /\ Received("msgs")
  /\ Goto("msgs", "wait", "find")
  /\ mail' = rx.msgs
  /\ conn' = [conn EXCEPT !["msgs"] = "none"]
  /\ UNCHANGED <<up, registered, rx, maps, id_, target, hist>>

Updating == pc["users"] \in {"clear", "emplace"}

Show(name) == shown' = {[name |-> name, sender |-> Head(mail)]}

FindSender_OneTooMany ==
  /\ \/ Goto("msgs", "find", "subscript")
     \/ mail = << >> /\ Goto("msgs", "find", "sleep")
  /\ UNCHANGED <<up, server, mail, maps, id_, target, hist>>

FindSender_StaysOnUnknown ==
  /\ \/ mail = << >> /\ Goto("msgs", "find", "sleep")
     \/ /\ mail # << >>
        /\ Head(mail) \in DOMAIN id_to_name_
        /\ Goto("msgs", "find", "subscript")
     \/ /\ mail # << >>
        /\ Head(mail) \notin DOMAIN id_to_name_
        /\ UNCHANGED pc
  /\ UNCHANGED <<up, server, mail, maps, id_, target, hist>>

\* id_to_name_.find(), without the mutex.  It may miss during an update.
FindSender ==
  /\ pc["msgs"] = "find"
  /\ raced' = (raced \/ (mail # << >> /\ Updating))
  /\ \/ /\ mail = << >>
        /\ Goto("msgs", "find", "sleep")
        /\ shown' = {}
        /\ UNCHANGED mail
     \/ /\ mail # << >>
        /\ Head(mail) \in DOMAIN id_to_name_
        /\ Goto("msgs", "find", "subscript")
        /\ UNCHANGED <<mail, shown>>
     \/ /\ mail # << >>
        /\ Head(mail) \notin DOMAIN id_to_name_ \/ Updating
        /\ Show("unknown")
        /\ mail' = Tail(mail)
        /\ UNCHANGED pc
  /\ UNCHANGED <<up, server, maps, id_, target, shrunk, listed, sends>>

\* id_to_name_[], without the mutex: inserts "" if the entry is gone.
SubscriptSender ==
  /\ Goto("msgs", "subscript", "find")
  /\ raced' = (raced \/ Updating)
  /\ id_to_name_' = Subscript(id_to_name_, Head(mail), NoName)
  /\ Show(id_to_name_'[Head(mail)])
  /\ mail' = Tail(mail)
  /\ UNCHANGED <<up, server, name_mtx, name_to_id_, id_, target,
                 shrunk, listed, sends>>

\* The damaged map may bring the process down later.
Crash ==
  /\ raced
  /\ up' = FALSE
  /\ UNCHANGED <<server, pc, mail, maps, id_, target, hist>>

-----------------------------------------------------------------------------
Server == ServeRegister \/ ServeUsers \/ ServeRecv \/ ServeSend

Main  == SendRegister \/ HandleRegister \/ UserCommand \/ MainPrint
           \/ ChooseTarget \/ ChatMessage \/ HandleSend

UsersThread == SendUsers \/ HandleUsers \/ CompareUsers \/ ClearNames
                 \/ EmplaceName \/ UsersPrint

MsgsThread == SendRecv \/ HandleRecv \/ FindSender \/ SubscriptSender

Next ==
  /\ up
  /\ \/ OtherRegisters
     \/ Server
     \/ Main
     \/ UsersThread
     \/ MsgsThread
     \/ Crash

Spec == Init /\ [][Next]_vars

\* The polling threads run and the server ends every request.  The main
\* thread runs where it waits for a response; nothing is assumed of the user
\* at the terminal, nor of who wins the mutex (std::mutex is not fair).
Fairness ==
  /\ WF_vars(up /\ ServeUsers) /\ WF_vars(up /\ ServeRecv)
  /\ WF_vars(up /\ ServeRegister) /\ WF_vars(up /\ ServeSend)
  /\ WF_vars(up /\ UsersThread)
  /\ WF_vars(up /\ MsgsThread)
  /\ WF_vars(up /\ HandleRegister) /\ WF_vars(up /\ HandleSend)

FairSpec == Spec /\ Fairness

-----------------------------------------------------------------------------
(* Properties                                                              *)

Partial(D, R) == UNION {[S -> R] : S \in SUBSET D}

ProgramCounters ==
  [main  : {"name", "register", "menu", "print", "target", "chat", "answer"},
   users : {"none", "sleep", "wait", "lock", "clear", "emplace", "print"},
   msgs  : {"none", "sleep", "wait", "find", "subscript"}]

Contents ==
  [id : Ids, negative : BOOLEAN, users : SUBSET User, msgs : Seq(Ids),
   sent : BOOLEAN]

TypeOK ==
  /\ up \in BOOLEAN
  /\ registered \subseteq User
  /\ pc \in ProgramCounters
  /\ conn \in [Threads -> ConnStates]
  /\ rx \in Contents
  /\ mail \in Seq(Ids)
  /\ name_mtx \in {"free", "users"}
  /\ name_to_id_ \in Partial(Usernames, Ids)
  /\ id_to_name_ \in Partial(Ids, Usernames)
  /\ id_ \in Ids
  /\ target \in Usernames
  /\ {raced, shrunk} \subseteq BOOLEAN
  /\ listed \subseteq [name : Usernames, id : Ids]
  /\ sends \subseteq [name : Usernames, id : Ids]
  /\ pc["msgs"] = "subscript" => mail # << >>

\* A message is never shown under a name that was not listed for its sender:
\* at worst the name is missing.  It holds although the msgs thread takes no
\* lock, and although taskChatWithUser may insert a bogus entry into
\* name_to_id_, because the users thread copies name_to_id_ in the critical
\* section that assigned it.  What is listed, and who the sender is, is what
\* the client decoded: if a response arrived whole, what the server said.
NoWrongSender ==
  \A s \in shown :
    \/ s.name \in {"unknown", NoName}
    \/ [name |-> s.name, id |-> s.sender] \in listed

\* A message typed for a user is sent to an ID that a users response, as the
\* client decoded it, listed under that name.
SendTargetListed == sends \subseteq listed

\* It is, as long as no list that the client decodes lacks a user of the one
\* before, however old the lookup of the name is when the message is typed.
SendTargetListedUnlessShrunk == ~shrunk => SendTargetListed

\* The mutex keeps the two maps inverse to each other: outside a critical
\* section, id_to_name_ knows exactly the IDs name_to_id_ knows, by the same
\* names.
MapsAgree ==
  name_mtx = "free" =>
    /\ DOMAIN id_to_name_ = {name_to_id_[n] : n \in DOMAIN name_to_id_}
    /\ \A i \in DOMAIN id_to_name_ :
         /\ id_to_name_[i] \in DOMAIN name_to_id_
         /\ name_to_id_[id_to_name_[i]] = i

\* They agree as long as the unguarded accesses of the msgs thread do not
\* fall into an update and no listed user disappears.
MapsAgreeUnlessRaced == ~raced /\ ~shrunk => MapsAgree

\* periodicGetOnlineUsers keeps polling: each round comes to its end, taking
\* the mutex twice on the way, whatever the other two threads do.
UsersPoll == pc["users"] = "wait" ~> (pc["users"] = "sleep" \/ ~up)

\* README.md, 3.0: the client periodically requests the list of incoming
\* messages.  Each round of periodicGetMessages comes to its end.
MessagesPoll == pc["msgs"] = "wait" ~> (pc["msgs"] = "sleep" \/ ~up)

-----------------------------------------------------------------------------
(* The inductive invariant behind the safety properties: what the mutex    *)
(* protects while the users thread holds it, and what the other two        *)
(* threads may still rely on after they have looked something up.          *)

\* run() starts the two threads after registerUser.
StartState ==
  pc["main"] \in {"name", "register"} => pc["users"] = "none" /\ pc["msgs"] = "none"

NamesListed ==
  \A n \in DOMAIN name_to_id_ : [name |-> n, id |-> name_to_id_[n]] \in listed

\* The users thread holds the mutex during an update, in which name_to_id_ is
\* what the server listed, without an entry a chat has inserted.
MutexState ==
  /\ Updating <=> name_mtx = "users"
  /\ Updating => NamesListed

\* An ID is known by a name listed for it, or by the empty one.
IdsListed ==
  \A i \in DOMAIN id_to_name_ :
    id_to_name_[i] # NoName => [name |-> id_to_name_[i], id |-> i] \in listed

\* As long as no user disappears, a name that was found stays there.
ChatState ==
  /\ ~shrunk => NamesListed
  /\ ~shrunk /\ pc["main"] \in {"chat", "answer"} => target \in DOMAIN name_to_id_

\* Entries of id_to_name_ are entries of name_to_id_.
IdsCopied ==
  \A i \in DOMAIN id_to_name_ :
    id_to_name_[i] \in DOMAIN name_to_id_ /\ name_to_id_[id_to_name_[i]] = i

\* Without a race an update makes the maps agree step by step, and a sender
\* that was found stays there.
CopyState ==
  /\ ~raced /\ ~shrunk /\ pc["users"] = "emplace" => IdsCopied
  /\ ~raced /\ pc["msgs"] = "subscript" => Head(mail) \in DOMAIN id_to_name_

AppInv ==
  /\ TypeOK /\ IsFiniteSet(registered)
  /\ StartState /\ MutexState /\ IdsListed /\ ChatState /\ CopyState
  /\ NoWrongSender /\ SendTargetListedUnlessShrunk /\ MapsAgreeUnlessRaced

=============================================================================
