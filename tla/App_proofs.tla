----------------------------- MODULE App_proofs -----------------------------
(* Proofs about App, for every value of its constants.                     *)
EXTENDS App, Packet_proofs, FiniteSetTheorems, SequenceTheorems, TLAPS

-----------------------------------------------------------------------------
(* The maps.                                                               *)

LEMMA PartialProperties ==
  ASSUME NEW D, NEW R, NEW f
  PROVE  f \in Partial(D, R) <=>
           /\ f = [x \in DOMAIN f |-> f[x]]
           /\ DOMAIN f \subseteq D
           /\ \A x \in DOMAIN f : f[x] \in R
<1>1. ASSUME f \in Partial(D, R)
      PROVE  /\ f = [x \in DOMAIN f |-> f[x]]
             /\ DOMAIN f \subseteq D
             /\ \A x \in DOMAIN f : f[x] \in R
  <2>1. PICK S \in SUBSET D : f \in [S -> R]
    BY <1>1 DEF Partial
  <2> QED
    BY <2>1
<1>2. ASSUME f = [x \in DOMAIN f |-> f[x]],
             DOMAIN f \subseteq D,
             \A x \in DOMAIN f : f[x] \in R
      PROVE  f \in Partial(D, R)
  <2>1. f \in [DOMAIN f -> R]
    BY <1>2
  <2> QED
    BY <1>2, <2>1 DEF Partial
<1> QED
  BY <1>1, <1>2

LEMMA EmptyMapProperties ==
  ASSUME NEW D, NEW R
  PROVE  EmptyMap \in Partial(D, R) /\ DOMAIN EmptyMap = {}
<1>1. EmptyMap \in [{} -> R] /\ {} \in SUBSET D
  BY DEF EmptyMap
<1> QED
  BY <1>1 DEF Partial

LEMMA PutProperties ==
  ASSUME NEW D, NEW R, NEW f \in Partial(D, R), NEW k \in D, NEW v \in R
  PROVE  /\ Put(f, k, v) \in Partial(D, R)
         /\ DOMAIN Put(f, k, v) = DOMAIN f \cup {k}
         /\ Put(f, k, v)[k] = v
         /\ \A x \in DOMAIN f \ {k} : Put(f, k, v)[x] = f[x]
<1>1. DOMAIN f \subseteq D /\ \A x \in DOMAIN f : f[x] \in R
  BY PartialProperties
<1>2. /\ DOMAIN Put(f, k, v) = DOMAIN f \cup {k}
      /\ Put(f, k, v)[k] = v
      /\ \A x \in DOMAIN f \ {k} : Put(f, k, v)[x] = f[x]
  BY DEF Put
<1>3. Put(f, k, v) = [x \in DOMAIN Put(f, k, v) |-> Put(f, k, v)[x]]
  BY DEF Put
<1>4. \A x \in DOMAIN Put(f, k, v) : Put(f, k, v)[x] \in R
  BY <1>1, <1>2
<1> QED
  BY <1>1, <1>2, <1>3, <1>4, PartialProperties

LEMMA SubscriptType ==
  ASSUME NEW D, NEW R, NEW f \in Partial(D, R), NEW k \in D, NEW v \in R
  PROVE  Subscript(f, k, v) \in Partial(D, R)
BY PutProperties DEF Subscript

\* A subscript changes a map only if the key is missing.
LEMMA SubscriptValues ==
  ASSUME NEW f, NEW k, NEW v
  PROVE  /\ DOMAIN Subscript(f, k, v) = DOMAIN f \cup {k}
         /\ k \in DOMAIN f => Subscript(f, k, v) = f
         /\ k \notin DOMAIN f => Subscript(f, k, v)[k] = v
         /\ \A x \in DOMAIN f : Subscript(f, k, v)[x] = f[x]
<1>1. CASE k \in DOMAIN f
  <2>1. Subscript(f, k, v) = f
    BY <1>1 DEF Subscript
  <2>2. DOMAIN f = DOMAIN f \cup {k}
    BY <1>1
  <2> QED
    BY <1>1, <2>1, <2>2
<1>2. CASE k \notin DOMAIN f
  BY <1>2 DEF Subscript, Put
<1> QED
  BY <1>1, <1>2

-----------------------------------------------------------------------------
(* The program counters.                                                   *)

LEMMA GotoMain ==
  ASSUME pc \in ProgramCounters, NEW from, NEW to, Goto("main", from, to),
         to \in {"name", "register", "menu", "print", "target", "chat", "answer"}
  PROVE  /\ pc' \in ProgramCounters
         /\ pc["main"] = from /\ pc'["main"] = to
         /\ pc'["users"] = pc["users"] /\ pc'["msgs"] = pc["msgs"]
BY DEF Goto, ProgramCounters

LEMMA GotoUsers ==
  ASSUME pc \in ProgramCounters, NEW from, NEW to, Goto("users", from, to),
         to \in {"none", "sleep", "wait", "lock", "clear", "emplace", "print"}
  PROVE  /\ pc' \in ProgramCounters
         /\ pc["users"] = from /\ pc'["users"] = to
         /\ pc'["main"] = pc["main"] /\ pc'["msgs"] = pc["msgs"]
BY DEF Goto, ProgramCounters

LEMMA GotoMsgs ==
  ASSUME pc \in ProgramCounters, NEW from, NEW to, Goto("msgs", from, to),
         to \in {"none", "sleep", "wait", "find", "subscript"}
  PROVE  /\ pc' \in ProgramCounters
         /\ pc["msgs"] = from /\ pc'["msgs"] = to
         /\ pc'["main"] = pc["main"] /\ pc'["users"] = pc["users"]
BY DEF Goto, ProgramCounters

-----------------------------------------------------------------------------
(* Steps that leave the maps and the history alone.                        *)

LEMMA EmptyName == NoName \in Usernames
BY DEF Usernames

LEMMA InitApp ==
  ASSUME Init
  PROVE  AppInv
<1>1. 0 \in Ids
  BY AppIdAssumption DEF Ids
<1>2. << >> \in Seq(Ids)
  BY EmptySeq
<1>3. /\ EmptyMap \in Partial(Usernames, Ids)
      /\ EmptyMap \in Partial(Ids, Usernames)
      /\ DOMAIN EmptyMap = {}
  BY EmptyMapProperties
<1>4. pc \in ProgramCounters
  BY DEF Init, ProgramCounters
<1>5. rx \in Contents
  BY <1>1, <1>2 DEF Init, Contents
<1>6. pc["main"] = "name" /\ pc["users"] = "none" /\ pc["msgs"] = "none"
  BY DEF Init
<1>7. conn \in [Threads -> ConnStates]
  BY DEF Init, ConnStates
<1>8. TypeOK
  BY <1>1, <1>2, <1>3, <1>4, <1>5, <1>6, <1>7, EmptyName DEF Init, TypeOK
<1>9. IsFiniteSet(registered)
  BY FS_EmptySet DEF Init
<1>10. StartState /\ MutexState /\ IdsListed /\ ChatState /\ CopyState
  BY <1>3, <1>6 DEF Init, StartState, MutexState, Updating, NamesListed,
      IdsListed, ChatState, CopyState
<1>11. NoWrongSender /\ SendTargetListedUnlessShrunk
  BY DEF Init, NoWrongSender, SendTargetListedUnlessShrunk, SendTargetListed
<1>12. MapsAgreeUnlessRaced
  <2>1. DOMAIN id_to_name_ = {} /\ DOMAIN name_to_id_ = {}
    BY <1>3 DEF Init
  <2> QED
    BY <2>1 DEF MapsAgreeUnlessRaced, MapsAgree
<1> QED
  BY <1>8, <1>9, <1>10, <1>11, <1>12 DEF AppInv

\* A step that changes none of the maps, the mail, the target and the history
\* keeps the invariant if no thread enters or leaves the places it speaks of.
LEMMA FrameStep ==
  ASSUME AppInv, TypeOK', StartState', IsFiniteSet(registered'),
         UNCHANGED <<mail, maps, target, hist>>,
         pc'["users"] \in {"clear", "emplace"} \/ pc["users"] \in {"clear", "emplace"} =>
           pc'["users"] = pc["users"],
         pc'["msgs"] = "subscript" => pc["msgs"] = "subscript",
         pc'["main"] \in {"chat", "answer"} => pc["main"] \in {"chat", "answer"}
  PROVE  AppInv'
<1>1. UNCHANGED <<mail, name_mtx, name_to_id_, id_to_name_, target, raced, shrunk, listed,
                  sends, shown>>
  BY DEF maps, hist
<1>2. Updating' <=> Updating
  BY DEF Updating
<1>3. NamesListed' <=> NamesListed
  BY <1>1 DEF NamesListed
<1>4. MutexState' /\ IdsListed' /\ ChatState'
  BY <1>1, <1>2, <1>3 DEF AppInv, MutexState, IdsListed, ChatState
<1>5. CopyState'
  BY <1>1 DEF AppInv, CopyState, IdsCopied
<1>6. NoWrongSender' /\ SendTargetListedUnlessShrunk' /\ MapsAgreeUnlessRaced'
  BY <1>1 DEF AppInv, NoWrongSender, SendTargetListedUnlessShrunk, SendTargetListed,
     MapsAgreeUnlessRaced, MapsAgree
<1> QED
  BY <1>4, <1>5, <1>6 DEF AppInv

\* The next ID is a user_id_t.
LEMMA RegisterStep ==
  ASSUME registered \subseteq User, IsFiniteSet(registered), NEW n \in Names, Register(n)
  PROVE  /\ registered' \subseteq User
         /\ IsFiniteSet(registered')
         /\ Cardinality(registered) \in Ids
<1>1. Cardinality(registered) \in Nat /\ Cardinality(registered) < IdCount
  BY FS_CardinalityType DEF Register
<1>2. Cardinality(registered) \in Ids
  BY <1>1, AppIdAssumption DEF Ids
<1>3. [user_id |-> Cardinality(registered), username |-> n] \in User
  BY <1>2 DEF User, Usernames
<1>4. IsFiniteSet(registered')
  BY FS_AddElement DEF Register
<1> QED
  BY <1>2, <1>3, <1>4 DEF Register

LEMMA OtherRegistersStep ==
  ASSUME AppInv, OtherRegisters
  PROVE  AppInv'
<1>1. TypeOK /\ IsFiniteSet(registered)
  BY DEF AppInv
<1>2. PICK n \in Names : Register(n)
  BY DEF OtherRegisters
<1>3. UNCHANGED <<up, pc, conn, rx, mail, maps, id_, target, hist>>
  BY DEF OtherRegisters
<1>4. registered' \subseteq User /\ IsFiniteSet(registered')
  BY <1>1, <1>2, RegisterStep DEF TypeOK
<1>5. TypeOK' /\ StartState'
  BY <1>1, <1>3, <1>4 DEF AppInv, StartState, TypeOK, maps, hist
<1> QED
  BY <1>3, <1>4, <1>5, FrameStep

\* A part of an ID is an ID, and an entry put together from parts is one of a
\* user.
LEMMA PartTypes ==
  /\ User = UserOf(IdCount, Usernames)
  /\ \A i \in Ids : CutNumber(i) \subseteq Ids
  /\ \A ids \in SUBSET Ids : Numbers(ids) \subseteq Ids
<1>1. \A ids \in SUBSET Ids :
        Numbers(ids) \subseteq Ids /\ \A i \in ids : CutNumber(i) \subseteq Ids
  BY AppIdAssumption, NumbersType DEF Ids
<1>2. User = UserOf(IdCount, Usernames)
  BY DEF User, UserOf, Ids
<1> QED
  BY <1>1, <1>2

\* What an answer may leave in the receive buffers.
LEMMA AnswerTypes ==
  /\ \A r \in {"REGISTER", "USERS", "SEND", "RECV"} : Answers[r] \subseteq Outcomes
  /\ "main" \in Threads /\ "users" \in Threads /\ "msgs" \in Threads
BY AppAnswerAssumption DEF Threads

LEMMA UsedIdsType ==
  ASSUME registered \subseteq User
  PROVE  UsedIds \subseteq Ids
BY DEF UsedIds, User

\* The server ends the request of thread t.
LEMMA ServeStep ==
  ASSUME AppInv, NEW t \in Threads, NEW a \in Outcomes,
         Ended(t, a), rx' \in Contents,
         registered' \subseteq User, IsFiniteSet(registered'),
         UNCHANGED <<up, pc, mail, maps, id_, target, hist>>
  PROVE  AppInv'
<1>1. TypeOK
  BY DEF AppInv
<1>2. conn' \in [Threads -> ConnStates]
  BY <1>1 DEF TypeOK, Ended, ConnStates
<1>3. TypeOK' /\ StartState'
  BY <1>1, <1>2 DEF AppInv, StartState, TypeOK, maps, hist
<1> QED
  BY <1>3, FrameStep

LEMMA ServeRegisterStep ==
  ASSUME AppInv, ServeRegister
  PROVE  AppInv'
<1>1. TypeOK /\ IsFiniteSet(registered) /\ rx \in Contents /\ registered \subseteq User
  BY DEF AppInv, TypeOK
<1>2. PICK a \in Answers["REGISTER"] :
        /\ Ended("main", a)
        /\ \/ /\ \E n \in Names : Register(n)
              /\ \E i \in {Cardinality(registered)} \cup CutNumber(Cardinality(registered)) :
                   rx' = [rx EXCEPT !.id = i]
           \/ UNCHANGED <<registered, rx>>
  BY DEF ServeRegister
<1>3. UNCHANGED <<up, pc, mail, maps, id_, target, hist>>
  BY DEF ServeRegister, hist
<1>4. rx' \in Contents /\ registered' \subseteq User /\ IsFiniteSet(registered')
  <2>1. ASSUME NEW n \in Names, Register(n),
               NEW i \in {Cardinality(registered)} \cup CutNumber(Cardinality(registered)),
               rx' = [rx EXCEPT !.id = i]
        PROVE  rx' \in Contents /\ registered' \subseteq User /\ IsFiniteSet(registered')
    <3>1. /\ registered' \subseteq User /\ IsFiniteSet(registered')
          /\ Cardinality(registered) \in Ids
      BY <1>1, <2>1, RegisterStep
    <3>2. i \in Ids
      BY <3>1, PartTypes
    <3> QED
      BY <1>1, <2>1, <3>1, <3>2 DEF Contents
  <2> QED
    BY <1>1, <1>2, <2>1
<1> QED
  BY <1>2, <1>3, <1>4, AnswerTypes, ServeStep

LEMMA ServeUsersStep ==
  ASSUME AppInv, ServeUsers
  PROVE  AppInv'
<1>1. TypeOK /\ IsFiniteSet(registered) /\ rx \in Contents /\ registered \subseteq User
  BY DEF AppInv, TypeOK
<1>2. PICK a \in Answers["USERS"] :
        /\ Ended("users", a)
        /\ \/ \E v \in BOOLEAN,
                 list \in {{}, Others} \cup Garbled(Others \cup rx.users, Usernames) :
                rx' = [rx EXCEPT !.negative = v, !.users = list]
           \/ UNCHANGED rx
  <2>1. Unknown \in BOOLEAN
    BY DEF Unknown
  <2> QED
    BY <2>1 DEF ServeUsers
<1>3. UNCHANGED <<up, registered, pc, mail, maps, id_, target, hist>>
  BY DEF ServeUsers
<1>4. Others \subseteq User
  BY <1>1 DEF Others
<1>5. rx' \in Contents
  <2>1. ASSUME NEW v \in BOOLEAN,
               NEW list \in {{}, Others} \cup Garbled(Others \cup rx.users, Usernames),
               rx' = [rx EXCEPT !.negative = v, !.users = list]
        PROVE  rx' \in Contents
    <3>1. Others \cup rx.users \in SUBSET User
      BY <1>1, <1>4 DEF Contents
    <3>2. list \subseteq User
      BY <1>4, <3>1, PartTypes, AppIdAssumption, GarbledType
    <3> QED
      BY <1>1, <2>1, <3>2 DEF Contents
  <2> QED
    BY <1>1, <1>2, <2>1
<1> QED
  BY <1>1, <1>2, <1>3, <1>5, AnswerTypes, ServeStep

LEMMA ServeRecvStep ==
  ASSUME AppInv, ServeRecv
  PROVE  AppInv'
<1>1. TypeOK /\ IsFiniteSet(registered) /\ rx \in Contents /\ registered \subseteq User
  BY DEF AppInv, TypeOK
<1> DEFINE senders == UsedIds \cup {rx.msgs[i] : i \in DOMAIN rx.msgs}
<1>2. PICK a \in Answers["RECV"] :
        /\ Ended("msgs", a)
        /\ \/ \E ids \in {UsedIds, Numbers(senders)} :
                \E k \in 0 .. MaxMail : \E m \in [1 .. k -> ids] :
                  rx' = [rx EXCEPT !.msgs = m]
           \/ rx' = [rx EXCEPT !.msgs = << >>]
           \/ UNCHANGED rx
  BY DEF ServeRecv
<1>3. UNCHANGED <<up, registered, pc, mail, maps, id_, target, hist>>
  BY DEF ServeRecv
<1>4. UsedIds \subseteq Ids /\ Numbers(senders) \subseteq Ids
  <2>1. UsedIds \subseteq Ids
    BY <1>1, UsedIdsType
  <2>2. rx.msgs \in Seq(Ids)
    BY <1>1 DEF Contents
  <2>3. senders \in SUBSET Ids
    BY <2>1, <2>2
  <2> HIDE DEF senders
  <2> QED
    BY <2>1, <2>3, PartTypes
<1> HIDE DEF senders
<1>5. rx' \in Contents
  <2>1. ASSUME NEW ids \in {UsedIds, Numbers(senders)}, NEW k \in 0 .. MaxMail,
               NEW m \in [1 .. k -> ids], rx' = [rx EXCEPT !.msgs = m]
        PROVE  rx' \in Contents
    <3>1. k \in Nat /\ m \in [1 .. k -> Ids]
      BY <1>4, AppMailAssumption
    <3>2. m \in Seq(Ids)
      BY <3>1
    <3> QED
      BY <1>1, <2>1, <3>2 DEF Contents
  <2>2. CASE rx' = [rx EXCEPT !.msgs = << >>]
    <3>1. << >> \in Seq(Ids)
      BY EmptySeq
    <3> QED
      BY <1>1, <2>2, <3>1 DEF Contents
  <2> QED
    BY <1>1, <1>2, <2>1, <2>2
<1> QED
  BY <1>1, <1>2, <1>3, <1>5, AnswerTypes, ServeStep

LEMMA ServeSendStep ==
  ASSUME AppInv, ServeSend
  PROVE  AppInv'
<1>1. TypeOK /\ IsFiniteSet(registered) /\ rx \in Contents /\ registered \subseteq User
  BY DEF AppInv, TypeOK
<1>2. PICK a \in Answers["SEND"] :
        /\ Ended("main", a)
        /\ rx' \in {rx, [rx EXCEPT !.sent = TRUE], [rx EXCEPT !.sent = FALSE]}
  BY DEF ServeSend
<1>3. UNCHANGED <<up, registered, pc, mail, maps, id_, target, hist>>
  BY DEF ServeSend
<1>4. rx' \in Contents
  BY <1>1, <1>2 DEF Contents
<1> QED
  BY <1>1, <1>2, <1>3, <1>4, AnswerTypes, ServeStep

-----------------------------------------------------------------------------
(* The steps of the threads that leave the maps alone.                     *)

LEMMA ConnType ==
  ASSUME TypeOK, NEW t \in Threads, NEW c \in {"none", "sent"},
         conn' = [conn EXCEPT ![t] = c]
  PROVE  conn' \in [Threads -> ConnStates]
BY DEF TypeOK, ConnStates

LEMMA SendRegisterStep ==
  ASSUME AppInv, SendRegister
  PROVE  AppInv'
<1>1. TypeOK /\ StartState /\ IsFiniteSet(registered) /\ pc \in ProgramCounters
  BY DEF AppInv, TypeOK
<1>2. /\ Goto("main", "name", "register")
      /\ conn' = [conn EXCEPT !["main"] = "sent"]
      /\ UNCHANGED <<up, registered, rx, mail, maps, id_, target, hist>>
  BY DEF SendRegister, Request
<1>3. /\ pc' \in ProgramCounters
      /\ pc["main"] = "name" /\ pc'["main"] = "register"
      /\ pc'["users"] = pc["users"] /\ pc'["msgs"] = pc["msgs"]
  BY <1>1, <1>2, GotoMain
<1>4. TypeOK'
  BY <1>1, <1>2, <1>3, ConnType, AnswerTypes DEF TypeOK, maps, hist
<1>5. StartState'
  BY <1>1, <1>3 DEF StartState
<1> QED
  BY <1>1, <1>2, <1>3, <1>4, <1>5, FrameStep

LEMMA HandleRegisterStep ==
  ASSUME AppInv, HandleRegister
  PROVE  AppInv'
<1>1. TypeOK /\ StartState /\ IsFiniteSet(registered) /\ rx \in Contents
  BY DEF AppInv, TypeOK
<1>2. /\ pc["main"] = "register"
      /\ id_' = rx.id
      /\ rx' = [rx EXCEPT !.id = 0]
      /\ pc' = [main |-> "menu", users |-> "sleep", msgs |-> "sleep"]
      /\ conn' = [conn EXCEPT !["main"] = "none"]
      /\ UNCHANGED <<up, registered, mail, maps, target, hist>>
  BY DEF HandleRegister
<1>3. 0 \in Ids
  BY AppIdAssumption DEF Ids
<1>4. rx' \in Contents /\ id_' \in Ids
  BY <1>1, <1>2, <1>3 DEF Contents
<1>5. /\ pc' \in ProgramCounters
      /\ pc'["main"] = "menu" /\ pc'["users"] = "sleep" /\ pc'["msgs"] = "sleep"
  BY <1>2 DEF ProgramCounters
<1>6. pc["users"] = "none" /\ pc["msgs"] = "none"
  BY <1>1, <1>2 DEF StartState
<1>7. TypeOK' /\ StartState'
  BY <1>1, <1>2, <1>4, <1>5, ConnType, AnswerTypes DEF TypeOK, StartState, maps, hist
<1> QED
  BY <1>1, <1>2, <1>5, <1>6, <1>7, FrameStep

LEMMA UserCommandStep ==
  ASSUME AppInv, UserCommand
  PROVE  AppInv'
<1>1. TypeOK /\ StartState /\ IsFiniteSet(registered) /\ pc \in ProgramCounters
  BY DEF AppInv, TypeOK
<1>2. /\ Goto("main", "menu", "print") \/ Goto("main", "menu", "target")
      /\ UNCHANGED <<up, server, mail, maps, id_, target, hist>>
  BY DEF UserCommand
<1>3. /\ pc' \in ProgramCounters
      /\ pc'["main"] \in {"print", "target"}
      /\ pc'["users"] = pc["users"] /\ pc'["msgs"] = pc["msgs"]
  <2>1. CASE Goto("main", "menu", "print")
    BY <1>1, <2>1, GotoMain
  <2>2. CASE Goto("main", "menu", "target")
    BY <1>1, <2>2, GotoMain
  <2> QED
    BY <1>2, <2>1, <2>2
<1>4. TypeOK' /\ StartState'
  BY <1>1, <1>2, <1>3 DEF TypeOK, StartState, server, maps, hist
<1> QED
  BY <1>1, <1>2, <1>3, <1>4, FrameStep DEF server

LEMMA MainPrintStep ==
  ASSUME AppInv, MainPrint
  PROVE  AppInv'
<1>1. TypeOK /\ StartState /\ IsFiniteSet(registered) /\ pc \in ProgramCounters
  BY DEF AppInv, TypeOK
<1>2. /\ Goto("main", "print", "menu")
      /\ UNCHANGED <<up, server, mail, maps, id_, target, hist>>
  BY DEF MainPrint
<1>3. /\ pc' \in ProgramCounters
      /\ pc'["main"] = "menu"
      /\ pc'["users"] = pc["users"] /\ pc'["msgs"] = pc["msgs"]
  BY <1>1, <1>2, GotoMain
<1>4. TypeOK' /\ StartState'
  BY <1>1, <1>2, <1>3 DEF TypeOK, StartState, server, maps, hist
<1> QED
  BY <1>1, <1>2, <1>3, <1>4, FrameStep DEF server

LEMMA SendUsersStep ==
  ASSUME AppInv, SendUsers
  PROVE  AppInv'
<1>1. TypeOK /\ StartState /\ IsFiniteSet(registered) /\ pc \in ProgramCounters
  BY DEF AppInv, TypeOK
<1>2. /\ Goto("users", "sleep", "wait")
      /\ conn' = [conn EXCEPT !["users"] = "sent"]
      /\ UNCHANGED <<up, registered, rx, mail, maps, id_, target, hist>>
  BY DEF SendUsers, Request
<1>3. /\ pc' \in ProgramCounters
      /\ pc["users"] = "sleep" /\ pc'["users"] = "wait"
      /\ pc'["main"] = pc["main"] /\ pc'["msgs"] = pc["msgs"]
  BY <1>1, <1>2, GotoUsers
<1>4. TypeOK'
  BY <1>1, <1>2, <1>3, ConnType, AnswerTypes DEF TypeOK, maps, hist
<1>5. StartState'
  BY <1>1, <1>3 DEF StartState
<1> QED
  BY <1>1, <1>2, <1>3, <1>4, <1>5, FrameStep

LEMMA HandleUsersStep ==
  ASSUME AppInv, HandleUsers
  PROVE  AppInv'
<1>1. TypeOK /\ StartState /\ IsFiniteSet(registered) /\ pc \in ProgramCounters
  BY DEF AppInv, TypeOK
<1> DEFINE to == IF rx.negative THEN "sleep" ELSE "lock"
<1>2. /\ Goto("users", "wait", to)
      /\ conn' = [conn EXCEPT !["users"] = "none"]
      /\ UNCHANGED <<up, registered, rx, mail, maps, id_, target, hist>>
  BY DEF HandleUsers
<1>3. to \in {"sleep", "lock"}
  OBVIOUS
<1> HIDE DEF to
<1>4. /\ pc' \in ProgramCounters
      /\ pc["users"] = "wait" /\ pc'["users"] = to
      /\ pc'["main"] = pc["main"] /\ pc'["msgs"] = pc["msgs"]
  BY <1>1, <1>2, <1>3, GotoUsers
<1>5. TypeOK'
  BY <1>1, <1>2, <1>4, ConnType, AnswerTypes DEF TypeOK, maps, hist
<1>6. StartState'
  BY <1>1, <1>4 DEF StartState
<1> QED
  BY <1>1, <1>2, <1>3, <1>4, <1>5, <1>6, FrameStep

LEMMA UsersPrintStep ==
  ASSUME AppInv, UsersPrint
  PROVE  AppInv'
<1>1. TypeOK /\ StartState /\ IsFiniteSet(registered) /\ pc \in ProgramCounters
  BY DEF AppInv, TypeOK
<1>2. /\ Goto("users", "print", "sleep")
      /\ UNCHANGED <<up, server, mail, maps, id_, target, hist>>
  BY DEF UsersPrint
<1>3. /\ pc' \in ProgramCounters
      /\ pc["users"] = "print" /\ pc'["users"] = "sleep"
      /\ pc'["main"] = pc["main"] /\ pc'["msgs"] = pc["msgs"]
  BY <1>1, <1>2, GotoUsers
<1>4. TypeOK' /\ StartState'
  BY <1>1, <1>2, <1>3 DEF TypeOK, StartState, server, maps, hist
<1> QED
  BY <1>1, <1>2, <1>3, <1>4, FrameStep DEF server

LEMMA SendRecvStep ==
  ASSUME AppInv, SendRecv
  PROVE  AppInv'
<1>1. TypeOK /\ StartState /\ IsFiniteSet(registered) /\ pc \in ProgramCounters
  BY DEF AppInv, TypeOK
<1>2. /\ Goto("msgs", "sleep", "wait")
      /\ conn' = [conn EXCEPT !["msgs"] = "sent"]
      /\ UNCHANGED <<up, registered, rx, mail, maps, id_, target, hist>>
  BY DEF SendRecv, Request
<1>3. /\ pc' \in ProgramCounters
      /\ pc["msgs"] = "sleep" /\ pc'["msgs"] = "wait"
      /\ pc'["main"] = pc["main"] /\ pc'["users"] = pc["users"]
  BY <1>1, <1>2, GotoMsgs
<1>4. TypeOK'
  BY <1>1, <1>2, <1>3, ConnType, AnswerTypes DEF TypeOK, maps, hist
<1>5. StartState'
  BY <1>1, <1>3 DEF StartState
<1> QED
  BY <1>1, <1>2, <1>3, <1>4, <1>5, FrameStep

LEMMA CrashStep ==
  ASSUME AppInv, Crash
  PROVE  AppInv'
<1>1. up' = FALSE /\ UNCHANGED <<server, pc, mail, maps, id_, target, hist>>
  BY DEF Crash
<1>2. TypeOK' /\ StartState' /\ IsFiniteSet(registered')
  BY <1>1 DEF AppInv, TypeOK, StartState, server, maps, hist
<1> QED
  BY <1>1, <1>2, FrameStep

-----------------------------------------------------------------------------
(* The chat of the main thread.                                            *)

\* A step of the main thread that changes at most the target and the SEND
\* request under way.
LEMMA MainStep ==
  ASSUME AppInv, TypeOK',
         pc'["main"] \notin {"name", "register"},
         pc'["users"] = pc["users"], pc'["msgs"] = pc["msgs"],
         UNCHANGED <<registered, mail, maps, raced, shrunk, listed, shown>>,
         ~shrunk => sends' \subseteq listed,
         pc'["main"] \in {"chat", "answer"} =>
           target' \in Usernames /\ (~shrunk => target' \in DOMAIN name_to_id_)
  PROVE  AppInv'
<1>1. UNCHANGED <<name_mtx, name_to_id_, id_to_name_>>
  BY DEF maps
<1>2. (Updating' <=> Updating) /\ (NamesListed' <=> NamesListed)
  BY <1>1 DEF Updating, NamesListed
<1>3. StartState' /\ MutexState' /\ IdsListed' /\ ChatState'
  BY <1>1, <1>2 DEF AppInv, StartState, MutexState, IdsListed, ChatState
<1>4. CopyState'
  BY <1>1 DEF AppInv, CopyState, IdsCopied
<1>5. NoWrongSender' /\ SendTargetListedUnlessShrunk' /\ MapsAgreeUnlessRaced'
  BY <1>1 DEF AppInv, NoWrongSender, SendTargetListedUnlessShrunk, SendTargetListed,
     MapsAgreeUnlessRaced, MapsAgree
<1> QED
  BY <1>3, <1>4, <1>5 DEF AppInv

LEMMA ChooseTargetStep ==
  ASSUME AppInv, ChooseTarget
  PROVE  AppInv'
<1>1. /\ TypeOK /\ pc \in ProgramCounters /\ name_to_id_ \in Partial(Usernames, Ids)
      /\ SendTargetListedUnlessShrunk
  BY DEF AppInv, TypeOK
<1>2. UNCHANGED <<up, server, mail, maps, id_, hist>>
  BY DEF ChooseTarget
<1>3. ~shrunk => sends' \subseteq listed
  BY <1>1, <1>2 DEF hist, SendTargetListedUnlessShrunk, SendTargetListed
<1>4. CASE Goto("main", "target", "menu") /\ UNCHANGED target
  <2>1. /\ pc' \in ProgramCounters
        /\ pc'["main"] = "menu"
        /\ pc'["users"] = pc["users"] /\ pc'["msgs"] = pc["msgs"]
    BY <1>1, <1>4, GotoMain
  <2>2. TypeOK'
    BY <1>1, <1>2, <1>4, <2>1 DEF TypeOK, server, maps, hist
  <2> QED
    BY <1>2, <1>3, <2>1, <2>2, MainStep DEF hist, server
<1>5. CASE /\ \E n \in DOMAIN name_to_id_ : target' = n
           /\ Goto("main", "target", "chat")
  <2>1. /\ pc' \in ProgramCounters
        /\ pc'["main"] = "chat"
        /\ pc'["users"] = pc["users"] /\ pc'["msgs"] = pc["msgs"]
    BY <1>1, <1>5, GotoMain
  <2>2. target' \in DOMAIN name_to_id_ /\ target' \in Usernames
    BY <1>1, <1>5, PartialProperties
  <2>3. TypeOK'
    BY <1>1, <1>2, <2>1, <2>2 DEF TypeOK, server, maps, hist
  <2> QED
    BY <1>2, <1>3, <2>1, <2>2, <2>3, MainStep DEF hist, server
<1> QED
  BY <1>4, <1>5 DEF ChooseTarget

\* The subscript of taskChatWithUser finds the entry unless a user has
\* disappeared.
LEMMA ChatMessageStep ==
  ASSUME AppInv, ChatMessage
  PROVE  AppInv'
<1>1. /\ TypeOK /\ ChatState /\ MutexState /\ SendTargetListedUnlessShrunk
      /\ MapsAgreeUnlessRaced /\ CopyState /\ IdsListed /\ NoWrongSender
      /\ IsFiniteSet(registered)
      /\ pc \in ProgramCounters /\ name_to_id_ \in Partial(Usernames, Ids)
      /\ rx \in Contents
  BY DEF AppInv, TypeOK
<1>2. CASE /\ Goto("main", "chat", "menu")
           /\ target' = NoName
           /\ rx' = [rx EXCEPT !.sent = FALSE]
           /\ UNCHANGED <<up, registered, conn, mail, maps, id_, hist>>
  <2>1. /\ pc' \in ProgramCounters
        /\ pc'["main"] = "menu"
        /\ pc'["users"] = pc["users"] /\ pc'["msgs"] = pc["msgs"]
    BY <1>1, <1>2, GotoMain
  <2>2. rx' \in Contents
    BY <1>1, <1>2 DEF Contents
  <2>3. TypeOK'
    BY <1>1, <1>2, <2>1, <2>2, EmptyName DEF TypeOK, maps, hist
  <2>4. ~shrunk => sends' \subseteq listed
    BY <1>1, <1>2 DEF hist, SendTargetListedUnlessShrunk, SendTargetListed
  <2> QED
    BY <1>2, <2>1, <2>3, <2>4, MainStep DEF hist
<1>3. CASE /\ name_mtx = "free"
           /\ name_to_id_' = Subscript(name_to_id_, target, 0)
           /\ sends' = {[name |-> target, id |-> name_to_id_'[target]]}
           /\ Request("main", "chat", "answer")
           /\ UNCHANGED <<up, registered, rx, mail, name_mtx, id_to_name_, id_,
                          target, raced, shrunk, listed, shown>>
  <2>1. /\ pc' \in ProgramCounters
        /\ pc["main"] = "chat" /\ pc'["main"] = "answer"
        /\ pc'["users"] = pc["users"] /\ pc'["msgs"] = pc["msgs"]
        /\ conn' = [conn EXCEPT !["main"] = "sent"]
    BY <1>1, <1>3, GotoMain DEF Request
  <2>2. target \in Usernames /\ (~shrunk => target \in DOMAIN name_to_id_ /\ NamesListed)
    BY <1>1, <2>1 DEF ChatState, TypeOK
  <2>3. 0 \in Ids
    BY AppIdAssumption DEF Ids
  <2>4. /\ name_to_id_' \in Partial(Usernames, Ids)
        /\ DOMAIN name_to_id_' = DOMAIN name_to_id_ \cup {target}
        /\ target \in DOMAIN name_to_id_ => name_to_id_' = name_to_id_
    BY <1>1, <1>3, <2>2, <2>3, SubscriptType, SubscriptValues
  <2>5. name_to_id_'[target] \in Ids
    BY <2>4, PartialProperties
  <2>6. TypeOK'
    <3>1. sends' \subseteq [name : Usernames, id : Ids]
      BY <1>3, <2>2, <2>5
    <3> QED
      BY <1>1, <1>3, <2>1, <2>4, <3>1, ConnType, AnswerTypes DEF TypeOK
  <2>7. CASE ~shrunk
    <3>1. UNCHANGED <<registered, mail, maps, raced, shrunk, listed, shown>>
      BY <1>3, <2>2, <2>4, <2>7 DEF maps
    <3>2. sends' \subseteq listed
      BY <1>3, <2>2, <2>4, <2>7 DEF NamesListed
    <3> QED
      BY <1>3, <2>1, <2>2, <2>6, <3>1, <3>2, MainStep
  <2>8. CASE shrunk
    <3>1. ~Updating /\ ~Updating'
      BY <1>1, <1>3, <2>1 DEF MutexState, Updating
    <3>2. MutexState'
      BY <1>3, <3>1 DEF MutexState
    <3>3. StartState' /\ IdsListed' /\ ChatState'
      BY <1>1, <1>3, <2>1, <2>2, <2>8 DEF StartState, IdsListed, ChatState
    <3>4. CopyState'
      BY <1>1, <1>3, <2>1, <2>8 DEF CopyState
    <3>5. NoWrongSender' /\ SendTargetListedUnlessShrunk' /\ MapsAgreeUnlessRaced'
      BY <1>1, <1>3, <2>8 DEF NoWrongSender, SendTargetListedUnlessShrunk, MapsAgreeUnlessRaced
    <3> QED
      BY <1>1, <1>3, <2>6, <3>2, <3>3, <3>4, <3>5 DEF AppInv
  <2> QED
    BY <2>7, <2>8
<1> QED
  BY <1>2, <1>3 DEF ChatMessage

LEMMA HandleSendStep ==
  ASSUME AppInv, HandleSend
  PROVE  AppInv'
<1>1. TypeOK /\ ChatState /\ pc \in ProgramCounters
  BY DEF AppInv, TypeOK
<1> DEFINE to == IF rx.sent THEN "chat" ELSE "menu"
<1>2. /\ Goto("main", "answer", to)
      /\ target' = IF rx.sent THEN target ELSE NoName
      /\ conn' = [conn EXCEPT !["main"] = "none"]
      /\ sends' = {}
      /\ UNCHANGED <<up, registered, rx, mail, maps, id_, raced, shrunk, listed, shown>>
  BY DEF HandleSend
<1>3. to \in {"chat", "menu"} /\ (to = "chat" => target' = target)
  BY <1>2
<1> HIDE DEF to
<1>4. /\ pc' \in ProgramCounters
      /\ pc["main"] = "answer" /\ pc'["main"] = to
      /\ pc'["users"] = pc["users"] /\ pc'["msgs"] = pc["msgs"]
  BY <1>1, <1>2, <1>3, GotoMain
<1>5. target \in Usernames /\ (~shrunk => target \in DOMAIN name_to_id_)
  BY <1>1, <1>4 DEF ChatState, TypeOK
<1>6. TypeOK'
  BY <1>1, <1>2, <1>4, ConnType, AnswerTypes, EmptyName DEF TypeOK, maps
<1> QED
  BY <1>2, <1>3, <1>4, <1>5, <1>6, MainStep

-----------------------------------------------------------------------------
(* The update of the users thread.                                         *)

LEMMA NewNameToIdType ==
  ASSUME NEW users \in SUBSET User, NEW new \in NewNameToId(users)
  PROVE  new \in Partial(Usernames, Ids)
<1>1. new \in [{u.username : u \in users} -> Ids]
  BY DEF NewNameToId
<1>2. {u.username : u \in users} \subseteq Usernames
  BY DEF User
<1> QED
  BY <1>1, <1>2 DEF Partial

LEMMA CompareUsersStep ==
  ASSUME AppInv, CompareUsers
  PROVE  AppInv'
<1>1. /\ TypeOK /\ StartState /\ ChatState /\ MutexState /\ CopyState /\ IdsListed
      /\ IsFiniteSet(registered) /\ NoWrongSender
      /\ SendTargetListedUnlessShrunk /\ MapsAgreeUnlessRaced
      /\ pc \in ProgramCounters /\ rx \in Contents
      /\ listed \subseteq [name : Usernames, id : Ids]
  BY DEF AppInv, TypeOK
<1>2. PICK new \in NewNameToId(rx.users) :
        /\ listed' = listed \cup {[name |-> n, id |-> new[n]] : n \in DOMAIN new}
        /\ \/ /\ new = name_to_id_
              /\ Goto("users", "lock", "sleep")
              /\ UNCHANGED <<name_mtx, name_to_id_, shrunk>>
           \/ /\ new # name_to_id_
              /\ Goto("users", "lock", "clear")
              /\ name_mtx' = "users"
              /\ name_to_id_' = new
              /\ shrunk' = (shrunk \/ ~(DOMAIN name_to_id_ \subseteq DOMAIN new))
  BY DEF CompareUsers
<1>3. UNCHANGED <<up, registered, conn, rx, mail, id_to_name_, id_, target, raced, sends, shown>>
  BY DEF CompareUsers, server
<1>4. new \in Partial(Usernames, Ids)
  <2>1. rx.users \in SUBSET User
    BY <1>1 DEF Contents
  <2> QED
    BY <2>1, NewNameToIdType
<1>5. /\ DOMAIN new \subseteq Usernames
      /\ \A n \in DOMAIN new : new[n] \in Ids /\ [name |-> n, id |-> new[n]] \in listed'
  BY <1>2, <1>4, PartialProperties
<1>6. listed \subseteq listed' /\ listed' \subseteq [name : Usernames, id : Ids]
  BY <1>1, <1>2, <1>5
<1>7. IdsListed' /\ NoWrongSender'
  BY <1>1, <1>3, <1>6 DEF IdsListed, NoWrongSender
<1>8. ASSUME ~shrunk => sends \subseteq listed
      PROVE  ~shrunk => sends' \subseteq listed'
  BY <1>3, <1>6, <1>8
<1>9. CASE /\ new = name_to_id_
           /\ Goto("users", "lock", "sleep")
           /\ UNCHANGED <<name_mtx, name_to_id_, shrunk>>
  <2>1. /\ pc' \in ProgramCounters
        /\ pc["users"] = "lock" /\ pc'["users"] = "sleep"
        /\ pc'["main"] = pc["main"] /\ pc'["msgs"] = pc["msgs"]
    BY <1>1, <1>9, GotoUsers
  <2>2. TypeOK'
    BY <1>1, <1>3, <1>6, <1>9, <2>1 DEF TypeOK
  <2>3. NamesListed' /\ ~Updating /\ ~Updating'
    BY <1>5, <1>9, <2>1 DEF NamesListed, Updating
  <2>4. StartState' /\ MutexState' /\ ChatState' /\ CopyState'
    BY <1>1, <1>3, <1>9, <2>1, <2>3
       DEF StartState, MutexState, ChatState, CopyState
  <2>5. SendTargetListedUnlessShrunk' /\ MapsAgreeUnlessRaced'
    BY <1>1, <1>3, <1>6, <1>9 DEF SendTargetListedUnlessShrunk, SendTargetListed,
       MapsAgreeUnlessRaced, MapsAgree
  <2> QED
    BY <1>1, <1>3, <1>7, <2>2, <2>4, <2>5 DEF AppInv
<1>10. CASE /\ Goto("users", "lock", "clear")
            /\ name_mtx' = "users"
            /\ name_to_id_' = new
            /\ shrunk' = (shrunk \/ ~(DOMAIN name_to_id_ \subseteq DOMAIN new))
  <2>1. /\ pc' \in ProgramCounters
        /\ pc["users"] = "lock" /\ pc'["users"] = "clear"
        /\ pc'["main"] = pc["main"] /\ pc'["msgs"] = pc["msgs"]
    BY <1>1, <1>10, GotoUsers
  <2>2. TypeOK'
    <3>1. shrunk' \in BOOLEAN
      BY <1>1, <1>10 DEF TypeOK
    <3> QED
      BY <1>1, <1>3, <1>4, <1>6, <1>10, <2>1, <3>1 DEF TypeOK
  <2>3. NamesListed' /\ Updating'
    BY <1>5, <1>10, <2>1 DEF NamesListed, Updating
  <2>4. ~shrunk' => ~shrunk /\ DOMAIN name_to_id_ \subseteq DOMAIN name_to_id_'
    BY <1>10
  <2>5. StartState' /\ MutexState'
    BY <1>1, <1>10, <2>1, <2>3 DEF StartState, MutexState
  <2>6. ChatState'
    BY <1>1, <1>3, <2>1, <2>3, <2>4 DEF ChatState
  <2>7. CopyState'
    BY <1>1, <1>3, <2>1 DEF CopyState
  <2>8. SendTargetListedUnlessShrunk' /\ MapsAgreeUnlessRaced'
    BY <1>1, <1>3, <1>6, <1>10, <2>4 DEF SendTargetListedUnlessShrunk, SendTargetListed,
       MapsAgreeUnlessRaced, MapsAgree
  <2> QED
    BY <1>1, <1>3, <1>7, <2>2, <2>5, <2>6, <2>7, <2>8 DEF AppInv
<1> QED
  BY <1>2, <1>9, <1>10

LEMMA ClearNamesStep ==
  ASSUME AppInv, ClearNames
  PROVE  AppInv'
<1>1. /\ TypeOK /\ StartState /\ ChatState /\ MutexState /\ CopyState
      /\ IsFiniteSet(registered) /\ NoWrongSender /\ SendTargetListedUnlessShrunk
      /\ pc \in ProgramCounters
  BY DEF AppInv, TypeOK
<1>2. /\ Goto("users", "clear", "emplace")
      /\ id_to_name_' = EmptyMap
      /\ raced' = (raced \/ pc["msgs"] = "subscript")
      /\ UNCHANGED <<up, registered, conn, rx, mail, name_mtx, name_to_id_, id_, target,
                     shrunk, listed, sends, shown>>
  BY DEF ClearNames, server
<1>3. /\ pc' \in ProgramCounters
      /\ pc["users"] = "clear" /\ pc'["users"] = "emplace"
      /\ pc'["main"] = pc["main"] /\ pc'["msgs"] = pc["msgs"]
  BY <1>1, <1>2, GotoUsers
<1>4. id_to_name_' \in Partial(Ids, Usernames) /\ DOMAIN id_to_name_' = {}
  BY <1>2, EmptyMapProperties
<1>5. TypeOK'
  <2>1. raced' \in BOOLEAN
    BY <1>1, <1>2 DEF TypeOK
  <2> QED
    BY <1>1, <1>2, <1>3, <1>4, <2>1 DEF TypeOK
<1>6. Updating /\ Updating' /\ (NamesListed' <=> NamesListed)
  BY <1>2, <1>3 DEF Updating, NamesListed
<1>7. StartState' /\ MutexState' /\ IdsListed' /\ ChatState'
  BY <1>1, <1>2, <1>3, <1>4, <1>6 DEF StartState, MutexState, IdsListed, ChatState
<1>8. CopyState'
  BY <1>2, <1>3, <1>4 DEF CopyState, IdsCopied
<1>9. NoWrongSender' /\ SendTargetListedUnlessShrunk'
  BY <1>1, <1>2 DEF NoWrongSender, SendTargetListedUnlessShrunk, SendTargetListed
<1>10. MapsAgreeUnlessRaced'
  BY <1>1, <1>2, <1>6 DEF MutexState, MapsAgreeUnlessRaced, MapsAgree
<1> QED
  BY <1>1, <1>2, <1>5, <1>7, <1>8, <1>9, <1>10 DEF AppInv

LEMMA EmplaceNameStep ==
  ASSUME AppInv, EmplaceName
  PROVE  AppInv'
<1>1. /\ TypeOK /\ StartState /\ ChatState /\ MutexState /\ CopyState /\ IdsListed
      /\ IsFiniteSet(registered) /\ NoWrongSender /\ SendTargetListedUnlessShrunk
      /\ pc \in ProgramCounters /\ name_to_id_ \in Partial(Usernames, Ids)
      /\ id_to_name_ \in Partial(Ids, Usernames)
  BY DEF AppInv, TypeOK
<1>2. CASE /\ pc["users"] = "emplace"
           /\ \E n \in Uncopied : id_to_name_' = Put(id_to_name_, name_to_id_[n], n)
           /\ UNCHANGED <<up, server, pc, mail, name_mtx, name_to_id_, id_, target, hist>>
  <2>1. PICK n \in Uncopied : id_to_name_' = Put(id_to_name_, name_to_id_[n], n)
    BY <1>2
  <2> DEFINE i == name_to_id_[n]
  <2>2. n \in DOMAIN name_to_id_ /\ i \notin DOMAIN id_to_name_
    BY <2>1 DEF Uncopied
  <2>3. n \in Usernames /\ i \in Ids /\ id_to_name_' = Put(id_to_name_, i, n)
    BY <1>1, <2>1, <2>2, PartialProperties
  <2>4. /\ id_to_name_' \in Partial(Ids, Usernames)
        /\ DOMAIN id_to_name_' = DOMAIN id_to_name_ \cup {i}
        /\ id_to_name_'[i] = n
        /\ \A x \in DOMAIN id_to_name_ \ {i} : id_to_name_'[x] = id_to_name_[x]
    <3> HIDE DEF i
    <3>1. id_to_name_ \in Partial(Ids, Usernames)
      BY <1>1
    <3>2. /\ Put(id_to_name_, i, n) \in Partial(Ids, Usernames)
          /\ DOMAIN Put(id_to_name_, i, n) = DOMAIN id_to_name_ \cup {i}
          /\ Put(id_to_name_, i, n)[i] = n
          /\ \A x \in DOMAIN id_to_name_ \ {i} : Put(id_to_name_, i, n)[x] = id_to_name_[x]
      <4>1. n \in Usernames /\ i \in Ids
        BY <2>3
      <4> QED
        BY <3>1, <4>1, PutProperties
    <3> QED
      BY <2>3, <3>2
  <2>5. Updating /\ Updating' /\ NamesListed
    BY <1>1, <1>2 DEF Updating, MutexState
  <2>6. /\ UNCHANGED <<up, registered, conn, rx, pc, mail, name_mtx, name_to_id_, id_, target,
                       raced, shrunk, listed, sends, shown>>
        /\ NamesListed'
    BY <1>2, <2>5 DEF server, hist, NamesListed
  <2>7. [name |-> n, id |-> i] \in listed
    BY <2>2, <2>5 DEF NamesListed
  <2> HIDE DEF i
  <2>8. TypeOK'
    BY <1>1, <2>4, <2>6 DEF TypeOK
  <2>9. StartState' /\ MutexState' /\ ChatState'
    BY <1>1, <2>5, <2>6 DEF StartState, MutexState, ChatState
  <2>10. IdsListed'
    BY <1>1, <2>2, <2>4, <2>6, <2>7 DEF IdsListed
  <2>11. CopyState'
    <3>1. IdsCopied => IdsCopied'
      BY <2>2, <2>4, <2>6 DEF IdsCopied, i
    <3> QED
      BY <1>1, <2>4, <2>6, <3>1 DEF CopyState
  <2>12. NoWrongSender' /\ SendTargetListedUnlessShrunk'
    BY <1>1, <2>6 DEF NoWrongSender, SendTargetListedUnlessShrunk, SendTargetListed
  <2>13. MapsAgreeUnlessRaced'
    BY <1>1, <2>5, <2>6 DEF MutexState, MapsAgreeUnlessRaced, MapsAgree
  <2> QED
    BY <1>1, <2>6, <2>8, <2>9, <2>10, <2>11, <2>12, <2>13 DEF AppInv
<1> DEFINE to == IF DOMAIN name_to_id_ = {} THEN "sleep" ELSE "print"
<1>3. CASE /\ Uncopied = {}
           /\ Goto("users", "emplace", to)
           /\ name_mtx' = "free"
           /\ UNCHANGED <<up, server, mail, name_to_id_, id_to_name_, id_, target, hist>>
  <2>1. to \in {"sleep", "print"}
    OBVIOUS
  <2> HIDE DEF to
  <2>2. /\ pc' \in ProgramCounters
        /\ pc["users"] = "emplace" /\ pc'["users"] = to
        /\ pc'["main"] = pc["main"] /\ pc'["msgs"] = pc["msgs"]
    BY <1>1, <1>3, <2>1, GotoUsers
  <2>3. UNCHANGED <<up, registered, conn, rx, mail, name_to_id_, id_to_name_, id_, target,
                    raced, shrunk, listed, sends, shown>>
    BY <1>3 DEF server, hist
  <2>4. TypeOK'
    BY <1>1, <1>3, <2>2, <2>3 DEF TypeOK
  <2>5. ~Updating' /\ (NamesListed' <=> NamesListed)
    BY <2>1, <2>2, <2>3 DEF Updating, NamesListed
  <2>6. StartState' /\ MutexState' /\ IdsListed' /\ ChatState' /\ CopyState'
    BY <1>1, <1>3, <2>1, <2>2, <2>3, <2>5
       DEF StartState, MutexState, IdsListed, ChatState, CopyState
  <2>7. NoWrongSender' /\ SendTargetListedUnlessShrunk'
    BY <1>1, <2>3 DEF NoWrongSender, SendTargetListedUnlessShrunk, SendTargetListed
  <2>8. ASSUME ~raced, ~shrunk
        PROVE  MapsAgree'
    <3>1. IdsCopied
      BY <1>1, <2>2, <2>8 DEF CopyState
    <3>2. \A n \in DOMAIN name_to_id_ : name_to_id_[n] \in DOMAIN id_to_name_
      BY <1>3 DEF Uncopied
    <3>3. DOMAIN id_to_name_ = {name_to_id_[n] : n \in DOMAIN name_to_id_}
      BY <3>1, <3>2 DEF IdsCopied
    <3> QED
      BY <2>3, <3>1, <3>3 DEF MapsAgree, IdsCopied
  <2>9. MapsAgreeUnlessRaced'
    BY <2>3, <2>8 DEF MapsAgreeUnlessRaced
  <2> QED
    BY <1>1, <2>3, <2>4, <2>6, <2>7, <2>9 DEF AppInv
<1> QED
  BY <1>2, <1>3 DEF EmplaceName

-----------------------------------------------------------------------------
(* The msgs thread.                                                        *)

\* A step of the msgs thread that leaves the maps alone.
LEMMA MsgsStep ==
  ASSUME AppInv, TypeOK',
         pc["msgs"] # "none",
         pc'["users"] = pc["users"], pc'["main"] = pc["main"],
         UNCHANGED <<registered, maps, target, shrunk, listed, sends>>,
         raced => raced',
         NoWrongSender',
         ~raced' /\ pc'["msgs"] = "subscript" => Head(mail') \in DOMAIN id_to_name_
  PROVE  AppInv'
<1>1. UNCHANGED <<name_mtx, name_to_id_, id_to_name_>>
  BY DEF maps
<1>2. (Updating' <=> Updating) /\ (NamesListed' <=> NamesListed)
  BY <1>1 DEF Updating, NamesListed
<1>3. StartState' /\ MutexState' /\ IdsListed' /\ ChatState'
  BY <1>1, <1>2 DEF AppInv, StartState, MutexState, IdsListed, ChatState
<1>4. CopyState'
  BY <1>1 DEF AppInv, CopyState, IdsCopied
<1>5. SendTargetListedUnlessShrunk' /\ MapsAgreeUnlessRaced'
  BY <1>1 DEF AppInv, SendTargetListedUnlessShrunk, SendTargetListed,
     MapsAgreeUnlessRaced, MapsAgree
<1> QED
  BY <1>3, <1>4, <1>5 DEF AppInv

LEMMA HandleRecvStep ==
  ASSUME AppInv, HandleRecv
  PROVE  AppInv'
<1>1. TypeOK /\ pc \in ProgramCounters /\ rx \in Contents /\ NoWrongSender
  BY DEF AppInv, TypeOK
<1>2. /\ Goto("msgs", "wait", "find")
      /\ mail' = rx.msgs
      /\ conn' = [conn EXCEPT !["msgs"] = "none"]
      /\ UNCHANGED <<up, registered, rx, maps, id_, target, hist>>
  BY DEF HandleRecv
<1>3. /\ pc' \in ProgramCounters
      /\ pc["msgs"] = "wait" /\ pc'["msgs"] = "find"
      /\ pc'["main"] = pc["main"] /\ pc'["users"] = pc["users"]
  BY <1>1, <1>2, GotoMsgs
<1>4. mail' \in Seq(Ids)
  BY <1>1, <1>2 DEF Contents
<1>5. TypeOK'
  BY <1>1, <1>2, <1>3, <1>4, ConnType, AnswerTypes DEF TypeOK, maps, hist
<1>6. NoWrongSender'
  BY <1>1, <1>2 DEF NoWrongSender, hist
<1> QED
  BY <1>2, <1>3, <1>5, <1>6, MsgsStep DEF hist

LEMMA FindSenderStep ==
  ASSUME AppInv, FindSender
  PROVE  AppInv'
<1>1. TypeOK /\ pc \in ProgramCounters /\ NoWrongSender /\ mail \in Seq(Ids)
  BY DEF AppInv, TypeOK
<1>2. /\ pc["msgs"] = "find"
      /\ raced' = (raced \/ (mail # << >> /\ Updating))
      /\ UNCHANGED <<up, registered, conn, rx, maps, id_, target, shrunk, listed, sends>>
  BY DEF FindSender, server
<1>3. raced' \in BOOLEAN
  BY <1>1, <1>2 DEF TypeOK
<1>4. CASE Goto("msgs", "find", "sleep") /\ shown' = {} /\ UNCHANGED mail
  <2>1. /\ pc' \in ProgramCounters
        /\ pc'["msgs"] = "sleep"
        /\ pc'["main"] = pc["main"] /\ pc'["users"] = pc["users"]
    BY <1>1, <1>4, GotoMsgs
  <2>2. TypeOK'
    BY <1>1, <1>2, <1>3, <1>4, <2>1 DEF TypeOK, maps
  <2>3. NoWrongSender'
    BY <1>4 DEF NoWrongSender
  <2> QED
    BY <1>2, <2>1, <2>2, <2>3, MsgsStep
<1>5. CASE /\ mail # << >>
           /\ Head(mail) \in DOMAIN id_to_name_
           /\ Goto("msgs", "find", "subscript")
           /\ UNCHANGED <<mail, shown>>
  <2>1. /\ pc' \in ProgramCounters
        /\ pc'["msgs"] = "subscript"
        /\ pc'["main"] = pc["main"] /\ pc'["users"] = pc["users"]
    BY <1>1, <1>5, GotoMsgs
  <2>2. TypeOK'
    BY <1>1, <1>2, <1>3, <1>5, <2>1 DEF TypeOK, maps
  <2>3. NoWrongSender'
    BY <1>1, <1>2, <1>5 DEF NoWrongSender
  <2> QED
    BY <1>2, <1>5, <2>1, <2>2, <2>3, MsgsStep
<1>6. CASE /\ mail # << >>
           /\ Show("unknown")
           /\ mail' = Tail(mail)
           /\ UNCHANGED pc
  <2>1. mail' \in Seq(Ids)
    BY <1>1, <1>6
  <2>2. TypeOK'
    BY <1>1, <1>2, <1>3, <1>6, <2>1 DEF TypeOK, maps
  <2>3. NoWrongSender'
    BY <1>6 DEF NoWrongSender, Show
  <2> QED
    BY <1>2, <1>6, <2>2, <2>3, MsgsStep
<1> QED
  BY <1>4, <1>5, <1>6 DEF FindSender

LEMMA SubscriptSenderStep ==
  ASSUME AppInv, SubscriptSender
  PROVE  AppInv'
<1>1. /\ TypeOK /\ StartState /\ ChatState /\ MutexState /\ CopyState /\ IdsListed
      /\ IsFiniteSet(registered) /\ SendTargetListedUnlessShrunk /\ MapsAgreeUnlessRaced
      /\ pc \in ProgramCounters /\ mail \in Seq(Ids)
      /\ id_to_name_ \in Partial(Ids, Usernames)
  BY DEF AppInv, TypeOK
<1> DEFINE h == Head(mail)
<1>2. /\ Goto("msgs", "subscript", "find")
      /\ raced' = (raced \/ Updating)
      /\ id_to_name_' = Subscript(id_to_name_, h, NoName)
      /\ shown' = {[name |-> id_to_name_'[h], sender |-> h]}
      /\ mail' = Tail(mail)
      /\ UNCHANGED <<up, registered, conn, rx, name_mtx, name_to_id_, id_, target,
                     shrunk, listed, sends>>
  BY DEF SubscriptSender, Show, server
<1>3. /\ pc' \in ProgramCounters
      /\ pc["msgs"] = "subscript" /\ pc'["msgs"] = "find"
      /\ pc'["main"] = pc["main"] /\ pc'["users"] = pc["users"]
  BY <1>1, <1>2, GotoMsgs
<1>4. mail # << >>
  BY <1>1, <1>3 DEF TypeOK
<1>5. h \in Ids /\ mail' \in Seq(Ids)
  BY <1>1, <1>2, <1>4
<1> HIDE DEF h
<1>6. /\ id_to_name_' \in Partial(Ids, Usernames)
      /\ DOMAIN id_to_name_' = DOMAIN id_to_name_ \cup {h}
      /\ h \in DOMAIN id_to_name_ => id_to_name_' = id_to_name_
      /\ h \notin DOMAIN id_to_name_ => id_to_name_'[h] = NoName
      /\ \A x \in DOMAIN id_to_name_ : id_to_name_'[x] = id_to_name_[x]
  <2>1. id_to_name_' \in Partial(Ids, Usernames)
    BY <1>1, <1>2, <1>5, EmptyName, SubscriptType
  <2>2. CASE h \in DOMAIN id_to_name_
    BY <1>2, <2>1, <2>2 DEF Subscript
  <2>3. CASE h \notin DOMAIN id_to_name_
    BY <1>2, <2>1, <2>3 DEF Subscript, Put
  <2> QED
    BY <2>2, <2>3
<1>7. TypeOK'
  <2>1. raced' \in BOOLEAN
    BY <1>1, <1>2 DEF TypeOK, Updating
  <2> QED
    BY <1>1, <1>2, <1>3, <1>5, <1>6, <2>1 DEF TypeOK
<1>8. (Updating' <=> Updating) /\ (NamesListed' <=> NamesListed)
  BY <1>2, <1>3 DEF Updating, NamesListed
<1>9. StartState' /\ MutexState' /\ ChatState'
  BY <1>1, <1>2, <1>3, <1>8 DEF StartState, MutexState, ChatState
<1>10. IdsListed'
  BY <1>1, <1>2, <1>6 DEF IdsListed
<1>11. NoWrongSender'
  <2>1. h \in DOMAIN id_to_name_'
    BY <1>6
  <2>2. id_to_name_'[h] # NoName => [name |-> id_to_name_'[h], id |-> h] \in listed'
    BY <1>10, <2>1 DEF IdsListed
  <2> QED
    BY <1>2, <2>2 DEF NoWrongSender
<1>12. ~raced' => ~raced /\ ~Updating /\ id_to_name_' = id_to_name_
  <2>1. ~raced' => ~raced /\ ~Updating
    BY <1>2
  <2>2. ~raced => h \in DOMAIN id_to_name_
    BY <1>1, <1>3 DEF CopyState, h
  <2> QED
    BY <1>6, <2>1, <2>2
<1>13. CopyState'
  BY <1>3, <1>12 DEF CopyState, Updating
<1>14. SendTargetListedUnlessShrunk' /\ MapsAgreeUnlessRaced'
  BY <1>1, <1>2, <1>12 DEF SendTargetListedUnlessShrunk, SendTargetListed,
     MapsAgreeUnlessRaced, MapsAgree
<1> QED
  BY <1>1, <1>2, <1>7, <1>9, <1>10, <1>11, <1>13, <1>14 DEF AppInv

-----------------------------------------------------------------------------
LEMMA AppInvariance == Spec => []AppInv
<1>1. AppInv /\ [Next]_vars => AppInv'
  <2>1. SUFFICES ASSUME AppInv, [Next]_vars PROVE AppInv'
    OBVIOUS
  <2>2. CASE OtherRegisters \/ Server
    BY <2>1, <2>2, OtherRegistersStep, ServeRegisterStep, ServeUsersStep, ServeRecvStep,
       ServeSendStep DEF Server
  <2>3. CASE Main
    BY <2>1, <2>3, SendRegisterStep, HandleRegisterStep, UserCommandStep, MainPrintStep,
       ChooseTargetStep, ChatMessageStep, HandleSendStep DEF Main
  <2>4. CASE UsersThread
    BY <2>1, <2>4, SendUsersStep, HandleUsersStep, CompareUsersStep, ClearNamesStep,
       EmplaceNameStep, UsersPrintStep DEF UsersThread
  <2>5. CASE MsgsThread
    BY <2>1, <2>5, SendRecvStep, HandleRecvStep, FindSenderStep, SubscriptSenderStep
       DEF MsgsThread
  <2>6. CASE UNCHANGED vars
    <3>1. UNCHANGED <<up, registered, conn, rx, pc, mail, maps, id_, target, hist>>
      BY <2>6 DEF vars, server
    <3>2. TypeOK' /\ StartState' /\ IsFiniteSet(registered')
      BY <2>1, <3>1 DEF AppInv, TypeOK, StartState, maps, hist
    <3> QED
      BY <2>1, <3>1, <3>2, FrameStep
  <2> QED
    BY <2>1, <2>2, <2>3, <2>4, <2>5, <2>6, CrashStep DEF Next
<1> QED
  BY <1>1, InitApp, PTL DEF Spec

\* The state of the three threads of App keeps its type for every number of
\* IDs, set of names and way in which the server may answer; a message is
\* there whenever periodicGetMessages subscripts id_to_name_.
THEOREM AppTypeCorrect == Spec => []TypeOK
BY AppInvariance, PTL DEF AppInv

\* periodicGetMessages shows no message under a name that the server has not
\* listed for its sender, although it reads id_to_name_ without name_mtx.
THEOREM NoWrongSenderTheorem == Spec => []NoWrongSender
BY AppInvariance, PTL DEF AppInv

\* taskChatWithUser sends to an ID listed for the chosen name, as long as no
\* list has dropped a user.
THEOREM SendTargetListedTheorem == Spec => []SendTargetListedUnlessShrunk
BY AppInvariance, PTL DEF AppInv

\* Without a race and a dropped user, name_to_id_ and id_to_name_ are inverse
\* to each other whenever name_mtx is free.
THEOREM MapsAgreeTheorem == Spec => []MapsAgreeUnlessRaced
BY AppInvariance, PTL DEF AppInv

=============================================================================
