----------------------------- MODULE Mcc_proofs -----------------------------
(* Proofs about Mcc, for every value of its constants.                     *)
EXTENDS Mcc, FiniteSetTheorems, SequenceTheorems, WellFoundedInduction, TLAPS

-----------------------------------------------------------------------------
(* Decoding a response.                                                    *)

\* A set of naturals below a bound has a largest element.
LEMMA LargestExists ==
  ASSUME NEW n \in Nat, NEW T, T \subseteq 1 .. n, T # {}
  PROVE  \E m \in T : \A j \in T : j <= m
<1> DEFINE R == OpToRel(<, Nat)
           U == {k \in Nat : \E j \in T : k = n - j}
<1>1. \A x, y \in Nat : <<x, y>> \in R <=> x < y
  BY DEF OpToRel
<1>2. IsWellFoundedOn(R, Nat)
  BY NatLessThanWellFounded
<1> HIDE DEF R
<1>3. \A j \in T : n - j \in U
  OBVIOUS
<1>4. U \subseteq Nat /\ U # {}
  BY <1>3
<1>5. PICK x \in U : \A y \in U : ~(<<y, x>> \in R)
  BY <1>2, <1>4, WFMin
<1>6. PICK m \in T : x = n - m
  OBVIOUS
<1>7. ASSUME NEW j \in T PROVE j <= m
  <2>1. ~(n - j < x) /\ n - j \in Nat /\ x \in Nat
    BY <1>1, <1>5, <1>3
  <2> QED
    BY <1>6, <2>1
<1> QED
  BY <1>7

LEMMA ZeroEntryType == ZeroEntry \in Entry /\ 0 \in Ids
BY IdCountAssumption DEF ZeroEntry, Entry, Ids

Buffers == [word : Nat, entries : Seq(Entry)]

LEMMA DecodedProperties ==
  ASSUME NEW b \in Buffers
  PROVE  /\ Decoded(b) \in Seq(Entry)
         /\ Len(Decoded(b)) = b.word
         /\ \A i \in 1 .. b.word :
              Decoded(b)[i] = IF i <= Len(b.entries) THEN b.entries[i] ELSE ZeroEntry
<1>1. b.word \in Nat /\ b.entries \in Seq(Entry)
  BY DEF Buffers
<1>2. ASSUME NEW i \in 1 .. b.word
      PROVE  (IF i <= Len(b.entries) THEN b.entries[i] ELSE ZeroEntry) \in Entry
  BY <1>1, ElementOfSeq, ZeroEntryType
<1>3. Decoded(b) =
        [i \in 1 .. b.word |-> IF i <= Len(b.entries) THEN b.entries[i] ELSE ZeroEntry]
  BY DEF Decoded
<1>4. Decoded(b) \in [1 .. b.word -> Entry]
  BY <1>2, <1>3
<1>5. Decoded(b) \in Seq(Entry) /\ Len(Decoded(b)) = b.word
  BY <1>1, <1>4
<1> QED
  BY <1>3, <1>5

LEMMA OverwriteProperties ==
  ASSUME NEW b \in Buffers, NEW r \in Responses
  PROVE  /\ Overwrite(b, r) \in Buffers
         /\ r.word # NotSent => Overwrite(b, r).word = r.word
         /\ r.entries # << >> => Overwrite(b, r).entries = r.entries
BY DEF Overwrite, Buffers, Responses, NotSent

\* A response whose count is right is decoded as it was encoded, whatever
\* the buffer held before.
LEMMA DecodedResponse ==
  ASSUME NEW b \in Buffers, NEW r \in Responses, r.word = Len(r.entries)
  PROVE  Decoded(Overwrite(b, r)) = r.entries
<1> DEFINE o == Overwrite(b, r)
           e == r.entries
<1>1. e \in Seq(Entry) /\ Len(e) \in Nat /\ r.word = Len(e)
  BY DEF Responses
<1>2. r.word # NotSent
  BY <1>1 DEF NotSent
<1>3. /\ o \in Buffers /\ o.word = Len(e)
      /\ e # << >> => o.entries = e
  BY <1>1, <1>2, OverwriteProperties
<1> HIDE DEF o, e
<1>4. /\ Decoded(o) \in Seq(Entry)
      /\ Len(Decoded(o)) = o.word
      /\ \A i \in 1 .. o.word :
           Decoded(o)[i] = IF i <= Len(o.entries) THEN o.entries[i] ELSE ZeroEntry
  BY <1>3, DecodedProperties
<1>5. ASSUME NEW i \in 1 .. Len(e)
      PROVE  Decoded(o)[i] = e[i]
  <2>1. e # << >>
    BY <1>1
  <2> QED
    BY <1>1, <1>3, <1>4, <2>1
<1>6. Decoded(o) = e
  BY <1>1, <1>3, <1>4, <1>5, SeqEqual
<1> QED
  BY <1>6 DEF o, e

\* Every name is mapped to the ID of an entry with that name.
LEMMA MappingProperties ==
  ASSUME NEW entries \in Seq(Entry), NEW n \in DOMAIN Mapping(entries)
  PROVE  \E k \in DOMAIN entries :
           entries[k].msg = n /\ Mapping(entries)[n] = entries[k].sender_id
<1>1. DOMAIN entries = 1 .. Len(entries) /\ Len(entries) \in Nat
  BY LenProperties
<1> DEFINE T == {k \in DOMAIN entries : entries[k].msg = n}
           Last(i) == /\ entries[i].msg = n
                      /\ \A j \in DOMAIN entries : entries[j].msg = n => j <= i
<1>2. n \in {entries[i].msg : i \in DOMAIN entries}
  BY DEF Mapping
<1>3. T \subseteq 1 .. Len(entries) /\ T # {}
  BY <1>1, <1>2
<1>4. PICK m \in T : \A j \in T : j <= m
  BY <1>1, <1>3, LargestExists
<1>5. \E i \in DOMAIN entries : Last(i)
  BY <1>4
<1> DEFINE last == CHOOSE i \in DOMAIN entries : Last(i)
<1>6. last \in DOMAIN entries /\ Last(last)
  BY <1>5
<1>7. Mapping(entries)[n] = entries[last].sender_id
  BY <1>2 DEF Mapping
<1> QED
  BY <1>6, <1>7

-----------------------------------------------------------------------------
(* Encoding a response.                                                    *)

LEMMA FiniteUsers ==
  ASSUME TypeOK
  PROVE  IsFiniteSet(DOMAIN user_map_) /\ Cardinality(DOMAIN user_map_) \in Nat
<1>1. IsFiniteSet(Ids)
  BY FS_Interval, IdCountAssumption DEF Ids
<1>2. DOMAIN user_map_ \in SUBSET Ids
  BY DEF TypeOK
<1> QED
  BY <1>1, <1>2, FS_Subset, FS_CardinalityType

\* The list of users has as many entries as the database has users, less the
\* requestor, and each is one of those users.
LEMMA ListingProperties ==
  ASSUME TypeOK, NEW s \in DOMAIN user_map_,
         NEW l \in Listings(UserEntries(OtherUsers(user_map_, s)))
  PROVE  /\ l \in Seq(Entry)
         /\ Len(l) = Cardinality(DOMAIN user_map_) - 1
         /\ \A k \in DOMAIN l :
              /\ l[k].sender_id \in DOMAIN user_map_ \ {s}
              /\ user_map_[l[k].sender_id].username = l[k].msg
<1> DEFINE D == DOMAIN user_map_ \ {s}
           E(i) == [sender_id |-> i, msg |-> user_map_[i].username]
           S == UserEntries(OtherUsers(user_map_, s))
           f == [i \in D |-> E(i)]
<1>1. IsFiniteSet(D) /\ Cardinality(D) = Cardinality(DOMAIN user_map_) - 1
  BY FiniteUsers, FS_RemoveElement
<1>2. \A e : e \in S <=> \E i \in D : e = E(i)
  <2> DEFINE V(i) == [user_id |-> i, username |-> user_map_[i].username]
  <2>1. \A i \in D : [sender_id |-> V(i).user_id, msg |-> V(i).username] = E(i)
    OBVIOUS
  <2>2. S = {[sender_id |-> u.user_id, msg |-> u.username] : u \in {V(i) : i \in D}}
    BY DEF UserEntries, OtherUsers
  <2> HIDE DEF S, D, E
  <2> QED
    BY <2>1, <2>2
<1>3. \A i \in D : E(i) \in Entry /\ i \in DOMAIN user_map_ \ {s}
  <2>1. SUFFICES ASSUME NEW i \in D
                 PROVE  E(i) \in Entry /\ i \in DOMAIN user_map_ \ {s}
    OBVIOUS
  <2>2. i \in Ids /\ user_map_[i] \in UserMetadata(Names \cup {NoName})
    BY DEF TypeOK
  <2>3. user_map_[i].username \in Names \cup {NoName}
    BY <2>2 DEF UserMetadata
  <2> QED
    BY <2>2, <2>3 DEF Entry
<1> HIDE DEF S, D
<1>4. f \in Surjection(D, S)
  BY <1>2 DEF Surjection
<1>5. f \in Injection(D, S)
  <2>1. \A i, j \in D : f[i] = f[j] => i = j
    OBVIOUS
  <2> HIDE DEF f
  <2> QED
    BY <1>4, <2>1 DEF Injection, IsInjective, Surjection
<1>6. Cardinality(S) = Cardinality(D) /\ Cardinality(S) \in Nat
  <2>1. IsFiniteSet(S) /\ Cardinality(S) = Cardinality(D)
    BY <1>1, <1>4, <1>5, FS_Surjection
  <2> QED
    BY <2>1, FS_CardinalityType
<1>7. l \in [1 .. Cardinality(S) -> S]
  BY DEF Listings, S
<1>8. S \subseteq Entry
  BY <1>2, <1>3
<1>9. l \in Seq(Entry) /\ Len(l) = Cardinality(S) /\ DOMAIN l = 1 .. Cardinality(S)
  BY <1>6, <1>7, <1>8
<1>10. ASSUME NEW k \in DOMAIN l
       PROVE  /\ l[k].sender_id \in DOMAIN user_map_ \ {s}
              /\ user_map_[l[k].sender_id].username = l[k].msg
  <2>1. PICK i \in D : l[k] = E(i)
    BY <1>2, <1>7, <1>9
  <2> QED
    BY <1>3, <2>1
<1> QED
  BY <1>1, <1>6, <1>9, <1>10

-----------------------------------------------------------------------------
(* The invariant.                                                          *)

ReqType ==
  [type : RequestTypes, source : Ids \cup {NoId}, target : Ids \cup {NoId},
   text : Names \cup Texts \cup {NoName}]

LEMMA NoRequestType == NoRequest \in ReqType /\ NoRequest.type = "none"
BY DEF NoRequest, Request, ReqType, RequestTypes

LEMMA RespValueType ==
  ASSUME NEW t \in {"none", "kRespRegister", "kRespUsers", "kRespSend", "kRespRecv"},
         NEW v \in 0 .. 2
  PROVE  /\ RespValue(t, v) \in Responses
         /\ RespValue(t, v).type = t /\ RespValue(t, v).value = v
<1>1. << >> \in Seq(Entry)
  BY EmptySeq
<1> QED
  BY <1>1 DEF RespValue, Response, Responses

LEMMA NoResponseType == NoResponse \in Responses /\ NoResponse.type = "none"
BY RespValueType DEF NoResponse

LEMMA InitMcc ==
  ASSUME Init
  PROVE  MccInv
<1>1. 0 \in Ids /\ << >> \in Seq(Entry)
  BY IdCountAssumption, EmptySeq DEF Ids
<1>2. /\ req \in [Clients -> ReqType] /\ \A c \in Clients : req[c].type = "none"
      /\ resp \in [Clients -> Responses] /\ \A c \in Clients : resp[c].type = "none"
  BY NoRequestType, NoResponseType DEF Init
<1>3. rx_buffer_ \in [Clients -> [word : Nat, entries : Seq(Entry)]]
  BY <1>1 DEF Init
<1>4. /\ DOMAIN user_map_ = {} /\ user_map_ \in [{} -> UserMetadata(Names \cup {NoName})]
      /\ DOMAIN name_to_id = Clients /\ \A c \in Clients : DOMAIN name_to_id[c] = {}
      /\ id \in [Clients -> Ids \cup {NoId}] /\ \A c \in Clients : id[c] = NoId
      /\ msgs \in [Clients -> Seq(Entry)] /\ \A c \in Clients : msgs[c] = << >>
  BY <1>1 DEF Init
<1>5. TypeOK
  BY <1>1, <1>2, <1>3, <1>4, MccAssumption DEF Init, TypeOK, ReqType
<1> QED
  BY <1>2, <1>4, <1>5 DEF MccInv, WireState, CallState, IdState, Own, FreshState,
     ListState, ListTrue, RecvState, UsersMapValid

\* What UsersMapValid says of client c.
MapTrue(c) ==
  \A n \in DOMAIN name_to_id[c] :
    /\ name_to_id[c][n] \in DOMAIN user_map_ \ {id[c]}
    /\ user_map_[name_to_id[c][n]].username = n

\* A step of one client's call keeps the invariant if it does so for that
\* client, takes no ID of another one, and removes and renames no user.
LEMMA CallStep ==
  ASSUME MccInv, TypeOK', NEW c \in Clients,
         restarts' = restarts,
         \A d \in Clients \ {c} :
           /\ req'[d] = req[d] /\ resp'[d] = resp[d] /\ id'[d] = id[d]
           /\ name_to_id'[d] = name_to_id[d] /\ msgs'[d] = msgs[d],
         DOMAIN user_map_ \subseteq DOMAIN user_map_',
         \A i \in DOMAIN user_map_ : user_map_'[i].username = user_map_[i].username,
         CallState(c)',
         Own(c)' \in {NoId, Own(c)} \cup (DOMAIN user_map_' \ DOMAIN user_map_),
         id'[c] = NoId => msgs'[c] = << >> /\ DOMAIN name_to_id'[c] = {},
         restarts = 0 => ListTrue(c)' /\ MapTrue(c)',
         restarts = 0 /\ resp'[c].type = "kRespRecv" => resp'[c].value = 0
  PROVE  MccInv'
<1>1. WireState /\ IdState /\ FreshState /\ ListState /\ RecvState /\ UsersMapValid
  BY DEF MccInv
<1>2. WireState'
  <2>1. \A d \in Clients \ {c} : CallState(d) => CallState(d)'
    BY DEF CallState
  <2> QED
    BY <1>1, <2>1 DEF WireState
<1>3. \A d \in Clients \ {c} : Own(d)' = Own(d)
  BY DEF Own
<1>4. IdState'
  BY <1>1, <1>3 DEF IdState
<1>5. FreshState'
  BY <1>1 DEF FreshState
<1>6. ListState'
  <2>1. ASSUME restarts = 0, NEW d \in Clients \ {c}
        PROVE  ListTrue(d)'
    BY <1>1, <2>1 DEF ListState, ListTrue
  <2> QED
    BY <2>1 DEF ListState
<1>7. RecvState'
  BY <1>1 DEF RecvState
<1>8. UsersMapValid'
  <2>1. ASSUME restarts = 0, NEW d \in Clients \ {c}
        PROVE  MapTrue(d)'
    BY <1>1, <2>1 DEF UsersMapValid, UserExists, MapTrue
  <2>2. restarts = 0 => \A d \in Clients : MapTrue(d)'
    BY <2>1
  <2> QED
    BY <2>2 DEF UsersMapValid, UserExists, MapTrue
<1> QED
  BY <1>2, <1>4, <1>5, <1>6, <1>7, <1>8 DEF MccInv

\* The parts of the invariant, for client c.
LEMMA ClientFacts ==
  ASSUME MccInv, NEW c \in Clients
  PROVE  /\ TypeOK
         /\ CallState(c)
         /\ id[c] = NoId => msgs[c] = << >> /\ DOMAIN name_to_id[c] = {}
         /\ restarts = 0 => ListTrue(c) /\ MapTrue(c)
         /\ restarts = 0 /\ Own(c) # NoId => Own(c) \in DOMAIN user_map_
         /\ restarts = 0 /\ resp[c].type = "kRespRecv" => resp[c].value = 0
BY DEF MccInv, WireState, FreshState, ListState, IdState, RecvState, UsersMapValid,
   UserExists, MapTrue

-----------------------------------------------------------------------------
(* Requests.                                                               *)

LEMMA EncodeStep ==
  ASSUME MccInv, NEW c \in Clients, Encode(c)
  PROVE  MccInv'
<1>1. /\ TypeOK /\ CallState(c)
      /\ id[c] = NoId => msgs[c] = << >> /\ DOMAIN name_to_id[c] = {}
      /\ restarts = 0 => ListTrue(c) /\ MapTrue(c)
      /\ restarts = 0 /\ resp[c].type = "kRespRecv" => resp[c].value = 0
  BY ClientFacts
<1>2. PICK r \in Requests(c) : req' = [req EXCEPT ![c] = r]
  BY DEF Encode
<1>3. /\ resp[c].type = "none"
      /\ late' = (IF restarts = 0 THEN late ELSE late + 1) /\ late' <= MaxLate
      /\ UNCHANGED <<up, next_id_, user_map_, accepted, restarts, resp, rx_buffer_, id,
                     name_to_id, msgs>>
  BY NoResponseType DEF Encode, db, client
<1>4. id[c] \in Ids \cup {NoId} /\ req \in [Clients -> ReqType] /\ late \in 0 .. MaxLate
  BY <1>1 DEF TypeOK, ReqType
<1>5. /\ r \in ReqType
      /\ r.type \in {"kRequestRegister", "proto"} => id[c] = NoId
      /\ r.type = "kRequestRegister" => r.text \in Names
      /\ r.type \in {"kRequestUsers", "kRequestSend", "kRequestRecv"} =>
           id[c] # NoId /\ r.source = id[c]
      /\ r.type = "kRequestSend" => r.target \in Ids /\ r.text \in Texts \cup {NoName}
  <2>1. CASE id[c] = NoId
    <3>1. PICK t \in {"kRequestRegister", "proto"}, n \in Names : r = Request(t, NoId, NoId, n)
      BY <1>2, <2>1 DEF Requests
    <3> QED
      BY <2>1, <3>1 DEF Request, ReqType, RequestTypes
  <2>2. CASE id[c] # NoId
    <3>1. CASE \E t \in {"kRequestUsers", "kRequestRecv"} : r = Request(t, id[c], NoId, NoName)
      BY <1>4, <2>2, <3>1 DEF Request, ReqType, RequestTypes
    <3>2. CASE \E i \in Ids, t \in Texts \cup {NoName} : r = Request("kRequestSend", id[c], i, t)
      BY <1>4, <2>2, <3>2 DEF Request, ReqType, RequestTypes
    <3> QED
      BY <1>2, <2>2, <3>1, <3>2 DEF Requests
  <2> QED
    BY <2>1, <2>2
<1>6. /\ req' \in [Clients -> ReqType] /\ req'[c] = r
      /\ \A d \in Clients \ {c} : req'[d] = req[d]
  BY <1>2, <1>4, <1>5
<1>7. late' \in 0 .. MaxLate
  BY <1>3, <1>4, MccAssumption
<1>8. TypeOK'
  BY <1>1, <1>3, <1>6, <1>7 DEF TypeOK, ReqType
<1>9. CallState(c)'
  BY <1>3, <1>5, <1>6 DEF CallState
<1>10. Own(c)' = Own(c) /\ (ListTrue(c)' <=> ListTrue(c)) /\ (MapTrue(c)' <=> MapTrue(c))
  BY <1>3 DEF Own, ListTrue, MapTrue
<1> QED
  BY <1>1, <1>3, <1>6, <1>8, <1>9, <1>10, CallStep

-----------------------------------------------------------------------------
(* MccServer.                                                              *)

LEMMA ParseFacts ==
  ASSUME MccInv, NEW c \in Clients, NEW type, type # "none", NEW r \in Responses,
         Parse(c, type, r)
  PROVE  /\ req[c].type = type /\ resp[c].type = "none"
         /\ req' \in [Clients -> ReqType] /\ resp' \in [Clients -> Responses]
         /\ req'[c].type = "none" /\ resp'[c] = r
         /\ \A d \in Clients \ {c} : req'[d] = req[d] /\ resp'[d] = resp[d]
<1>1. /\ req[c].type = type
      /\ resp' = [resp EXCEPT ![c] = r]
      /\ req' = [req EXCEPT ![c] = NoRequest]
  BY DEF Parse
<1>2. CallState(c) /\ req \in [Clients -> ReqType] /\ resp \in [Clients -> Responses]
  BY ClientFacts DEF TypeOK, ReqType
<1>3. resp[c].type = "none"
  BY <1>1, <1>2 DEF CallState
<1> QED
  BY <1>1, <1>2, <1>3, NoRequestType

\* A parse method that leaves the database's users as they are, and whose
\* answer r suits the request.
LEMMA ParseStep ==
  ASSUME MccInv, NEW c \in Clients, NEW type, type # "none", NEW r \in Responses,
         Parse(c, type, r), TypeOK',
         UNCHANGED <<restarts, client>>,
         DOMAIN user_map_ \subseteq DOMAIN user_map_',
         \A i \in DOMAIN user_map_ : user_map_'[i].username = user_map_[i].username,
         r.type = "kRespRegister" =>
           /\ id[c] = NoId
           /\ r.word \in Ids /\ r.word \in DOMAIN user_map_' \ DOMAIN user_map_,
         r.type \in {"kRespUsers", "kRespSend", "kRespRecv"} => id[c] # NoId,
         r.type = "kRespUsers" /\ r.value = 0 =>
           \A k \in DOMAIN r.entries :
             /\ r.entries[k].sender_id \in DOMAIN user_map_ \ {id[c]}
             /\ user_map_[r.entries[k].sender_id].username = r.entries[k].msg,
         restarts = 0 /\ r.type = "kRespRecv" => r.value = 0
  PROVE  MccInv'
<1>1. /\ req[c].type = type /\ resp[c].type = "none"
      /\ req'[c].type = "none" /\ resp'[c] = r
      /\ \A d \in Clients \ {c} : req'[d] = req[d] /\ resp'[d] = resp[d]
  BY ParseFacts
<1>2. /\ TypeOK /\ CallState(c)
      /\ id[c] = NoId => msgs[c] = << >> /\ DOMAIN name_to_id[c] = {}
      /\ restarts = 0 => MapTrue(c)
  BY ClientFacts
<1>3. UNCHANGED <<restarts, id, name_to_id, msgs>>
  BY DEF client
<1>4. CallState(c)'
  BY <1>1, <1>3 DEF CallState
<1>5. Own(c)' \in {NoId, Own(c)} \cup (DOMAIN user_map_' \ DOMAIN user_map_)
  BY <1>1, <1>3 DEF Own
<1>6. ListTrue(c)'
  BY <1>1, <1>3 DEF ListTrue
<1>7. MapTrue(c) => MapTrue(c)'
  BY <1>3 DEF MapTrue
<1> QED
  BY <1>1, <1>2, <1>3, <1>4, <1>5, <1>6, <1>7, CallStep

\* Database::registerUser adds one user, under an ID nobody has.
LEMMA RegisterUserFacts ==
  ASSUME TypeOK, NEW n \in Names \cup {NoName}, RegisterUser(n)
  PROVE  /\ next_id_ \in Ids /\ next_id_' \in Ids
         /\ next_id_ \in DOMAIN user_map_' \ DOMAIN user_map_
         /\ DOMAIN user_map_' = DOMAIN user_map_ \cup {next_id_}
         /\ DOMAIN user_map_' \subseteq Ids
         /\ user_map_' \in [DOMAIN user_map_' -> UserMetadata(Names \cup {NoName})]
         /\ user_map_'[next_id_].msg_q = << >>
         /\ \A i \in DOMAIN user_map_ : user_map_'[i] = user_map_[i]
<1>1. /\ next_id_ \in Ids /\ DOMAIN user_map_ \subseteq Ids
      /\ user_map_ \in [DOMAIN user_map_ -> UserMetadata(Names \cup {NoName})]
  BY DEF TypeOK
<1> DEFINE v == [username |-> n, msg_q |-> << >>]
<1>2. /\ next_id_ \notin DOMAIN user_map_
      /\ user_map_' = [i \in DOMAIN user_map_ \cup {next_id_} |->
                         IF i = next_id_ THEN v ELSE user_map_[i]]
      /\ next_id_' = Successor(next_id_)
  BY DEF RegisterUser, BeforeWrap, Store
<1>3. next_id_' \in Ids
  BY <1>1, <1>2, IdCountAssumption DEF Successor, Ids
<1>4. v \in UserMetadata(Names \cup {NoName}) /\ v.msg_q = << >>
  BY EmptySeq DEF UserMetadata
<1> HIDE DEF v
<1>5. /\ DOMAIN user_map_' = DOMAIN user_map_ \cup {next_id_}
      /\ user_map_'[next_id_] = v
      /\ \A i \in DOMAIN user_map_ : user_map_'[i] = user_map_[i]
  BY <1>2
<1>6. user_map_' \in [DOMAIN user_map_' -> UserMetadata(Names \cup {NoName})]
  BY <1>1, <1>2, <1>4, <1>5
<1> QED
  BY <1>1, <1>2, <1>3, <1>4, <1>5, <1>6

LEMMA RegisterStep ==
  ASSUME MccInv, NEW c \in Clients, NEW type \in {"kRequestRegister", "proto"},
         NEW n \in Names \cup {NoName}, RegisterUser(n),
         Parse(c, type, Response("kRespRegister", 0, next_id_, << >>)),
         UNCHANGED <<up, accepted, restarts, late, client>>
  PROVE  MccInv'
<1> DEFINE r == Response("kRespRegister", 0, next_id_, << >>)
<1>1. TypeOK /\ CallState(c)
  BY ClientFacts
<1>2. /\ next_id_ \in Ids /\ next_id_' \in Ids
      /\ next_id_ \in DOMAIN user_map_' \ DOMAIN user_map_
      /\ DOMAIN user_map_' = DOMAIN user_map_ \cup {next_id_}
      /\ DOMAIN user_map_' \subseteq Ids
      /\ user_map_' \in [DOMAIN user_map_' -> UserMetadata(Names \cup {NoName})]
      /\ \A i \in DOMAIN user_map_ : user_map_'[i] = user_map_[i]
  BY <1>1, RegisterUserFacts
<1>3. r \in Responses /\ r.type = "kRespRegister" /\ r.word = next_id_
  BY <1>2, EmptySeq DEF Response, Responses, Ids
<1> HIDE DEF r
<1>4. Parse(c, type, r) /\ type # "none"
  BY DEF r
<1>5. /\ req[c].type = type
      /\ req' \in [Clients -> ReqType] /\ resp' \in [Clients -> Responses]
      /\ resp'[c] = r
      /\ \A d \in Clients \ {c} : req'[d] = req[d] /\ resp'[d] = resp[d]
  BY <1>3, <1>4, ParseFacts
<1>6. TypeOK'
  <2>1. \A d \in Clients : resp'[d].type \in {"kRespUsers", "kRespRecv"} /\ resp'[d].value = 0 =>
          resp'[d].word = Len(resp'[d].entries)
    BY <1>1, <1>3, <1>5 DEF TypeOK
  <2>2. UNCHANGED <<up, accepted, restarts, late, rx_buffer_, id, name_to_id, msgs>>
    BY DEF client
  <2> QED
    BY <1>1, <1>2, <1>5, <2>1, <2>2 DEF TypeOK, ReqType
<1>7. id[c] = NoId
  BY <1>1, <1>5 DEF CallState
<1>8. /\ UNCHANGED <<restarts, client>> /\ DOMAIN user_map_ \subseteq DOMAIN user_map_'
      /\ \A i \in DOMAIN user_map_ : user_map_'[i].username = user_map_[i].username
      /\ r.word \in Ids /\ r.word \in DOMAIN user_map_' \ DOMAIN user_map_
      /\ r.type \notin {"kRespUsers", "kRespSend", "kRespRecv"}
      /\ r.type # "kRespUsers" /\ r.type # "kRespRecv"
  BY <1>2, <1>3
<1> QED
  BY <1>3, <1>4, <1>6, <1>7, <1>8, ParseStep

LEMMA ParseRequestRegisterStep ==
  ASSUME MccInv, NEW c \in Clients, ParseRequestRegister(c)
  PROVE  MccInv'
<1>1. /\ Parse(c, "kRequestRegister", Response("kRespRegister", 0, next_id_, << >>))
      /\ RegisterUser(req[c].text)
      /\ UNCHANGED <<up, accepted, restarts, late, client>>
  BY DEF ParseRequestRegister
<1>2. req[c].text \in Names \cup {NoName}
  BY <1>1, ClientFacts DEF Parse, CallState
<1> QED
  BY <1>1, <1>2, RegisterStep

LEMMA ParseRequestRegisterProtoStep ==
  ASSUME MccInv, NEW c \in Clients, ParseRequestRegisterProto(c)
  PROVE  MccInv'
<1>1. /\ Parse(c, "proto", Response("kRespRegister", 0, next_id_, << >>))
      /\ RegisterUser(NoName)
      /\ UNCHANGED <<up, accepted, restarts, late, client>>
  BY DEF ParseRequestRegisterProto
<1>2. NoName \in Names \cup {NoName}
  OBVIOUS
<1> QED
  BY <1>1, <1>2, RegisterStep

\* The responses without entries leave the database as it is.
LEMMA RespValueStep ==
  ASSUME MccInv, NEW c \in Clients,
         NEW type \in {"kRequestUsers", "kRequestSend", "kRequestRecv"},
         NEW t \in {"kRespUsers", "kRespSend", "kRespRecv"}, NEW v \in 0 .. 2,
         t \in {"kRespUsers", "kRespRecv"} => v # 0,
         t = "kRespRecv" => restarts # 0,
         Parse(c, type, RespValue(t, v)),
         UNCHANGED <<up, db, accepted, restarts, late, client>>
  PROVE  MccInv'
<1>1. TypeOK /\ CallState(c)
  BY ClientFacts
<1> DEFINE r == RespValue(t, v)
<1>2. r \in Responses /\ r.type = t /\ r.value = v
  BY RespValueType
<1> HIDE DEF r
<1>3. Parse(c, type, r) /\ type # "none"
  BY DEF r
<1>4. /\ req[c].type = type
      /\ req' \in [Clients -> ReqType] /\ resp' \in [Clients -> Responses]
      /\ resp'[c] = r
      /\ \A d \in Clients \ {c} : req'[d] = req[d] /\ resp'[d] = resp[d]
  BY <1>2, <1>3, ParseFacts
<1>5. TypeOK'
  BY <1>1, <1>2, <1>4 DEF TypeOK, ReqType, client, db
<1>6. id[c] # NoId
  BY <1>1, <1>4 DEF CallState
<1> QED
  BY <1>2, <1>3, <1>5, <1>6, ParseStep DEF db

LEMMA ParseRequestUsersStep ==
  ASSUME MccInv, NEW c \in Clients, ParseRequestUsers(c)
  PROVE  MccInv'
<1>1. TypeOK /\ CallState(c)
  BY ClientFacts
<1>2. UNCHANGED <<up, db, accepted, restarts, late, client>>
  BY DEF ParseRequestUsers
<1>3. CASE Parse(c, "kRequestUsers", RespValue("kRespUsers", 1))
  BY <1>2, <1>3, RespValueStep
<1> DEFINE n == Cardinality(DOMAIN user_map_) - 1
<1>4. ASSUME UserExists(user_map_, req[c].source),
             NEW l \in Listings(UserEntries(OtherUsers(user_map_, req[c].source))),
             Parse(c, "kRequestUsers", Response("kRespUsers", 0, n, l))
      PROVE  MccInv'
  <2> DEFINE r == Response("kRespUsers", 0, n, l)
  <2>1. req[c].source \in DOMAIN user_map_
    BY <1>4 DEF UserExists
  <2>2. /\ l \in Seq(Entry) /\ Len(l) = n
        /\ \A k \in DOMAIN l :
             /\ l[k].sender_id \in DOMAIN user_map_ \ {req[c].source}
             /\ user_map_[l[k].sender_id].username = l[k].msg
    BY <1>1, <1>4, <2>1, ListingProperties
  <2> HIDE DEF n
  <2>3. /\ r \in Responses /\ r.type = "kRespUsers" /\ r.value = 0
        /\ r.entries = l /\ r.word = Len(l)
    BY <2>2 DEF Response, Responses
  <2> HIDE DEF r
  <2>4. Parse(c, "kRequestUsers", r)
    BY <1>4 DEF r
  <2>5. /\ req[c].type = "kRequestUsers"
        /\ req' \in [Clients -> ReqType] /\ resp' \in [Clients -> Responses]
        /\ resp'[c] = r
        /\ \A d \in Clients \ {c} : req'[d] = req[d] /\ resp'[d] = resp[d]
    BY <2>3, <2>4, ParseFacts
  <2>6. id[c] # NoId /\ req[c].source = id[c]
    BY <1>1, <2>5 DEF CallState
  <2>7. TypeOK'
    BY <1>1, <1>2, <2>3, <2>5 DEF TypeOK, ReqType, client, db
  <2> QED
    BY <1>2, <2>2, <2>3, <2>4, <2>6, <2>7, ParseStep DEF db
<1> QED
  BY <1>3, <1>4 DEF ParseRequestUsers

\* Changing the queue of user i changes nothing else in the database.
LEMMA QueueFacts ==
  ASSUME TypeOK, NEW i \in DOMAIN user_map_, NEW q \in Seq(Msg),
         user_map_' = [user_map_ EXCEPT ![i].msg_q = q]
  PROVE  /\ DOMAIN user_map_' = DOMAIN user_map_
         /\ user_map_' \in [DOMAIN user_map_' -> UserMetadata(Names \cup {NoName})]
         /\ \A j \in DOMAIN user_map_ : user_map_'[j].username = user_map_[j].username
         /\ user_map_'[i].msg_q = q
         /\ \A j \in DOMAIN user_map_ \ {i} : user_map_'[j] = user_map_[j]
<1>1. user_map_ \in [DOMAIN user_map_ -> UserMetadata(Names \cup {NoName})]
  BY DEF TypeOK
<1>2. user_map_[i] \in UserMetadata(Names \cup {NoName})
  BY <1>1
<1> DEFINE v == [user_map_[i] EXCEPT !.msg_q = q]
<1>3. /\ v \in UserMetadata(Names \cup {NoName})
      /\ v.username = user_map_[i].username /\ v.msg_q = q
  BY <1>2 DEF UserMetadata
<1>4. user_map_' = [user_map_ EXCEPT ![i] = v]
  OBVIOUS
<1> HIDE DEF v
<1> QED
  BY <1>1, <1>3, <1>4

LEMMA ParseRequestSendStep ==
  ASSUME MccInv, NEW c \in Clients, ParseRequestSend(c)
  PROVE  MccInv'
<1>1. /\ TypeOK /\ CallState(c)
      /\ id[c] = NoId => msgs[c] = << >> /\ DOMAIN name_to_id[c] = {}
      /\ restarts = 0 => ListTrue(c) /\ MapTrue(c)
      /\ restarts = 0 /\ resp[c].type = "kRespRecv" => resp[c].value = 0
  BY ClientFacts
<1>2. ASSUME NEW v \in {1, 2},
             Parse(c, "kRequestSend", RespValue("kRespSend", v)),
             UNCHANGED <<user_map_, accepted>>,
             UNCHANGED <<up, next_id_, restarts, late, client>>
      PROVE  MccInv'
  BY <1>2, RespValueStep DEF db
<1>3. CASE /\ UserExists(user_map_, req[c].source)
           /\ UserExists(user_map_, req[c].target)
           /\ accepted < MaxMsgs
           /\ accepted' = accepted + 1
           /\ QueueMsg(req[c].target, [sender_id |-> req[c].source, msg |-> req[c].text])
           /\ Parse(c, "kRequestSend", RespValue("kRespSend", 0))
           /\ req[c].text # NoName
           /\ UNCHANGED <<up, next_id_, restarts, late, client>>
  <2> DEFINE r == RespValue("kRespSend", 0)
             i == req[c].target
             m == [sender_id |-> req[c].source, msg |-> req[c].text]
             q == Append(user_map_[i].msg_q, m)
  <2>1. r \in Responses /\ r.type = "kRespSend" /\ r.value = 0
    BY RespValueType
  <2> HIDE DEF r
  <2>2. Parse(c, "kRequestSend", r)
    BY <1>3 DEF r
  <2>3. /\ req[c].type = "kRequestSend"
        /\ req' \in [Clients -> ReqType] /\ resp' \in [Clients -> Responses]
        /\ resp'[c] = r
        /\ \A d \in Clients \ {c} : req'[d] = req[d] /\ resp'[d] = resp[d]
    BY <2>1, <2>2, ParseFacts
  <2>4. id[c] # NoId /\ req[c].source \in Ids /\ req[c].text \in Texts
    BY <1>1, <1>3, <2>3 DEF CallState, UserExists, TypeOK
  <2>5. i \in DOMAIN user_map_ /\ m \in Msg
    BY <1>3, <2>4 DEF UserExists, Msg
  <2>6. user_map_[i].msg_q \in Seq(Msg)
    BY <1>1, <2>5 DEF TypeOK, UserMetadata
  <2>7. q \in Seq(Msg) /\ user_map_' = [user_map_ EXCEPT ![i].msg_q = q]
    BY <1>3, <2>5, <2>6, AppendProperties DEF QueueMsg
  <2> HIDE DEF q, i, m
  <2>8. /\ DOMAIN user_map_' = DOMAIN user_map_
        /\ user_map_' \in [DOMAIN user_map_' -> UserMetadata(Names \cup {NoName})]
        /\ \A j \in DOMAIN user_map_ : user_map_'[j].username = user_map_[j].username
    BY <1>1, <2>5, <2>7, QueueFacts
  <2>9. accepted' \in 0 .. MaxMsgs
    BY <1>1, <1>3, MccAssumption DEF TypeOK
  <2>10. TypeOK'
    BY <1>1, <1>3, <2>1, <2>3, <2>8, <2>9 DEF TypeOK, ReqType, client
  <2> QED
    BY <1>3, <2>1, <2>2, <2>4, <2>8, <2>10, ParseStep
<1>4. CASE up' = FALSE /\ UNCHANGED <<db, accepted, restarts, late, wire, client>>
  <2>1. UNCHANGED <<next_id_, user_map_, accepted, restarts, late, req, resp, rx_buffer_, id,
                    name_to_id, msgs>>
    BY <1>4 DEF db, wire, client
  <2>2. TypeOK'
    BY <1>1, <1>4, <2>1 DEF TypeOK
  <2>3. /\ CallState(c)' <=> CallState(c)
        /\ Own(c)' = Own(c)
        /\ ListTrue(c)' <=> ListTrue(c)
        /\ MapTrue(c)' <=> MapTrue(c)
    BY <2>1 DEF CallState, Own, ListTrue, MapTrue
  <2> QED
    BY <1>1, <2>1, <2>2, <2>3, CallStep
<1> QED
  BY <1>2, <1>3, <1>4 DEF ParseRequestSend

LEMMA ParseRequestRecvStep ==
  ASSUME MccInv, NEW c \in Clients, ParseRequestRecv(c)
  PROVE  MccInv'
<1>1. /\ TypeOK /\ CallState(c)
      /\ restarts = 0 /\ Own(c) # NoId => Own(c) \in DOMAIN user_map_
  BY ClientFacts
<1>2. UNCHANGED <<up, next_id_, accepted, restarts, late, client>>
  BY DEF ParseRequestRecv
<1>3. ASSUME NEW r \in Responses, Parse(c, "kRequestRecv", r)
      PROVE  /\ req[c].type = "kRequestRecv"
             /\ id[c] # NoId /\ req[c].source = id[c] /\ Own(c) = id[c]
             /\ req' \in [Clients -> ReqType] /\ resp' \in [Clients -> Responses]
             /\ resp'[c] = r
             /\ \A d \in Clients \ {c} : req'[d] = req[d] /\ resp'[d] = resp[d]
  <2>1. /\ req[c].type = "kRequestRecv" /\ resp[c].type = "none"
        /\ req' \in [Clients -> ReqType] /\ resp' \in [Clients -> Responses]
        /\ resp'[c] = r
        /\ \A d \in Clients \ {c} : req'[d] = req[d] /\ resp'[d] = resp[d]
    BY <1>3, ParseFacts
  <2> QED
    BY <1>1, <2>1 DEF CallState, Own
<1>4. CASE /\ ~UserExists(user_map_, req[c].source)
           /\ Parse(c, "kRequestRecv", RespValue("kRespRecv", 1))
           /\ UNCHANGED user_map_
  <2>1. RespValue("kRespRecv", 1) \in Responses
    BY RespValueType
  <2>2. restarts # 0
    BY <1>1, <1>3, <1>4, <2>1 DEF UserExists
  <2> QED
    BY <1>2, <1>4, <2>2, RespValueStep DEF db
<1> DEFINE s == req[c].source
           q == user_map_[s].msg_q
<1>5. CASE /\ UserExists(user_map_, s)
           /\ Parse(c, "kRequestRecv", Response("kRespRecv", 0, Len(q), q))
           /\ user_map_' = [user_map_ EXCEPT ![s].msg_q = << >>]
  <2> DEFINE r == Response("kRespRecv", 0, Len(q), q)
  <2>1. s \in DOMAIN user_map_
    BY <1>5 DEF UserExists
  <2>2. q \in Seq(Msg) /\ Len(q) \in Nat
    BY <1>1, <2>1 DEF TypeOK, UserMetadata
  <2>3. q \in Seq(Entry)
    <3>1. Msg \subseteq Entry
      BY DEF Msg, Entry
    <3> QED
      BY <2>2, <3>1
  <2> HIDE DEF q
  <2>4. /\ r \in Responses /\ r.type = "kRespRecv" /\ r.value = 0
        /\ r.word = Len(r.entries)
    BY <2>2, <2>3 DEF Response, Responses
  <2> HIDE DEF r
  <2>5. Parse(c, "kRequestRecv", r)
    BY <1>5 DEF r
  <2>6. /\ id[c] # NoId
        /\ req' \in [Clients -> ReqType] /\ resp' \in [Clients -> Responses]
        /\ resp'[c] = r
        /\ \A d \in Clients \ {c} : req'[d] = req[d] /\ resp'[d] = resp[d]
    BY <1>3, <2>4, <2>5
  <2> DEFINE e == << >>
  <2>7. e \in Seq(Msg) /\ user_map_' = [user_map_ EXCEPT ![s].msg_q = e]
    BY <1>5, EmptySeq
  <2> HIDE DEF e
  <2>8. /\ DOMAIN user_map_' = DOMAIN user_map_
        /\ user_map_' \in [DOMAIN user_map_' -> UserMetadata(Names \cup {NoName})]
        /\ \A j \in DOMAIN user_map_ : user_map_'[j].username = user_map_[j].username
    BY <1>1, <2>1, <2>7, QueueFacts
  <2>9. TypeOK'
    BY <1>1, <1>2, <2>4, <2>6, <2>8 DEF TypeOK, ReqType, client
  <2> QED
    BY <1>2, <2>4, <2>5, <2>6, <2>8, <2>9, ParseStep
<1> QED
  BY <1>4, <1>5 DEF ParseRequestRecv

LEMMA RestartStep ==
  ASSUME MccInv, Restart
  PROVE  MccInv'
<1>1. TypeOK /\ FreshState /\ restarts \in 0 .. MaxRestarts
  BY DEF MccInv, TypeOK
<1>2. /\ restarts < MaxRestarts /\ restarts' = restarts + 1
      /\ up' = TRUE /\ next_id_' = 0
      /\ user_map_' = [i \in {} |-> DefaultMetadata]
      /\ req' = [c \in Clients |-> NoRequest] /\ resp' = [c \in Clients |-> NoResponse]
      /\ UNCHANGED <<accepted, late, rx_buffer_, id, name_to_id, msgs>>
  BY DEF Restart, client
<1>3. restarts' \in 0 .. MaxRestarts /\ restarts' # 0
  BY <1>1, <1>2, MccAssumption
<1>4. /\ req' \in [Clients -> ReqType] /\ \A c \in Clients : req'[c].type = "none"
      /\ resp' \in [Clients -> Responses] /\ \A c \in Clients : resp'[c].type = "none"
  BY <1>2, NoRequestType, NoResponseType
<1>5. DOMAIN user_map_' = {} /\ user_map_' \in [{} -> UserMetadata(Names \cup {NoName})]
  BY <1>2
<1>6. 0 \in Ids
  BY IdCountAssumption DEF Ids
<1>7. TypeOK'
  BY <1>1, <1>2, <1>3, <1>4, <1>5, <1>6 DEF TypeOK, ReqType
<1>8. WireState' /\ FreshState'
  BY <1>1, <1>2, <1>4 DEF WireState, CallState, FreshState
<1> QED
  BY <1>3, <1>7, <1>8 DEF MccInv, IdState, ListState, RecvState, UsersMapValid

LEMMA DisconnectStep ==
  ASSUME MccInv, NEW c \in Clients, Disconnect(c)
  PROVE  MccInv'
<1>1. /\ TypeOK /\ CallState(c)
      /\ id[c] = NoId => msgs[c] = << >> /\ DOMAIN name_to_id[c] = {}
      /\ restarts = 0 => ListTrue(c) /\ MapTrue(c)
  BY ClientFacts
<1>2. /\ req' = [req EXCEPT ![c] = NoRequest] /\ resp' = [resp EXCEPT ![c] = NoResponse]
      /\ UNCHANGED <<up, next_id_, user_map_, accepted, restarts, late, rx_buffer_, id,
                     name_to_id, msgs>>
  BY DEF Disconnect, db, client
<1>3. req \in [Clients -> ReqType] /\ resp \in [Clients -> Responses]
  BY <1>1 DEF TypeOK, ReqType
<1>4. /\ req' \in [Clients -> ReqType] /\ resp' \in [Clients -> Responses]
      /\ req'[c].type = "none" /\ resp'[c].type = "none"
      /\ \A d \in Clients \ {c} : req'[d] = req[d] /\ resp'[d] = resp[d]
  BY <1>2, <1>3, NoRequestType, NoResponseType
<1>5. TypeOK'
  BY <1>1, <1>2, <1>4 DEF TypeOK, ReqType
<1>6. CallState(c)' /\ ListTrue(c)'
  BY <1>4 DEF CallState, ListTrue
<1>7. Own(c)' \in {NoId, Own(c)}
  BY <1>1, <1>2, <1>4 DEF Own, CallState
<1>8. MapTrue(c) => MapTrue(c)'
  BY <1>2 DEF MapTrue
<1> QED
  BY <1>1, <1>2, <1>4, <1>5, <1>6, <1>7, <1>8, CallStep

-----------------------------------------------------------------------------
(* Responses.                                                              *)

LEMMA ReturnFacts ==
  ASSUME MccInv, NEW c \in Clients, NEW type, type # "none", Return(c, type)
  PROVE  /\ resp[c] \in Responses /\ resp[c].type = type /\ req[c].type = "none"
         /\ rx_buffer_[c] \in Buffers
         /\ rx_buffer_' \in [Clients -> Buffers]
         /\ rx_buffer_'[c] = Overwrite(rx_buffer_[c], resp[c])
         /\ rx_buffer_'[c] \in Buffers
         /\ resp' \in [Clients -> Responses] /\ resp'[c].type = "none"
         /\ \A d \in Clients \ {c} : resp'[d] = resp[d]
         /\ UNCHANGED <<up, next_id_, user_map_, accepted, restarts, late, req>>
<1>1. TypeOK /\ CallState(c)
  BY ClientFacts
<1>2. resp \in [Clients -> Responses] /\ rx_buffer_ \in [Clients -> Buffers]
  BY <1>1 DEF TypeOK, Buffers
<1>3. /\ resp[c].type = type
      /\ rx_buffer_' = [rx_buffer_ EXCEPT ![c] = Overwrite(rx_buffer_[c], resp[c])]
      /\ resp' = [resp EXCEPT ![c] = NoResponse]
      /\ UNCHANGED <<up, next_id_, user_map_, accepted, restarts, late, req>>
  BY DEF Return, db
<1>4. req[c].type = "none"
  BY <1>1, <1>3 DEF CallState
<1>5. rx_buffer_[c] \in Buffers /\ resp[c] \in Responses
  BY <1>2
<1>6. Overwrite(rx_buffer_[c], resp[c]) \in Buffers
  BY <1>5, OverwriteProperties
<1>7. NoResponse \in Responses /\ NoResponse.type = "none"
  BY NoResponseType
<1>8. /\ rx_buffer_' \in [Clients -> Buffers]
      /\ rx_buffer_'[c] = Overwrite(rx_buffer_[c], resp[c])
  BY <1>2, <1>3, <1>6
<1>9. /\ resp' \in [Clients -> Responses] /\ resp'[c] = NoResponse
      /\ \A d \in Clients \ {c} : resp'[d] = resp[d]
  BY <1>2, <1>3, <1>7
<1> QED
  BY <1>3, <1>4, <1>5, <1>6, <1>7, <1>8, <1>9

\* A handler of a response changes the client's own state only.
LEMMA HandlerStep ==
  ASSUME MccInv, NEW c \in Clients, NEW type, type # "none", Return(c, type),
         id' \in [Clients -> Ids \cup {NoId}],
         msgs' \in [Clients -> Seq(Entry)],
         DOMAIN name_to_id' = Clients,
         \A n \in DOMAIN name_to_id'[c] : name_to_id'[c][n] \in Ids,
         \A d \in Clients \ {c} :
           id'[d] = id[d] /\ name_to_id'[d] = name_to_id[d] /\ msgs'[d] = msgs[d],
         id'[c] = Own(c), id'[c] # NoId,
         restarts = 0 => MapTrue(c)'
  PROVE  MccInv'
<1>1. /\ resp' \in [Clients -> Responses] /\ resp'[c].type = "none" /\ req[c].type = "none"
      /\ \A d \in Clients \ {c} : resp'[d] = resp[d]
      /\ rx_buffer_' \in [Clients -> Buffers]
      /\ UNCHANGED <<up, next_id_, user_map_, accepted, restarts, late, req>>
  BY ReturnFacts
<1>2. TypeOK
  BY ClientFacts
<1>3. \A d \in Clients : \A n \in DOMAIN name_to_id'[d] : name_to_id'[d][n] \in Ids
  BY <1>2 DEF TypeOK
<1>4. \A d \in Clients :
        resp'[d].type \in {"kRespUsers", "kRespRecv"} /\ resp'[d].value = 0 =>
          resp'[d].word = Len(resp'[d].entries)
  BY <1>1, <1>2 DEF TypeOK
<1>5. TypeOK'
  BY <1>1, <1>2, <1>3, <1>4 DEF TypeOK, Buffers
<1>6. CallState(c)' /\ ListTrue(c)'
  BY <1>1 DEF CallState, ListTrue
<1>7. Own(c)' = Own(c)
  BY <1>1 DEF Own
<1> QED
  BY <1>1, <1>5, <1>6, <1>7, CallStep

LEMMA HandleRespRegisterStep ==
  ASSUME MccInv, NEW c \in Clients, HandleRespRegister(c)
  PROVE  MccInv'
<1>1. /\ Return(c, "kRespRegister")
      /\ id' = [id EXCEPT ![c] = rx_buffer_'[c].word]
      /\ UNCHANGED <<name_to_id, msgs>>
  BY DEF HandleRespRegister
<1>2. /\ TypeOK /\ CallState(c)
      /\ id[c] = NoId => msgs[c] = << >> /\ DOMAIN name_to_id[c] = {}
  BY ClientFacts
<1>3. /\ resp[c] \in Responses /\ resp[c].type = "kRespRegister"
      /\ rx_buffer_[c] \in Buffers
      /\ rx_buffer_'[c] = Overwrite(rx_buffer_[c], resp[c])
  BY <1>1, ReturnFacts
<1>4. id[c] = NoId /\ resp[c].word \in Ids /\ resp[c].word # NotSent
  BY <1>2, <1>3, IdCountAssumption DEF CallState, NotSent, Ids
<1>5. rx_buffer_'[c].word = resp[c].word
  BY <1>3, <1>4, OverwriteProperties
<1>6. /\ id' \in [Clients -> Ids \cup {NoId}] /\ id'[c] = resp[c].word
      /\ \A d \in Clients \ {c} : id'[d] = id[d]
  BY <1>1, <1>2, <1>4, <1>5 DEF TypeOK
<1>7. id'[c] = Own(c) /\ id'[c] # NoId
  BY <1>3, <1>4, <1>6, MccAssumption DEF Own
<1>8. MapTrue(c)'
  BY <1>1, <1>2, <1>4 DEF MapTrue
<1>9. /\ msgs' \in [Clients -> Seq(Entry)] /\ DOMAIN name_to_id' = Clients
      /\ \A n \in DOMAIN name_to_id'[c] : name_to_id'[c][n] \in Ids
  BY <1>1, <1>2 DEF TypeOK
<1> QED
  BY <1>1, <1>6, <1>7, <1>8, <1>9, HandlerStep

\* The map is filled from the entries of the response, which are still true.
LEMMA HandleRespUsersStep ==
  ASSUME MccInv, NEW c \in Clients, HandleRespUsers(c)
  PROVE  MccInv'
<1>1. /\ Return(c, "kRespUsers")
      /\ name_to_id' = IF resp[c].value # 0 THEN name_to_id
                       ELSE [name_to_id EXCEPT ![c] = Mapping(Decoded(rx_buffer_'[c]))]
      /\ UNCHANGED <<id, msgs>>
  BY DEF HandleRespUsers
<1>2. /\ TypeOK /\ CallState(c)
      /\ restarts = 0 => ListTrue(c) /\ MapTrue(c)
  BY ClientFacts
<1>3. /\ resp[c] \in Responses /\ resp[c].type = "kRespUsers"
      /\ rx_buffer_[c] \in Buffers
      /\ rx_buffer_'[c] = Overwrite(rx_buffer_[c], resp[c])
      /\ UNCHANGED <<user_map_, restarts>>
  BY <1>1, ReturnFacts
<1>4. /\ id'[c] = Own(c) /\ id'[c] # NoId
      /\ id' \in [Clients -> Ids \cup {NoId}] /\ msgs' \in [Clients -> Seq(Entry)]
      /\ DOMAIN name_to_id = Clients
      /\ \A n \in DOMAIN name_to_id[c] : name_to_id[c][n] \in Ids
  BY <1>1, <1>2, <1>3 DEF CallState, Own, TypeOK
<1>5. CASE resp[c].value # 0
  <2>1. name_to_id' = name_to_id
    BY <1>1, <1>5
  <2>2. MapTrue(c) => MapTrue(c)'
    BY <1>1, <1>3, <2>1 DEF MapTrue
  <2> QED
    BY <1>1, <1>2, <1>4, <2>1, <2>2, HandlerStep
<1>6. CASE resp[c].value = 0
  <2> DEFINE e == resp[c].entries
  <2>1. resp[c].word = Len(e) /\ e \in Seq(Entry)
    BY <1>2, <1>3, <1>6 DEF TypeOK, Responses
  <2>2. Decoded(rx_buffer_'[c]) = e
    BY <1>3, <2>1, DecodedResponse
  <2> HIDE DEF e
  <2>3. /\ DOMAIN name_to_id' = Clients /\ name_to_id'[c] = Mapping(e)
        /\ \A d \in Clients \ {c} : name_to_id'[d] = name_to_id[d]
    BY <1>1, <1>4, <1>6, <2>2
  <2>4. ASSUME NEW n \in DOMAIN name_to_id'[c]
        PROVE  \E k \in DOMAIN e : e[k].msg = n /\ name_to_id'[c][n] = e[k].sender_id
    BY <2>1, <2>3, MappingProperties
  <2>5. \A k \in DOMAIN e : e[k].sender_id \in Ids
    <3>1. \A k \in DOMAIN e : e[k] \in Entry
      BY <2>1
    <3> QED
      BY <3>1 DEF Entry
  <2>6. \A n \in DOMAIN name_to_id'[c] : name_to_id'[c][n] \in Ids
    BY <2>4, <2>5
  <2>7. ASSUME restarts = 0 PROVE MapTrue(c)'
    <3>1. \A k \in DOMAIN e :
            /\ e[k].sender_id \in DOMAIN user_map_ \ {id[c]}
            /\ user_map_[e[k].sender_id].username = e[k].msg
      BY <1>2, <1>3, <1>6, <2>7 DEF ListTrue, e
    <3> QED
      BY <1>1, <1>3, <2>4, <3>1 DEF MapTrue
  <2> QED
    BY <1>1, <1>4, <2>3, <2>6, <2>7, HandlerStep
<1> QED
  BY <1>5, <1>6

LEMMA HandleRespSendStep ==
  ASSUME MccInv, NEW c \in Clients, HandleRespSend(c)
  PROVE  MccInv'
<1>1. Return(c, "kRespSend") /\ UNCHANGED <<id, name_to_id, msgs>>
  BY DEF HandleRespSend
<1>2. /\ TypeOK /\ CallState(c)
      /\ restarts = 0 => MapTrue(c)
  BY ClientFacts
<1>3. resp[c].type = "kRespSend" /\ UNCHANGED user_map_
  BY <1>1, ReturnFacts
<1>4. /\ id'[c] = Own(c) /\ id'[c] # NoId
      /\ id' \in [Clients -> Ids \cup {NoId}] /\ msgs' \in [Clients -> Seq(Entry)]
      /\ DOMAIN name_to_id' = Clients
      /\ \A n \in DOMAIN name_to_id'[c] : name_to_id'[c][n] \in Ids
  BY <1>1, <1>2, <1>3 DEF CallState, Own, TypeOK
<1>5. MapTrue(c) => MapTrue(c)'
  BY <1>1, <1>3 DEF MapTrue
<1> QED
  BY <1>1, <1>2, <1>4, <1>5, HandlerStep

LEMMA HandleRespRecvStep ==
  ASSUME MccInv, NEW c \in Clients, HandleRespRecv(c)
  PROVE  MccInv'
<1> DEFINE e == Decoded(rx_buffer_'[c])
<1>1. /\ Return(c, "kRespRecv")
      /\ msgs' = [msgs EXCEPT ![c] = msgs[c] \o e]
      /\ UNCHANGED <<id, name_to_id>>
  BY DEF HandleRespRecv
<1>2. /\ TypeOK /\ CallState(c)
      /\ restarts = 0 => MapTrue(c)
  BY ClientFacts
<1>3. /\ resp[c].type = "kRespRecv" /\ UNCHANGED user_map_
      /\ rx_buffer_'[c] \in Buffers
  BY <1>1, ReturnFacts
<1>4. e \in Seq(Entry)
  BY <1>3, DecodedProperties
<1> HIDE DEF e
<1>5. msgs \in [Clients -> Seq(Entry)] /\ msgs[c] \o e \in Seq(Entry)
  BY <1>2, <1>4, ConcatProperties DEF TypeOK
<1>6. msgs' \in [Clients -> Seq(Entry)] /\ \A d \in Clients \ {c} : msgs'[d] = msgs[d]
  BY <1>1, <1>5
<1>7. /\ id'[c] = Own(c) /\ id'[c] # NoId
      /\ id' \in [Clients -> Ids \cup {NoId}]
      /\ DOMAIN name_to_id' = Clients
      /\ \A n \in DOMAIN name_to_id'[c] : name_to_id'[c][n] \in Ids
  BY <1>1, <1>2, <1>3 DEF CallState, Own, TypeOK
<1>8. MapTrue(c) => MapTrue(c)'
  BY <1>1, <1>3 DEF MapTrue
<1> QED
  BY <1>1, <1>2, <1>6, <1>7, <1>8, HandlerStep

\* Stuttering changes nothing the invariant speaks of.
LEMMA MccStutter ==
  ASSUME MccInv, UNCHANGED vars
  PROVE  MccInv'
<1>1. UNCHANGED <<up, next_id_, user_map_, accepted, restarts, late, req, resp, rx_buffer_,
                  id, name_to_id, msgs>>
  BY DEF vars, db, wire, client
<1>2. TypeOK'
  BY <1>1 DEF MccInv, TypeOK
<1>3. WireState' /\ FreshState' /\ RecvState'
  BY <1>1 DEF MccInv, WireState, CallState, FreshState, RecvState
<1>4. IdState'
  BY <1>1 DEF MccInv, IdState, Own
<1>5. ListState'
  BY <1>1 DEF MccInv, ListState, ListTrue
<1>6. UsersMapValid'
  BY <1>1 DEF MccInv, UsersMapValid
<1> QED
  BY <1>2, <1>3, <1>4, <1>5, <1>6 DEF MccInv

\* The steps of one client.
CallActions(c) ==
  \/ Encode(c)
  \/ ParseRequestRegister(c) \/ ParseRequestRegisterProto(c)
  \/ ParseRequestUsers(c) \/ ParseRequestSend(c) \/ ParseRequestRecv(c)
  \/ HandleRespRegister(c) \/ HandleRespUsers(c)
  \/ HandleRespSend(c) \/ HandleRespRecv(c)
  \/ Disconnect(c)

LEMMA NextMcc ==
  ASSUME MccInv, [Next]_vars
  PROVE  MccInv'
<1>1. CASE Restart
  BY <1>1, RestartStep
<1>2. ASSUME NEW c \in Clients, CallActions(c)
      PROVE  MccInv'
  BY <1>2, EncodeStep, ParseRequestRegisterStep, ParseRequestRegisterProtoStep,
     ParseRequestUsersStep, ParseRequestSendStep, ParseRequestRecvStep,
     HandleRespRegisterStep, HandleRespUsersStep, HandleRespSendStep, HandleRespRecvStep,
     DisconnectStep DEF CallActions
<1>3. CASE UNCHANGED vars
  BY <1>3, MccStutter
<1> QED
  BY <1>1, <1>2, <1>3 DEF Next, CallActions

\* The invariant of the protocol between MccClient and MccServer.
THEOREM MccInvariance == Spec => []MccInv
<1>1. Init => MccInv
  BY InitMcc
<1>2. MccInv /\ [Next]_vars => MccInv'
  BY NextMcc
<1> QED
  BY <1>1, <1>2, PTL DEF Spec

\* Responses answer the request that was sent, and the number of entries a
\* parse method writes is the number of entries that follow it.
THEOREM MccTypeCorrect == Spec => []TypeOK
<1>1. MccInv => TypeOK
  BY DEF MccInv
<1> QED
  BY <1>1, MccInvariance, PTL

\* The map that handleRespUsers fills lists users of the database under their
\* names, and never the client itself, however the calls interleave.
THEOREM UsersMapValidTheorem == Spec => []UsersMapValid
<1>1. MccInv => UsersMapValid
  BY DEF MccInv
<1> QED
  BY <1>1, MccInvariance, PTL

-----------------------------------------------------------------------------
(* The refinement.  Until the first restart at most one client holds an    *)
(* ID, and the abstract box of that ID is the batch on its way to the      *)
(* client followed by the queue in the database.                           *)

LEMMA MoveFromConcat ==
  ASSUME NEW S, NEW s \in Seq(S), NEW t \in Seq(S)
  PROVE  /\ SubSeq(s \o t, 1, Len(s)) = s
         /\ SubSeq(s \o t, Len(s) + 1, Len(s \o t)) = t
<1> DEFINE u == s \o t
           a == SubSeq(u, 1, Len(s))
           b == SubSeq(u, Len(s) + 1, Len(u))
<1>1. Len(s) \in Nat /\ Len(t) \in Nat
  OBVIOUS
<1>2. /\ u \in Seq(S) /\ Len(u) = Len(s) + Len(t)
      /\ \A i \in 1 .. Len(u) : u[i] = IF i <= Len(s) THEN s[i] ELSE t[i - Len(s)]
  BY ConcatProperties
<1> HIDE DEF u
<1>3. \A i \in 1 .. Len(u) : u[i] \in S
  BY <1>2, ElementOfSeq
<1>4. /\ a \in Seq(S) /\ Len(a) = Len(s)
      /\ \A i \in 1 .. Len(s) : a[i] = u[i]
  <2>1. \A i \in 1 .. Len(s) : u[i] \in S
    BY <1>1, <1>2, <1>3
  <2>2. /\ a \in Seq(S) /\ Len(a) = (IF 1 <= Len(s) THEN Len(s) - 1 + 1 ELSE 0)
        /\ \A i \in 1 .. Len(s) - 1 + 1 : a[i] = u[1 + i - 1]
    BY <1>1, <2>1, SubSeqProperties
  <2> QED
    BY <1>1, <2>2
<1>5. /\ b \in Seq(S) /\ Len(b) = Len(t)
      /\ \A i \in 1 .. Len(t) : b[i] = u[Len(s) + i]
  <2>1. \A i \in Len(s) + 1 .. Len(u) : u[i] \in S
    BY <1>1, <1>3
  <2>2. /\ b \in Seq(S)
        /\ Len(b) = (IF Len(s) + 1 <= Len(u) THEN Len(u) - (Len(s) + 1) + 1 ELSE 0)
        /\ \A i \in 1 .. Len(u) - (Len(s) + 1) + 1 : b[i] = u[(Len(s) + 1) + i - 1]
    BY <1>1, <1>2, <2>1, SubSeqProperties
  <2> QED
    BY <1>1, <1>2, <2>2
<1> HIDE DEF a, b
<1>6. a = s
  BY <1>1, <1>2, <1>4, SeqEqual
<1>7. b = t
  <2>1. ASSUME NEW i \in 1 .. Len(t) PROVE b[i] = t[i]
    <3>1. /\ Len(s) + i \in 1 .. Len(u) /\ ~(Len(s) + i <= Len(s))
          /\ (Len(s) + i) - Len(s) = i
      BY <1>1, <1>2
    <3>2. u[Len(s) + i] = t[(Len(s) + i) - Len(s)]
      BY <1>2, <3>1
    <3> QED
      BY <1>5, <3>1, <3>2
  <2> QED
    BY <1>5, <2>1, SeqEqual
<1> QED
  BY <1>6, <1>7 DEF a, b, u

LEMMA ConcatAppend ==
  ASSUME NEW S, NEW s \in Seq(S), NEW t \in Seq(S), NEW m \in S
  PROVE  s \o Append(t, m) = Append(s \o t, m)
<1>1. <<m>> \in Seq(S)
  OBVIOUS
<1>2. s \o t \in Seq(S)
  BY ConcatProperties
<1>3. Append(t, m) = t \o <<m>> /\ Append(s \o t, m) = (s \o t) \o <<m>>
  BY <1>2, AppendIsConcat
<1>4. (s \o t) \o <<m>> = s \o (t \o <<m>>)
  BY <1>1, ConcatAssociative
<1> QED
  BY <1>3, <1>4

\* The messages on their way to client c, and those waiting for user i.
Flight(c) ==
  IF resp[c].type = "kRespRecv" /\ resp[c].value = 0 THEN resp[c].entries ELSE << >>

Queue(i) == IF i \in DOMAIN user_map_ THEN user_map_[i].msg_q ELSE << >>

BoxView ==
  /\ \A i \in Ids : Queue(i) \in Seq(Entry)
  /\ \A c \in Clients : Flight(c) \in Seq(Entry) /\ msgs[c] \in Seq(Entry)
  /\ restarts = 0 =>
       \A c \in Clients : id[c] \in Ids => \A d \in Clients \ {c} : id[d] # id[c]
  /\ restarts = 0 =>
       \A i \in Ids :
         /\ \A c \in Clients :
              id[c] = i => Box[i] = Flight(c) \o Queue(i) /\ Got[i] = msgs[c]
         /\ (\A c \in Clients : id[c] # i) => Box[i] = Queue(i) /\ Got[i] = << >>

\* No two clients have the same ID.
LEMMA OneHolder ==
  ASSUME MccInv, restarts = 0, NEW c \in Clients, id[c] \in Ids
  PROVE  Holders(id[c]) = {c}
<1>1. \A d \in Clients : id[d] \in Ids => Own(d) = id[d]
  BY MccAssumption DEF MccInv, WireState, CallState, Own
<1>2. \A d \in Clients \ {c} : id[d] # id[c]
  BY <1>1, MccAssumption DEF MccInv, IdState
<1> QED
  BY <1>2 DEF Holders

LEMMA BoxViewHolds == MccInv => BoxView
<1> SUFFICES ASSUME MccInv PROVE BoxView
  OBVIOUS
<1>1. TypeOK /\ << >> \in Seq(Entry)
  BY EmptySeq DEF MccInv
<1>2. ASSUME NEW i \in Ids PROVE Queue(i) \in Seq(Entry)
  <2>1. CASE i \in DOMAIN user_map_
    <3>1. user_map_[i].msg_q \in Seq(Msg)
      BY <1>1, <2>1 DEF TypeOK, UserMetadata
    <3>2. Msg \subseteq Entry
      BY DEF Msg, Entry
    <3> QED
      BY <2>1, <3>1, <3>2, SeqMonotonic DEF Queue
  <2>2. CASE i \notin DOMAIN user_map_
    BY <1>1, <2>2 DEF Queue
  <2> QED
    BY <2>1, <2>2
<1>3. ASSUME NEW c \in Clients PROVE Flight(c) \in Seq(Entry) /\ msgs[c] \in Seq(Entry)
  BY <1>1 DEF Flight, TypeOK, Responses
<1>4. ASSUME restarts = 0, NEW i \in Ids
      PROVE  Box[i] = Pending(i) /\ Got[i] = Handed(i)
  BY <1>4 DEF Box, Got
<1>5. ASSUME restarts = 0, NEW i \in Ids, NEW c \in Clients, id[c] = i
      PROVE  Box[i] = Flight(c) \o Queue(i) /\ Got[i] = msgs[c]
  <2>1. Holders(i) = {c}
    BY <1>5, OneHolder
  <2>2. Handed(i) = msgs[c]
    BY <2>1 DEF Handed
  <2>3. InFlight(i) \subseteq {c}
        /\ (c \in InFlight(i) <=> resp[c].type = "kRespRecv" /\ resp[c].value = 0)
    BY <1>5, <2>1 DEF InFlight, Holders
  <2>4. CASE resp[c].type = "kRespRecv" /\ resp[c].value = 0
    <3>1. InFlight(i) = {c}
      BY <2>3, <2>4
    <3> QED
      BY <1>4, <1>5, <2>2, <2>4, <3>1 DEF Pending, Flight, Queue
  <2>5. CASE ~(resp[c].type = "kRespRecv" /\ resp[c].value = 0)
    <3>1. InFlight(i) = {}
      BY <2>3, <2>5
    <3> QED
      BY <1>4, <1>5, <2>2, <2>5, <3>1 DEF Pending, Flight, Queue
  <2> QED
    BY <2>4, <2>5
<1>6. ASSUME restarts = 0, NEW i \in Ids, \A c \in Clients : id[c] # i
      PROVE  Box[i] = Queue(i) /\ Got[i] = << >>
  <2>1. Holders(i) = {} /\ InFlight(i) = {}
    BY <1>6 DEF Holders, InFlight
  <2>2. Pending(i) = << >> \o Queue(i)
    BY <2>1 DEF Pending, Queue
  <2>3. Pending(i) = Queue(i)
    BY <1>2, <2>2, ConcatEmptySeq
  <2> QED
    BY <1>4, <1>6, <2>1, <2>3 DEF Handed
<1>7. ASSUME restarts = 0, NEW c \in Clients, id[c] \in Ids
      PROVE  \A d \in Clients \ {c} : id[d] # id[c]
  BY <1>7, OneHolder DEF Holders
<1> QED
  BY <1>2, <1>3, <1>5, <1>6, <1>7 DEF BoxView

LEMMA BoxViewNext == MccInv' => BoxView'
BY BoxViewHolds, PTL

LEMMA BoxFunctions ==
  /\ Box = [i \in Ids |-> Box[i]] /\ Got = [i \in Ids |-> Got[i]]
  /\ restarts # 0 => /\ Box = [i \in Ids |-> << >>]
                     /\ Got = [i \in Ids |-> << >>]
BY DEF Box, Got

LEMMA BoxFunctionsNext ==
  /\ Box' = [i \in Ids |-> Box'[i]] /\ Got' = [i \in Ids |-> Got'[i]]
  /\ restarts' # 0 => /\ Box' = [i \in Ids |-> << >>]
                      /\ Got' = [i \in Ids |-> << >>]
BY DEF Box, Got

LEMMA SameBoxes ==
  ASSUME \A i \in Ids : Box'[i] = Box[i] /\ Got'[i] = Got[i]
  PROVE  Box' = Box /\ Got' = Got
BY BoxFunctions, BoxFunctionsNext

\* A step of client c's call leaves the box of user i alone if it does not
\* touch the queue of i and c does not hold i, or receives nothing.
LEMMA BoxFrame ==
  ASSUME MccInv, MccInv', restarts = 0, restarts' = 0, NEW c \in Clients, NEW i \in Ids,
         \A d \in Clients \ {c} : resp'[d] = resp[d] /\ msgs'[d] = msgs[d],
         \A d \in Clients : id'[d] = i <=> id[d] = i,
         Queue(i)' = Queue(i),
         id[c] = i => Flight(c)' = Flight(c) /\ msgs'[c] = msgs[c]
  PROVE  Box'[i] = Box[i] /\ Got'[i] = Got[i]
<1>1. BoxView /\ BoxView'
  BY BoxViewHolds, BoxViewNext
<1>2. CASE \A d \in Clients : id[d] # i
  <2>1. Box[i] = Queue(i) /\ Got[i] = << >>
    BY <1>1, <1>2 DEF BoxView
  <2>2. Box'[i] = Queue(i)' /\ Got'[i] = << >>
    <3>1. \A d \in Clients : id'[d] # i
      BY <1>2
    <3> QED
      BY <1>1, <3>1 DEF BoxView
  <2> QED
    BY <2>1, <2>2
<1>3. ASSUME NEW d \in Clients, id[d] = i
      PROVE  Box'[i] = Box[i] /\ Got'[i] = Got[i]
  <2>1. Box[i] = Flight(d) \o Queue(i) /\ Got[i] = msgs[d]
    BY <1>1, <1>3 DEF BoxView
  <2>2. Box'[i] = Flight(d)' \o Queue(i)' /\ Got'[i] = msgs'[d]
    <3>1. \A e \in Clients : id'[e] = i =>
            Box'[i] = Flight(e)' \o Queue(i)' /\ Got'[i] = msgs'[e]
      BY <1>1 DEF BoxView
    <3> QED
      BY <1>3, <3>1
  <2>3. Flight(d)' = Flight(d) /\ msgs'[d] = msgs[d]
    <3>1. d # c => Flight(d)' = Flight(d)
      BY DEF Flight
    <3> QED
      BY <1>3, <3>1
  <2> QED
    BY <2>1, <2>2, <2>3
<1> QED
  BY <1>2, <1>3

\* A step that hands out, loses and queues no message.
LEMMA QuietStep ==
  ASSUME MccInv, MccInv', restarts = 0, restarts' = 0, NEW c \in Clients,
         \A d \in Clients \ {c} : resp'[d] = resp[d],
         UNCHANGED <<id, msgs>>,
         \A i \in Ids : Queue(i)' = Queue(i),
         Flight(c)' = Flight(c)
  PROVE  Box' = Box /\ Got' = Got
<1>1. ASSUME NEW i \in Ids PROVE Box'[i] = Box[i] /\ Got'[i] = Got[i]
  BY BoxFrame
<1> QED
  BY <1>1, SameBoxes

\* So are the answers to all requests but those for messages.
LEMMA QuietParse ==
  ASSUME MccInv, MccInv', restarts = 0, restarts' = 0, NEW c \in Clients,
         NEW type, type # "none", NEW r \in Responses, Parse(c, type, r),
         r.type = "kRespRecv" => r.value # 0,
         UNCHANGED client,
         \A i \in Ids : Queue(i)' = Queue(i)
  PROVE  Box' = Box /\ Got' = Got
<1>1. /\ resp[c].type = "none" /\ resp'[c] = r
      /\ \A d \in Clients \ {c} : resp'[d] = resp[d]
  BY ParseFacts
<1>2. Flight(c)' = Flight(c)
  BY <1>1 DEF Flight
<1>3. UNCHANGED <<id, msgs>>
  BY DEF client
<1> QED
  BY <1>1, <1>2, <1>3, QuietStep

LEMMA EncodeRefines ==
  ASSUME MccInv, MccInv', restarts = 0, restarts' = 0, NEW c \in Clients, Encode(c)
  PROVE  Box' = Box /\ Got' = Got
<1>1. UNCHANGED <<user_map_, resp, id, msgs>>
  BY DEF Encode, db, client
<1>2. Flight(c)' = Flight(c) /\ \A i \in Ids : Queue(i)' = Queue(i)
  BY <1>1 DEF Flight, Queue
<1> QED
  BY <1>1, <1>2, QuietStep

\* A new user has an empty queue.
LEMMA RegisterRefines ==
  ASSUME MccInv, MccInv', restarts = 0, restarts' = 0, NEW c \in Clients,
         NEW type \in {"kRequestRegister", "proto"},
         NEW n \in Names \cup {NoName}, RegisterUser(n),
         Parse(c, type, Response("kRespRegister", 0, next_id_, << >>)),
         UNCHANGED client
  PROVE  Box' = Box /\ Got' = Got
<1> DEFINE r == Response("kRespRegister", 0, next_id_, << >>)
<1>1. TypeOK
  BY ClientFacts
<1>2. /\ next_id_ \in Ids /\ next_id_ \notin DOMAIN user_map_
      /\ DOMAIN user_map_' = DOMAIN user_map_ \cup {next_id_}
      /\ user_map_'[next_id_].msg_q = << >>
      /\ \A i \in DOMAIN user_map_ : user_map_'[i] = user_map_[i]
  BY <1>1, RegisterUserFacts
<1>3. r \in Responses /\ r.type = "kRespRegister"
  BY <1>2, EmptySeq DEF Response, Responses, Ids
<1> HIDE DEF r
<1>4. Parse(c, type, r) /\ type # "none"
  BY DEF r
<1>5. \A i \in Ids : Queue(i)' = Queue(i)
  BY <1>2 DEF Queue
<1> QED
  BY <1>3, <1>4, <1>5, QuietParse

LEMMA ParseRequestUsersRefines ==
  ASSUME MccInv, MccInv', restarts = 0, restarts' = 0, NEW c \in Clients,
         ParseRequestUsers(c)
  PROVE  Box' = Box /\ Got' = Got
<1>1. UNCHANGED <<user_map_, client>>
  BY DEF ParseRequestUsers, db
<1>2. \A i \in Ids : Queue(i)' = Queue(i)
  BY <1>1 DEF Queue
<1>3. PICK r : Parse(c, "kRequestUsers", r) /\ r.type = "kRespUsers"
  <2>1. CASE Parse(c, "kRequestUsers", RespValue("kRespUsers", 1))
    BY <2>1, RespValueType
  <2>2. ASSUME NEW n, NEW l, Parse(c, "kRequestUsers", Response("kRespUsers", 0, n, l))
        PROVE  \E r : Parse(c, "kRequestUsers", r) /\ r.type = "kRespUsers"
    <3>1. Response("kRespUsers", 0, n, l).type = "kRespUsers"
      BY DEF Response
    <3> QED
      BY <2>2, <3>1
  <2> QED
    BY <2>1, <2>2 DEF ParseRequestUsers
<1>4. r \in Responses
  <2>1. resp' = [resp EXCEPT ![c] = r]
    BY <1>3 DEF Parse
  <2>2. resp \in [Clients -> Responses] /\ resp' \in [Clients -> Responses]
    BY DEF MccInv, TypeOK
  <2> QED
    BY <2>1, <2>2
<1> QED
  BY <1>1, <1>2, <1>3, <1>4, QuietParse

\* A request to send is refused, stops the server, or is the Accept of its
\* target and message.
LEMMA ParseRequestSendRefines ==
  ASSUME MccInv, MccInv', restarts = 0, restarts' = 0, NEW c \in Clients,
         ParseRequestSend(c)
  PROVE  \/ Box' = Box /\ Got' = Got
         \/ \E i \in Ids, m \in Msg :
              Box' = [Box EXCEPT ![i] = Append(Box[i], m)] /\ Got' = Got
<1>1. TypeOK /\ CallState(c)
  BY ClientFacts
<1>2. ASSUME NEW v \in {1, 2}, UNCHANGED user_map_, UNCHANGED client,
             Parse(c, "kRequestSend", RespValue("kRespSend", v))
      PROVE  Box' = Box /\ Got' = Got
  <2> DEFINE r == RespValue("kRespSend", v)
  <2>1. r \in Responses /\ r.type = "kRespSend" /\ Parse(c, "kRequestSend", r)
    BY <1>2, RespValueType
  <2> HIDE DEF r
  <2>2. \A i \in Ids : Queue(i)' = Queue(i)
    BY <1>2 DEF Queue
  <2> QED
    BY <1>2, <2>1, <2>2, QuietParse
<1>3. CASE /\ UserExists(user_map_, req[c].source)
           /\ UserExists(user_map_, req[c].target)
           /\ QueueMsg(req[c].target, [sender_id |-> req[c].source, msg |-> req[c].text])
           /\ Parse(c, "kRequestSend", RespValue("kRespSend", 0))
           /\ req[c].text # NoName
           /\ UNCHANGED client
  <2> DEFINE r == RespValue("kRespSend", 0)
             m == [sender_id |-> req[c].source, msg |-> req[c].text]
  <2>1. r \in Responses /\ r.type = "kRespSend"
    BY RespValueType
  <2> HIDE DEF r
  <2>2. Parse(c, "kRequestSend", r)
    BY <1>3 DEF r
  <2>3. /\ req[c].type = "kRequestSend"
        /\ resp[c].type = "none" /\ resp'[c] = r
        /\ \A d \in Clients \ {c} : resp'[d] = resp[d]
    BY <2>1, <2>2, ParseFacts
  <2>4. PICK i \in Ids : i = req[c].target
    BY <1>1, <2>3 DEF CallState
  <2>5. /\ i \in DOMAIN user_map_
        /\ req[c].source \in Ids /\ req[c].text \in Texts
    BY <1>1, <1>3, <2>3, <2>4 DEF CallState, UserExists, TypeOK
  <2> DEFINE q == Append(user_map_[i].msg_q, m)
  <2>6. m \in Msg /\ m \in Entry
    BY <2>5 DEF Msg, Entry
  <2>7. user_map_[i].msg_q \in Seq(Msg)
    BY <1>1, <2>5 DEF TypeOK, UserMetadata
  <2>8. q \in Seq(Msg) /\ user_map_' = [user_map_ EXCEPT ![i].msg_q = q]
    BY <1>3, <2>6, <2>7, <2>4, AppendProperties DEF QueueMsg
  <2>9. q = Append(Queue(i), m)
    BY <2>5 DEF Queue
  <2> HIDE DEF q, m
  <2>10. /\ DOMAIN user_map_' = DOMAIN user_map_
        /\ user_map_'[i].msg_q = q
        /\ \A j \in DOMAIN user_map_ \ {i} : user_map_'[j] = user_map_[j]
    BY <1>1, <2>5, <2>8, QueueFacts
  <2>11. Queue(i)' = Append(Queue(i), m) /\ \A j \in Ids \ {i} : Queue(j)' = Queue(j)
    BY <2>5, <2>9, <2>10 DEF Queue
  <2>12. UNCHANGED <<id, msgs>> /\ \A d \in Clients : Flight(d)' = Flight(d)
    BY <1>3, <2>1, <2>3 DEF client, Flight
  <2>13. \A j \in Ids \ {i} : Box'[j] = Box[j] /\ Got'[j] = Got[j]
    <3>1. ASSUME NEW j \in Ids \ {i} PROVE Box'[j] = Box[j] /\ Got'[j] = Got[j]
      BY <2>3, <2>11, <2>12, BoxFrame
    <3> QED
      BY <3>1
  <2>14. Box'[i] = Append(Box[i], m) /\ Got'[i] = Got[i]
    <3>1. BoxView /\ BoxView'
      BY BoxViewHolds, BoxViewNext
    <3>2. CASE \A d \in Clients : id[d] # i
      <4>1. Box[i] = Queue(i) /\ Got[i] = << >>
        BY <2>5, <3>1, <3>2 DEF BoxView
      <4>2. Box'[i] = Queue(i)' /\ Got'[i] = << >>
        <5>1. \A d \in Clients : id'[d] # i
          BY <2>12, <3>2
        <5> QED
          BY <2>5, <3>1, <5>1 DEF BoxView
      <4> QED
        BY <2>11, <4>1, <4>2
    <3>3. ASSUME NEW d \in Clients, id[d] = i
          PROVE  Box'[i] = Append(Box[i], m) /\ Got'[i] = Got[i]
      <4>1. Box[i] = Flight(d) \o Queue(i) /\ Got[i] = msgs[d]
        BY <2>5, <3>1, <3>3 DEF BoxView
      <4>2. Box'[i] = Flight(d)' \o Queue(i)' /\ Got'[i] = msgs'[d]
        <5>1. id'[d] = i
          BY <2>12, <3>3
        <5> QED
          BY <2>5, <3>1, <5>1 DEF BoxView
      <4>3. Flight(d) \in Seq(Entry) /\ Queue(i) \in Seq(Entry)
        BY <2>5, <3>1, <3>3 DEF BoxView
      <4>4. Flight(d) \o Append(Queue(i), m) = Append(Flight(d) \o Queue(i), m)
        BY <2>6, <4>3, ConcatAppend
      <4> QED
        BY <2>11, <2>12, <4>1, <4>2, <4>4
    <3> QED
      BY <3>2, <3>3
  <2>15. Got' = Got
    BY <2>13, <2>14, BoxFunctions, BoxFunctionsNext
  <2>16. Box' = [Box EXCEPT ![i] = Append(Box[i], m)]
    BY <2>5, <2>13, <2>14, BoxFunctions, BoxFunctionsNext
  <2> QED
    BY <2>5, <2>6, <2>15, <2>16
<1>4. CASE UNCHANGED <<user_map_, resp, client>>
  <2>1. Flight(c)' = Flight(c) /\ \A i \in Ids : Queue(i)' = Queue(i)
    BY <1>4 DEF Flight, Queue
  <2> QED
    BY <1>4, <2>1, QuietStep DEF client
<1> QED
  BY <1>2, <1>3, <1>4 DEF ParseRequestSend, db, wire

\* A batch moves from the queue to the wire: what waits for the user stays
\* the same.
LEMMA ParseRequestRecvRefines ==
  ASSUME MccInv, MccInv', restarts = 0, restarts' = 0, NEW c \in Clients,
         ParseRequestRecv(c)
  PROVE  Box' = Box /\ Got' = Got
<1>1. TypeOK /\ CallState(c)
  BY ClientFacts
<1>2. UNCHANGED client
  BY DEF ParseRequestRecv
<1>3. CASE UNCHANGED user_map_ /\ Parse(c, "kRequestRecv", RespValue("kRespRecv", 1))
  <2> DEFINE r == RespValue("kRespRecv", 1)
  <2>1. /\ r \in Responses /\ r.type = "kRespRecv" /\ r.value # 0
        /\ Parse(c, "kRequestRecv", r)
    BY <1>3, RespValueType
  <2> HIDE DEF r
  <2>2. \A i \in Ids : Queue(i)' = Queue(i)
    BY <1>3 DEF Queue
  <2> QED
    BY <1>2, <2>1, <2>2, QuietParse
<1>4. CASE /\ UserExists(user_map_, req[c].source)
           /\ LET q == user_map_[req[c].source].msg_q
              IN  Parse(c, "kRequestRecv", Response("kRespRecv", 0, Len(q), q))
           /\ user_map_' = [user_map_ EXCEPT ![req[c].source].msg_q = << >>]
  <2>1. PICK i \in Ids : i = req[c].source /\ i \in DOMAIN user_map_
    BY <1>1, <1>4 DEF TypeOK, UserExists
  <2> DEFINE q == user_map_[i].msg_q
             r == Response("kRespRecv", 0, Len(q), q)
  <2>2. q = Queue(i) /\ q \in Seq(Msg) /\ Len(q) \in Nat
    BY <1>1, <2>1 DEF TypeOK, UserMetadata, Queue
  <2>3. q \in Seq(Entry)
    <3>1. Msg \subseteq Entry
      BY DEF Msg, Entry
    <3> QED
      BY <2>2, <3>1
  <2>4. Parse(c, "kRequestRecv", r)
    BY <1>4, <2>1
  <2> HIDE DEF q
  <2>5. r \in Responses /\ r.type = "kRespRecv" /\ r.value = 0 /\ r.entries = q
    BY <2>2, <2>3 DEF Response, Responses
  <2> HIDE DEF r
  <2>6. /\ req[c].type = "kRequestRecv" /\ resp[c].type = "none" /\ resp'[c] = r
        /\ \A d \in Clients \ {c} : resp'[d] = resp[d]
    BY <2>4, <2>5, ParseFacts
  <2>7. id[c] = i /\ UNCHANGED <<id, msgs>>
    BY <1>1, <1>2, <2>1, <2>6 DEF CallState, client
  <2> DEFINE e == << >>
  <2>8. e \in Seq(Msg) /\ user_map_' = [user_map_ EXCEPT ![i].msg_q = e]
    BY <1>4, <2>1, EmptySeq
  <2> HIDE DEF e
  <2>9. /\ DOMAIN user_map_' = DOMAIN user_map_
        /\ user_map_'[i].msg_q = e
        /\ \A j \in DOMAIN user_map_ \ {i} : user_map_'[j] = user_map_[j]
    BY <1>1, <2>1, <2>8, QueueFacts
  <2>10. Queue(i)' = << >> /\ \A j \in Ids \ {i} : Queue(j)' = Queue(j)
    BY <2>1, <2>9 DEF Queue, e
  <2>11. Flight(c) = << >> /\ Flight(c)' = q
    BY <2>5, <2>6 DEF Flight
  <2>12. ASSUME NEW j \in Ids \ {i} PROVE Box'[j] = Box[j] /\ Got'[j] = Got[j]
    BY <2>6, <2>7, <2>10, BoxFrame
  <2>13. Box'[i] = Box[i] /\ Got'[i] = Got[i]
    <3>1. BoxView /\ BoxView'
      BY BoxViewHolds, BoxViewNext
    <3>2. Box[i] = Flight(c) \o Queue(i) /\ Got[i] = msgs[c]
      BY <2>7, <3>1 DEF BoxView
    <3>3. Box'[i] = Flight(c)' \o Queue(i)' /\ Got'[i] = msgs'[c]
      <4>1. id'[c] = i
        BY <2>7
      <4> QED
        BY <3>1, <4>1 DEF BoxView
    <3>4. << >> \o q = q /\ q \o << >> = q
      BY <2>3, ConcatEmptySeq
    <3> QED
      BY <2>2, <2>7, <2>10, <2>11, <3>2, <3>3, <3>4
  <2> QED
    BY <2>12, <2>13, SameBoxes
<1> QED
  BY <1>3, <1>4 DEF ParseRequestRecv

\* Nobody else has the ID that a client registers under, and nothing has
\* been handed to that client.
LEMMA HandleRespRegisterRefines ==
  ASSUME MccInv, MccInv', restarts = 0, restarts' = 0, NEW c \in Clients,
         HandleRespRegister(c)
  PROVE  Box' = Box /\ Got' = Got
<1>1. /\ Return(c, "kRespRegister")
      /\ id' = [id EXCEPT ![c] = rx_buffer_'[c].word]
      /\ UNCHANGED msgs
  BY DEF HandleRespRegister
<1>2. /\ TypeOK /\ CallState(c)
      /\ id[c] = NoId => msgs[c] = << >>
  BY ClientFacts
<1>3. /\ resp[c].type = "kRespRegister" /\ resp'[c].type = "none"
      /\ \A d \in Clients \ {c} : resp'[d] = resp[d]
      /\ UNCHANGED user_map_
  BY <1>1, ReturnFacts
<1>4. id[c] = NoId /\ Flight(c) = << >> /\ Flight(c)' = << >>
  BY <1>2, <1>3 DEF CallState, Flight
<1>5. \A j \in Ids : Queue(j)' = Queue(j)
  BY <1>3 DEF Queue
<1>6. \A d \in Clients \ {c} : id'[d] = id[d]
  BY <1>1, <1>2 DEF TypeOK
<1>7. ASSUME NEW j \in Ids PROVE Box'[j] = Box[j] /\ Got'[j] = Got[j]
  <2>1. CASE id'[c] # j
    <3>1. \A d \in Clients : id'[d] = j <=> id[d] = j
      BY <1>4, <1>6, <2>1, MccAssumption
    <3> QED
      BY <1>1, <1>3, <1>4, <1>5, <3>1, BoxFrame
  <2>2. CASE id'[c] = j
    <3>1. BoxView /\ BoxView'
      BY BoxViewHolds, BoxViewNext
    <3>2. \A d \in Clients \ {c} : id'[d] # id'[c]
      BY <2>2, <3>1 DEF BoxView
    <3>3. \A d \in Clients : id[d] # j
      BY <1>4, <1>6, <2>2, <3>2, MccAssumption
    <3>4. Box[j] = Queue(j) /\ Got[j] = << >>
      BY <3>1, <3>3 DEF BoxView
    <3>5. Box'[j] = Flight(c)' \o Queue(j)' /\ Got'[j] = msgs'[c]
      BY <2>2, <3>1 DEF BoxView
    <3>6. << >> \o Queue(j) = Queue(j)
      BY <3>1, ConcatEmptySeq DEF BoxView
    <3> QED
      BY <1>1, <1>2, <1>4, <1>5, <3>4, <3>5, <3>6
  <2> QED
    BY <2>1, <2>2
<1> QED
  BY <1>7, SameBoxes

\* Lists of users and answers to sent messages carry no message.
LEMMA QuietHandler ==
  ASSUME MccInv, MccInv', restarts = 0, restarts' = 0, NEW c \in Clients,
         NEW type \in {"kRespUsers", "kRespSend"}, Return(c, type),
         UNCHANGED <<id, msgs>>
  PROVE  Box' = Box /\ Got' = Got
<1>1. /\ resp[c].type = type /\ resp'[c].type = "none"
      /\ \A d \in Clients \ {c} : resp'[d] = resp[d]
      /\ UNCHANGED user_map_
  BY ReturnFacts
<1>2. Flight(c)' = Flight(c) /\ \A j \in Ids : Queue(j)' = Queue(j)
  BY <1>1 DEF Flight, Queue
<1> QED
  BY <1>1, <1>2, QuietStep

\* When the response of client c arrives or is lost, the batch on its way
\* leaves the front of the box of the client's ID.
LEMMA BatchLeaves ==
  ASSUME MccInv, MccInv', restarts = 0, restarts' = 0, NEW c \in Clients,
         id[c] \in Ids, UNCHANGED <<id, user_map_>>,
         resp'[c].type = "none",
         \A d \in Clients \ {c} : resp'[d] = resp[d] /\ msgs'[d] = msgs[d]
  PROVE  \E i \in Ids :
           /\ i = id[c]
           /\ Flight(c) \in Seq(Entry)
           /\ Got[i] = msgs[c] /\ Got'[i] = msgs'[c]
           /\ \A j \in Ids \ {i} : Box'[j] = Box[j] /\ Got'[j] = Got[j]
           /\ SubSeq(Box[i], 1, Len(Flight(c))) = Flight(c)
           /\ Box'[i] = SubSeq(Box[i], Len(Flight(c)) + 1, Len(Box[i]))
           /\ Len(Flight(c)) \in Nat /\ Len(Flight(c)) <= Len(Box[i])
           /\ Len(Box[i]) \in Nat
<1>1. PICK i \in Ids : i = id[c]
  OBVIOUS
<1>2. BoxView /\ BoxView'
  BY BoxViewHolds, BoxViewNext
<1>3. \A j \in Ids : Queue(j)' = Queue(j)
  BY DEF Queue
<1>4. ASSUME NEW j \in Ids \ {i} PROVE Box'[j] = Box[j] /\ Got'[j] = Got[j]
  BY <1>1, <1>3, BoxFrame
<1>5. Box[i] = Flight(c) \o Queue(i) /\ Got[i] = msgs[c]
  BY <1>1, <1>2 DEF BoxView
<1>6. Box'[i] = Flight(c)' \o Queue(i)' /\ Got'[i] = msgs'[c]
  <2>1. id'[c] = i
    BY <1>1
  <2> QED
    BY <1>2, <2>1 DEF BoxView
<1>7. Flight(c)' = << >>
  BY DEF Flight
<1>8. Flight(c) \in Seq(Entry) /\ Queue(i) \in Seq(Entry)
  BY <1>2 DEF BoxView
<1>9. Box'[i] = Queue(i)
  <2>1. << >> \o Queue(i) = Queue(i)
    BY <1>8, ConcatEmptySeq
  <2> QED
    BY <1>3, <1>6, <1>7, <2>1
<1>10. /\ SubSeq(Box[i], 1, Len(Flight(c))) = Flight(c)
       /\ SubSeq(Box[i], Len(Flight(c)) + 1, Len(Box[i])) = Queue(i)
  BY <1>5, <1>8, MoveFromConcat
<1>11. /\ Len(Flight(c)) \in Nat /\ Len(Flight(c)) <= Len(Box[i])
       /\ Len(Box[i]) \in Nat
  <2>1. Len(Flight(c)) \in Nat /\ Len(Queue(i)) \in Nat
    BY <1>8
  <2>2. Len(Box[i]) = Len(Flight(c)) + Len(Queue(i))
    BY <1>5, <1>8, ConcatProperties
  <2> QED
    BY <2>1, <2>2
<1> QED
  BY <1>1, <1>4, <1>5, <1>6, <1>8, <1>9, <1>10, <1>11

\* handleRespRecv hands out the batch the server took from the queue, and
\* nothing the buffer held before.
LEMMA HandleRespRecvRefines ==
  ASSUME MccInv, MccInv', restarts = 0, restarts' = 0, NEW c \in Clients,
         HandleRespRecv(c)
  PROVE  \/ Box' = Box /\ Got' = Got
         \/ \E i \in Ids : \E n \in 1 .. Len(Box[i]) :
              /\ Got' = [Got EXCEPT ![i] = Got[i] \o SubSeq(Box[i], 1, n)]
              /\ Box' = [Box EXCEPT ![i] = SubSeq(Box[i], n + 1, Len(Box[i]))]
<1> DEFINE e == Flight(c)
<1>1. /\ Return(c, "kRespRecv")
      /\ msgs' = [msgs EXCEPT ![c] = msgs[c] \o Decoded(rx_buffer_'[c])]
      /\ UNCHANGED id
  BY DEF HandleRespRecv
<1>2. /\ TypeOK /\ CallState(c)
      /\ resp[c].type = "kRespRecv" => resp[c].value = 0
  BY ClientFacts
<1>3. /\ resp[c] \in Responses /\ resp[c].type = "kRespRecv"
      /\ rx_buffer_[c] \in Buffers
      /\ rx_buffer_'[c] = Overwrite(rx_buffer_[c], resp[c])
      /\ resp'[c].type = "none"
      /\ \A d \in Clients \ {c} : resp'[d] = resp[d]
      /\ UNCHANGED user_map_
  BY <1>1, ReturnFacts
<1>4. e = resp[c].entries /\ resp[c].word = Len(resp[c].entries)
  BY <1>2, <1>3 DEF Flight, TypeOK
<1>5. Decoded(rx_buffer_'[c]) = e
  BY <1>3, <1>4, DecodedResponse
<1>6. /\ id[c] \in Ids
      /\ msgs'[c] = msgs[c] \o e /\ msgs[c] \in Seq(Entry)
      /\ \A d \in Clients \ {c} : msgs'[d] = msgs[d]
  BY <1>1, <1>2, <1>3, <1>5 DEF CallState, TypeOK
<1>7. PICK i \in Ids :
        /\ i = id[c]
        /\ e \in Seq(Entry)
        /\ Got[i] = msgs[c] /\ Got'[i] = msgs'[c]
        /\ \A j \in Ids \ {i} : Box'[j] = Box[j] /\ Got'[j] = Got[j]
        /\ SubSeq(Box[i], 1, Len(e)) = e
        /\ Box'[i] = SubSeq(Box[i], Len(e) + 1, Len(Box[i]))
        /\ Len(e) \in Nat /\ Len(e) <= Len(Box[i])
        /\ Len(Box[i]) \in Nat
  BY <1>1, <1>3, <1>6, BatchLeaves
<1> HIDE DEF e
<1>8. CASE e # << >>
  <2> DEFINE n == Len(e)
  <2>1. n \in 1 .. Len(Box[i])
    BY <1>7, <1>8
  <2>2. Got'[i] = Got[i] \o SubSeq(Box[i], 1, n) /\ Box'[i] = SubSeq(Box[i], n + 1, Len(Box[i]))
    BY <1>6, <1>7
  <2> HIDE DEF n
  <2>3. Got' = [Got EXCEPT ![i] = Got[i] \o SubSeq(Box[i], 1, n)]
    BY <1>7, <2>2, BoxFunctions, BoxFunctionsNext
  <2>4. Box' = [Box EXCEPT ![i] = SubSeq(Box[i], n + 1, Len(Box[i]))]
    BY <1>7, <2>2, BoxFunctions, BoxFunctionsNext
  <2> QED
    BY <2>1, <2>3, <2>4
<1>9. CASE e = << >>
  <2>1. Flight(c)' = Flight(c) /\ \A j \in Ids : Queue(j)' = Queue(j)
    BY <1>3, <1>9 DEF Flight, Queue, e
  <2>2. msgs'[c] = msgs[c]
    BY <1>6, <1>9, ConcatEmptySeq
  <2>3. ASSUME NEW j \in Ids PROVE Box'[j] = Box[j] /\ Got'[j] = Got[j]
    BY <1>1, <1>3, <1>6, <2>1, <2>2, BoxFrame
  <2> QED
    BY <2>3, SameBoxes
<1> QED
  BY <1>8, <1>9

\* A connection that fails takes the batch in the response with it, all of
\* it, and nothing else.
LEMMA DisconnectRefines ==
  ASSUME MccInv, MccInv', restarts = 0, restarts' = 0, NEW c \in Clients,
         Disconnect(c)
  PROVE  \/ Box' = Box /\ Got' = Got
         \/ \E i \in Ids : \E n \in 1 .. Len(Box[i]) :
              /\ Box' = [Box EXCEPT ![i] = SubSeq(Box[i], n + 1, Len(Box[i]))]
              /\ Got' = Got
<1> DEFINE e == Flight(c)
<1>1. /\ resp' = [resp EXCEPT ![c] = NoResponse]
      /\ UNCHANGED <<user_map_, id, msgs>>
  BY DEF Disconnect, db, client
<1>2. TypeOK /\ CallState(c)
  BY ClientFacts
<1>3. resp'[c].type = "none" /\ \A d \in Clients \ {c} : resp'[d] = resp[d]
  BY <1>1, <1>2, NoResponseType DEF TypeOK
<1>4. CASE e = << >>
  <2>1. Flight(c)' = Flight(c) /\ \A j \in Ids : Queue(j)' = Queue(j)
    BY <1>1, <1>3, <1>4 DEF Flight, Queue
  <2> QED
    BY <1>1, <1>3, <2>1, QuietStep
<1>5. CASE e # << >>
  <2>1. id[c] \in Ids
    BY <1>2, <1>5 DEF Flight, CallState, TypeOK
  <2>2. PICK i \in Ids :
          /\ i = id[c]
          /\ e \in Seq(Entry)
          /\ Got[i] = msgs[c] /\ Got'[i] = msgs'[c]
          /\ \A j \in Ids \ {i} : Box'[j] = Box[j] /\ Got'[j] = Got[j]
          /\ SubSeq(Box[i], 1, Len(e)) = e
          /\ Box'[i] = SubSeq(Box[i], Len(e) + 1, Len(Box[i]))
          /\ Len(e) \in Nat /\ Len(e) <= Len(Box[i])
          /\ Len(Box[i]) \in Nat
    BY <1>1, <1>3, <2>1, BatchLeaves
  <2> HIDE DEF e
  <2> DEFINE n == Len(e)
  <2>3. n \in 1 .. Len(Box[i])
    BY <1>5, <2>2
  <2>4. Got'[i] = Got[i] /\ Box'[i] = SubSeq(Box[i], n + 1, Len(Box[i]))
    BY <1>1, <2>2
  <2> HIDE DEF n
  <2>5. Got' = Got
    BY <2>2, <2>4, BoxFunctions, BoxFunctionsNext
  <2>6. Box' = [Box EXCEPT ![i] = SubSeq(Box[i], n + 1, Len(Box[i]))]
    BY <2>2, <2>4, BoxFunctions, BoxFunctionsNext
  <2> QED
    BY <2>3, <2>5, <2>6
<1> QED
  BY <1>4, <1>5

LEMMA CallKeepsRestarts ==
  ASSUME NEW c \in Clients, CallActions(c)
  PROVE  restarts' = restarts
<1>1. Encode(c) \/ Disconnect(c) => restarts' = restarts
  BY DEF Encode, Disconnect
<1>2. ParseRequestRegister(c) \/ ParseRequestRegisterProto(c) => restarts' = restarts
  BY DEF ParseRequestRegister, ParseRequestRegisterProto
<1>3. ParseRequestUsers(c) \/ ParseRequestRecv(c) => restarts' = restarts
  BY DEF ParseRequestUsers, ParseRequestRecv
<1>4. ParseRequestSend(c) => restarts' = restarts
  BY DEF ParseRequestSend
<1>5. (HandleRespRegister(c) \/ HandleRespUsers(c) \/ HandleRespSend(c) \/ HandleRespRecv(c))
        => restarts' = restarts
  BY DEF HandleRespRegister, HandleRespUsers, HandleRespSend, HandleRespRecv, Return
<1> QED
  BY <1>1, <1>2, <1>3, <1>4, <1>5 DEF CallActions

LEMMA CallRefines ==
  ASSUME MccInv, MccInv', restarts = 0, NEW c \in Clients, CallActions(c)
  PROVE  [Service!Next]_<<Box, Got>>
<1>1. restarts' = 0
  BY CallKeepsRestarts
<1>2. CASE Encode(c)
  BY <1>1, <1>2, EncodeRefines
<1>3. CASE ParseRequestRegister(c)
  <2>1. /\ Parse(c, "kRequestRegister", Response("kRespRegister", 0, next_id_, << >>))
        /\ RegisterUser(req[c].text)
        /\ UNCHANGED client
    BY <1>3 DEF ParseRequestRegister
  <2>2. req[c].text \in Names \cup {NoName}
    BY <2>1, ClientFacts DEF Parse, CallState
  <2> QED
    BY <1>1, <2>1, <2>2, RegisterRefines
<1>4. CASE ParseRequestRegisterProto(c)
  <2>1. /\ Parse(c, "proto", Response("kRespRegister", 0, next_id_, << >>))
        /\ RegisterUser(NoName)
        /\ UNCHANGED client
    BY <1>4 DEF ParseRequestRegisterProto
  <2>2. NoName \in Names \cup {NoName}
    OBVIOUS
  <2> QED
    BY <1>1, <2>1, <2>2, RegisterRefines
<1>5. CASE ParseRequestUsers(c)
  BY <1>1, <1>5, ParseRequestUsersRefines
<1>6. CASE ParseRequestSend(c)
  BY <1>1, <1>6, ParseRequestSendRefines DEF Service!Next, Service!Accept
<1>7. CASE ParseRequestRecv(c)
  BY <1>1, <1>7, ParseRequestRecvRefines
<1>8. CASE HandleRespRegister(c)
  BY <1>1, <1>8, HandleRespRegisterRefines
<1>9. CASE HandleRespUsers(c)
  BY <1>1, <1>9, QuietHandler DEF HandleRespUsers
<1>10. CASE HandleRespSend(c)
  BY <1>1, <1>10, QuietHandler DEF HandleRespSend
<1>11. CASE HandleRespRecv(c)
  BY <1>1, <1>11, HandleRespRecvRefines DEF Service!Next, Service!Deliver
<1>12. CASE Disconnect(c)
  BY <1>1, <1>12, DisconnectRefines DEF Service!Next, Service!Lose
<1> QED
  BY <1>2, <1>3, <1>4, <1>5, <1>6, <1>7, <1>8, <1>9, <1>10, <1>11, <1>12 DEF CallActions

LEMMA InitRefines ==
  ASSUME Init
  PROVE  Service!Init
<1>1. BoxView
  BY InitMcc, BoxViewHolds
<1>2. /\ restarts = 0 /\ DOMAIN user_map_ = {}
      /\ \A c \in Clients : id[c] = NoId
  BY DEF Init
<1>3. \A i \in Ids : Box[i] = << >> /\ Got[i] = << >>
  BY <1>1, <1>2, MccAssumption DEF BoxView, Queue
<1> QED
  BY <1>3, BoxFunctions DEF Service!Init

LEMMA StepRefines ==
  ASSUME MccInv, MccInv', [Next]_vars
  PROVE  [Service!Next]_<<Box, Got>>
<1>1. CASE Restart
  <2>1. restarts' # 0
    BY <1>1 DEF Restart, MccInv, TypeOK
  <2> QED
    BY <2>1, BoxFunctionsNext DEF Service!Next, Service!Restart
<1>2. ASSUME NEW c \in Clients, CallActions(c)
      PROVE  [Service!Next]_<<Box, Got>>
  <2>1. CASE restarts = 0
    BY <1>2, <2>1, CallRefines
  <2>2. CASE restarts # 0
    <3>1. restarts' # 0
      BY <1>2, <2>2, CallKeepsRestarts
    <3> QED
      BY <2>2, <3>1, BoxFunctions, BoxFunctionsNext
  <2> QED
    BY <2>1, <2>2
<1>3. CASE UNCHANGED vars
  <2>1. UNCHANGED <<restarts, user_map_, resp, id, msgs>>
    BY <1>3 DEF vars, db, wire, client
  <2>2. \A i \in Ids : Pending(i)' = Pending(i) /\ Handed(i)' = Handed(i)
    BY <2>1 DEF Pending, Handed, InFlight, Holders
  <2> QED
    BY <2>1, <2>2 DEF Box, Got
<1> QED
  BY <1>1, <1>2, <1>3 DEF Next, CallActions

\* MccClient and MccServer implement the store-and-forward service: messages
\* reach the user they were sent to, in the order in which the server
\* accepted them and at most once, for any number of clients, IDs, messages
\* and failures of connections.
THEOREM MccRefinesChatService == Spec => RefinesChatService
<1>1. Init => Service!Init
  BY InitRefines
<1>2. MccInv /\ MccInv' /\ [Next]_vars => [Service!Next]_<<Box, Got>>
  BY StepRefines
<1> QED
  BY <1>1, <1>2, MccInvariance, PTL DEF Spec, RefinesChatService, Service!Spec

=============================================================================
