--------------------------- MODULE Packet_proofs ----------------------------
(* What module Packet decodes from parts has the types of the whole, for   *)
(* every number N of IDs and every set of names.                           *)
EXTENDS Packet, TLAPS

UserOf(N, names) == [user_id : 0 .. N - 1, username : names]

\* A part of an ID is an ID.
LEMMA NumbersType ==
  ASSUME NEW N \in Nat \ {0}, NEW ids \in SUBSET (0 .. N - 1)
  PROVE  /\ Numbers(ids) \subseteq 0 .. N - 1
         /\ \A i \in ids : CutNumber(i) \subseteq 0 .. N - 1
<1>1. ASSUME NEW i \in ids PROVE CutNumber(i) \subseteq 0 .. N - 1
  <2>1. i \in Nat /\ i <= N - 1
    OBVIOUS
  <2>2. i % 128 \in Nat /\ i % 128 <= i
    BY <2>1
  <2> QED
    BY <2>1, <2>2 DEF CutNumber, VarintGroup
<1>2. 0 \in 0 .. N - 1
  OBVIOUS
<1> QED
  BY <1>1, <1>2 DEF Numbers

\* Where lists are put together there is at most one entry, of a user.
LEMMA BrokenType ==
  ASSUME NEW N \in Nat \ {0}, NEW names, NEW users \in SUBSET UserOf(N, names),
         NEW b \in Broken(users, names)
  PROVE  b \subseteq UserOf(N, names) /\ \A u, v \in b : u = v
<1> DEFINE ids == {u.user_id : u \in users}
<1>1. ids \in SUBSET (0 .. N - 1)
  BY DEF UserOf
<1>2. Numbers(ids) \subseteq 0 .. N - 1
  BY <1>1, NumbersType
<1>3. Seam(users, names) \subseteq UserOf(N, names)
  BY <1>2 DEF Seam, UserOf
<1>4. b = {} \/ \E e \in Seam(users, names) : b = {e}
  BY DEF Broken
<1> QED
  BY <1>3, <1>4

\* At most one entry of a list that was too long is not an entry of it.
LEMMA ShortenedFacts ==
  ASSUME NEW N \in Nat \ {0}, NEW names, NEW users \in SUBSET UserOf(N, names),
         NEW cuts \in SUBSET ((SUBSET users) \X users), NEW empty \in names,
         NEW list \in Shortened(cuts, empty, names)
  PROVE  /\ list \subseteq UserOf(N, names)
         /\ \A u, v \in list : u \in users \/ v \in users \/ u = v
<1>1. PICK k \in cuts : \E b \in Stump(k[2], empty, names) : list = k[1] \cup b
  BY DEF Shortened
<1>2. PICK b \in Stump(k[2], empty, names) : list = k[1] \cup b
  BY <1>1
<1>3. k[1] \subseteq users /\ k[2] \in UserOf(N, names)
  OBVIOUS
<1>4. b \subseteq UserOf(N, names) /\ \A u, v \in b : u = v
  <2>1. k[2].user_id \in 0 .. N - 1
    BY <1>3 DEF UserOf
  <2>2. CutNumber(k[2].user_id) \subseteq 0 .. N - 1
    BY <2>1, NumbersType
  <2> QED
    BY <2>1, <2>2 DEF Stump, UserOf
<1> QED
  BY <1>2, <1>3, <1>4

LEMMA GarbledType ==
  ASSUME NEW N \in Nat \ {0}, NEW names, NEW users \in SUBSET UserOf(N, names),
         NEW list \in Garbled(users, names)
  PROVE  list \subseteq UserOf(N, names)
<1>1. PICK some \in SUBSET users : \E b \in Broken(users, names) : list = some \cup b
  BY DEF Garbled
<1> QED
  BY <1>1, BrokenType

=============================================================================
