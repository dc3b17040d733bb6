------------------------- MODULE AddressBook_proofs -------------------------
(* Proofs about AddressBook, for every value of its constants.             *)
EXTENDS AddressBook, FiniteSetTheorems, SequenceTheorems, TLAPS

-----------------------------------------------------------------------------
(* Fields.                                                                 *)

\* Field n is not among fields.
Lacks(fields, n) == \A i \in 1 .. Len(fields) : fields[i][1] # n

LEMMA LacksConcat ==
  ASSUME NEW S, NEW s \in Seq(S), NEW t \in Seq(S), NEW n, Lacks(s, n), Lacks(t, n)
  PROVE  Lacks(s \o t, n)
<1>1. /\ s \o t \in Seq(S) /\ Len(s \o t) = Len(s) + Len(t)
      /\ \A i \in 1 .. Len(s) + Len(t) : (s \o t)[i] =
           IF i <= Len(s) THEN s[i] ELSE t[i - Len(s)]
  BY ConcatProperties
<1>2. Len(s) \in Nat /\ Len(t) \in Nat
  OBVIOUS
<1> QED
  BY <1>1, <1>2 DEF Lacks

LEMMA OptionalFacts ==
  ASSUME NEW S, NEW n \in Nat, NEW v, v # Unset => <<n, v>> \in S
  PROVE  /\ Optional(n, v) \in Seq(S)
         /\ v = Unset => Optional(n, v) = << >>
         /\ v # Unset => Len(Optional(n, v)) = 1 /\ Optional(n, v)[1] = <<n, v>>
         /\ \A m \in Nat : m # n => Lacks(Optional(n, v), m)
<1>1. CASE v = Unset
  BY <1>1 DEF Optional, Lacks
<1>2. CASE v # Unset
  <2>1. Optional(n, v) = << <<n, v>> >>
    BY <1>2 DEF Optional
  <2>2. Len(Optional(n, v)) = 1 /\ Optional(n, v)[1] = <<n, v>>
    BY <2>1
  <2> QED
    BY <1>2, <2>1, <2>2 DEF Lacks
<1> QED
  BY <1>1, <1>2

\* A singular field that was written once is read back, set or not.
LEMMA SingularField ==
  ASSUME NEW S, NEW s \in Seq(S), NEW t \in Seq(S), NEW n \in Nat, NEW v,
         v # Unset => <<n, v>> \in S,
         Lacks(s, n), Lacks(t, n)
  PROVE  LastValue((s \o Optional(n, v)) \o t, n) = v
<1> DEFINE f == (s \o Optional(n, v)) \o t
<1>1. /\ Optional(n, v) \in Seq(S)
      /\ v = Unset => Optional(n, v) = << >>
      /\ v # Unset => Len(Optional(n, v)) = 1 /\ Optional(n, v)[1] = <<n, v>>
  BY OptionalFacts
<1>2. CASE v = Unset
  <2>1. f = s \o t /\ f \in Seq(S)
    BY <1>1, <1>2, ConcatEmptySeq, ConcatProperties
  <2>2. Lacks(f, n) /\ DOMAIN f = 1 .. Len(f)
    BY <2>1, LacksConcat
  <2>3. Occurrences(f, n) = {}
    BY <2>2 DEF Lacks, Occurrences
  <2> QED
    BY <1>2, <2>3 DEF LastValue
<1>3. CASE v # Unset
  <2>1. PICK o \in Seq(S) : o = Optional(n, v) /\ Len(o) = 1 /\ o[1] = <<n, v>>
    BY <1>1, <1>3
  <2>2. PICK g \in Seq(S) :
          /\ g = s \o o /\ Len(g) = Len(s) + Len(o)
          /\ \A i \in 1 .. Len(s) + Len(o) : g[i] = IF i <= Len(s) THEN s[i] ELSE o[i - Len(s)]
    <3>1. /\ s \o o \in Seq(S) /\ Len(s \o o) = Len(s) + Len(o)
          /\ \A i \in 1 .. Len(s) + Len(o) :
               (s \o o)[i] = IF i <= Len(s) THEN s[i] ELSE o[i - Len(s)]
      BY ConcatProperties
    <3> QED
      BY <3>1
  <2>3. PICK h \in Seq(S) :
          /\ h = g \o t /\ Len(h) = Len(g) + Len(t)
          /\ \A i \in 1 .. Len(g) + Len(t) : h[i] = IF i <= Len(g) THEN g[i] ELSE t[i - Len(g)]
    <3>1. /\ g \o t \in Seq(S) /\ Len(g \o t) = Len(g) + Len(t)
          /\ \A i \in 1 .. Len(g) + Len(t) :
               (g \o t)[i] = IF i <= Len(g) THEN g[i] ELSE t[i - Len(g)]
      BY ConcatProperties
    <3> QED
      BY <3>1
  <2>4. PICK a \in Nat, m \in Nat : a = Len(s) /\ m = Len(t)
    OBVIOUS
  <2>5. Len(g) = a + 1 /\ g[a + 1] = <<n, v>> /\ \A i \in 1 .. a : g[i][1] # n
    BY <2>1, <2>2, <2>4 DEF Lacks
  <2>6. DOMAIN h = 1 .. a + 1 + m /\ h[a + 1] = <<n, v>>
    BY <2>3, <2>4, <2>5
  <2>7. ASSUME NEW i \in 1 .. a + 1 + m, i # a + 1 PROVE h[i][1] # n
    <3>1. CASE i <= a
      BY <2>3, <2>4, <2>5, <3>1
    <3>2. CASE i > a + 1
      <4>1. h[i] = t[i - (a + 1)] /\ i - (a + 1) \in 1 .. m
        BY <2>3, <2>4, <2>5, <3>2
      <4> QED
        BY <2>4, <4>1 DEF Lacks
    <3> QED
      BY <2>4, <2>7, <3>1, <3>2
  <2>8. h[a + 1][1] = n /\ h[a + 1][2] = v
    BY <2>6
  <2>9. Occurrences(h, n) = {a + 1}
    BY <2>4, <2>6, <2>7, <2>8 DEF Occurrences
  <2>10. Max({a + 1}) = a + 1
    BY <2>4 DEF Max
  <2>11. LastValue(h, n) = v
    BY <2>8, <2>9, <2>10 DEF LastValue
  <2> QED
    BY <2>1, <2>2, <2>3, <2>11
<1> QED
  BY <1>2, <1>3

LEMMA IntervalSize ==
  ASSUME NEW a \in Nat, NEW b \in Nat, a <= b
  PROVE  Cardinality((a + 1) .. b) = b - a
<1>1. PICK c \in Int : c = a + 1
  OBVIOUS
<1>2. Cardinality(c .. b) = IF c > b THEN 0 ELSE b - c + 1
  BY FS_Interval
<1> QED
  BY <1>1, <1>2

\* All values of a repeated field that was written last are read back.
LEMMA RepeatedField ==
  ASSUME NEW S, NEW s \in Seq(S), NEW t \in Seq(S), NEW n \in Nat, Lacks(s, n),
         \A i \in 1 .. Len(t) : t[i][1] = n
  PROVE  /\ DOMAIN Values(s \o t, n) = 1 .. Len(t)
         /\ \A i \in 1 .. Len(t) : Values(s \o t, n)[i] = t[i][2]
<1> DEFINE f == s \o t
           a == Len(s)
           m == Len(t)
           at == Occurrences(f, n)
           nth(k) == CHOOSE i \in at : Cardinality({j \in at : j <= i}) = k
<1>1. a \in Nat /\ m \in Nat
  OBVIOUS
<1>2. /\ DOMAIN f = 1 .. a + m
      /\ \A i \in 1 .. a + m : f[i] = IF i <= a THEN s[i] ELSE t[i - a]
  BY ConcatProperties
<1> HIDE DEF f
<1>3. at = (a + 1) .. (a + m)
  <2>1. \A i \in 1 .. a + m : f[i][1] = n <=> i > a
    BY <1>1, <1>2 DEF Lacks
  <2> QED
    BY <1>1, <1>2, <2>1 DEF Occurrences
<1> HIDE DEF at
<1>4. Cardinality(at) = m
  <2>1. PICK b \in Nat : b = a + m /\ a <= b
    BY <1>1
  <2>2. Cardinality((a + 1) .. b) = b - a
    BY <1>1, <2>1, IntervalSize
  <2> QED
    BY <1>1, <1>3, <2>1, <2>2
<1>5. ASSUME NEW k \in 1 .. m PROVE nth(k) = a + k
  <2>1. ASSUME NEW i \in at PROVE Cardinality({j \in at : j <= i}) = i - a
    <3>1. i \in Nat /\ a <= i
      BY <1>1, <1>3
    <3>2. {j \in at : j <= i} = (a + 1) .. i
      BY <1>1, <1>3, <3>1
    <3> QED
      BY <1>1, <3>1, <3>2, IntervalSize
  <2>2. a + k \in at /\ \A i \in at : i - a = k => i = a + k
    BY <1>1, <1>3
  <2>3. Cardinality({j \in at : j <= a + k}) = k
    BY <1>1, <2>1, <2>2
  <2>4. \A i \in at : Cardinality({j \in at : j <= i}) = k => i = a + k
    BY <2>1, <2>2
  <2> QED
    BY <2>2, <2>3, <2>4
<1>6. Values(f, n) = [k \in 1 .. Cardinality(at) |-> f[nth(k)][2]]
  BY DEF Values, at
<1> HIDE DEF nth
<1>7. \A k \in 1 .. m : f[nth(k)] = t[k]
  BY <1>1, <1>2, <1>5
<1> QED
  BY <1>4, <1>6, <1>7 DEF f

-----------------------------------------------------------------------------
(* Encoder and parser.                                                     *)

LEMMA EmptyLacks == \A n : Lacks(<< >>, n)
BY DEF Lacks

\* A phone number is parsed as it was encoded.
LEMMA PhoneRoundTrip ==
  ASSUME NEW p \in PhoneNumbers
  PROVE  SerializePhone(p) \in Seq(PhoneFields) /\ ParsePhone(SerializePhone(p)) = p
<1> DEFINE a == Optional(1, p.number)
           b == Optional(2, p.type)
<1>1. /\ p = [number |-> p.number, type |-> p.type]
      /\ p.number \in Strings /\ p.type \in {Unset, MOBILE, HOME, WORK}
  BY DEF PhoneNumbers
<1>2. <<1, p.number>> \in PhoneFields /\ (p.type # Unset => <<2, p.type>> \in PhoneFields)
  BY <1>1 DEF PhoneFields
<1>3. a \in Seq(PhoneFields) /\ Lacks(a, 2)
  BY <1>2, OptionalFacts
<1>4. b \in Seq(PhoneFields) /\ Lacks(b, 1)
  BY <1>2, OptionalFacts
<1>5. LastValue((<< >> \o a) \o b, 1) = p.number
  BY <1>2, <1>4, EmptyLacks, EmptySeq, SingularField
<1>6. LastValue((a \o b) \o << >>, 2) = p.type
  BY <1>2, <1>3, EmptyLacks, EmptySeq, SingularField
<1> HIDE DEF a, b
<1>7. a \o b \in Seq(PhoneFields)
  BY <1>3, <1>4, ConcatProperties
<1>8. << >> \o a = a /\ (a \o b) \o << >> = a \o b
  BY <1>3, <1>7, ConcatEmptySeq
<1> QED
  BY <1>1, <1>5, <1>6, <1>7, <1>8 DEF a, b, SerializePhone, ParsePhone

\* So is a person: an optional field that was not set is not set, one that
\* was set to an empty string or to its default value is set to it.
LEMMA PersonRoundTrip ==
  ASSUME NEW p \in Persons
  PROVE  SerializePerson(p) \in Seq(PersonFields) /\ ParsePerson(SerializePerson(p)) = p
<1> DEFINE a == Optional(1, p.name)
           b == Optional(2, p.id)
           c == Optional(3, p.email)
           d == [i \in DOMAIN p.phones |-> <<4, SerializePhone(p.phones[i])>>]
<1>1. /\ p = [name |-> p.name, id |-> p.id, email |-> p.email, phones |-> p.phones]
      /\ p.name \in Strings \cup {Blank, Unset} /\ p.id \in PersonIds \cup {Unset}
      /\ p.email \in Strings \cup {Unset} /\ p.phones \in Seq(PhoneNumbers)
  BY DEF Persons
<1>2. /\ p.name # Unset => <<1, p.name>> \in PersonFields
      /\ p.id # Unset => <<2, p.id>> \in PersonFields
      /\ p.email # Unset => <<3, p.email>> \in PersonFields
  BY <1>1 DEF PersonFields
<1>3. a \in Seq(PersonFields) /\ Lacks(a, 2) /\ Lacks(a, 3) /\ Lacks(a, 4)
  <2>1. p.name # Unset => <<1, p.name>> \in PersonFields
    BY <1>2
  <2> QED
    BY <2>1, OptionalFacts
<1>4. b \in Seq(PersonFields) /\ Lacks(b, 1) /\ Lacks(b, 3) /\ Lacks(b, 4)
  BY <1>2, OptionalFacts
<1>5. c \in Seq(PersonFields) /\ Lacks(c, 1) /\ Lacks(c, 2) /\ Lacks(c, 4)
  BY <1>2, OptionalFacts
<1>6. PICK m \in Nat : m = Len(p.phones) /\ DOMAIN p.phones = 1 .. m
  BY <1>1
<1>7. \A i \in 1 .. m : p.phones[i] \in PhoneNumbers
  BY <1>1, <1>6
<1>8. \A i \in 1 .. m : /\ SerializePhone(p.phones[i]) \in Seq(PhoneFields)
                        /\ ParsePhone(SerializePhone(p.phones[i])) = p.phones[i]
  BY <1>7, PhoneRoundTrip
<1>9. \A i \in 1 .. m : d[i] \in PersonFields /\ d[i][1] = 4
                        /\ d[i][2] = SerializePhone(p.phones[i])
  BY <1>6, <1>8 DEF PersonFields
<1>10. d \in Seq(PersonFields) /\ Len(d) = m /\ \A i \in 1 .. Len(d) : d[i][1] = 4
  <2>1. PICK e : e = d
    OBVIOUS
  <2>2. e \in [1 .. m -> PersonFields] /\ \A i \in 1 .. m : e[i][1] = 4
    BY <1>6, <1>9, <2>1
  <2>3. e \in Seq(PersonFields) /\ Len(e) = m
    BY <2>2
  <2> QED
    BY <2>1, <2>2, <2>3
<1> HIDE DEF a, b, c, d
<1>11. Lacks(d, 1) /\ Lacks(d, 2) /\ Lacks(d, 3)
  BY <1>9, <1>10 DEF Lacks
<1>12. /\ a \o b \in Seq(PersonFields) /\ b \o c \in Seq(PersonFields)
       /\ c \o d \in Seq(PersonFields)
  BY <1>3, <1>4, <1>5, <1>10, ConcatProperties
<1>13. /\ (a \o b) \o c \in Seq(PersonFields) /\ (b \o c) \o d \in Seq(PersonFields)
       /\ ((a \o b) \o c) \o d \in Seq(PersonFields)
  <2>1. (a \o b) \o c \in Seq(PersonFields)
    BY <1>5, <1>12, ConcatProperties
  <2>2. (b \o c) \o d \in Seq(PersonFields)
    BY <1>10, <1>12, ConcatProperties
  <2>3. ((a \o b) \o c) \o d \in Seq(PersonFields)
    BY <1>10, <2>1, ConcatProperties
  <2> QED
    BY <2>1, <2>2, <2>3
<1>14. LastValue(((a \o b) \o c) \o d, 1) = p.name
  <2>1. Lacks(b \o c, 1)
    BY <1>4, <1>5, LacksConcat
  <2>2. Lacks((b \o c) \o d, 1)
    BY <1>10, <1>11, <1>12, <2>1, LacksConcat
  <2>3. LastValue((<< >> \o a) \o ((b \o c) \o d), 1) = p.name
    BY <1>2, <1>13, <2>2, EmptyLacks, EmptySeq, SingularField DEF a
  <2>4. << >> \o a = a
    BY <1>3, ConcatEmptySeq
  <2>5. a \o ((b \o c) \o d) = (a \o (b \o c)) \o d
    <3>1. PICK bc \in Seq(PersonFields) : bc = b \o c
      BY <1>12
    <3>2. (a \o bc) \o d = a \o (bc \o d)
      BY <1>3, <1>10, ConcatAssociative, SMTT(30)
    <3> QED
      BY <3>1, <3>2
  <2>6. a \o (b \o c) = (a \o b) \o c
    BY <1>3, <1>4, <1>5, ConcatAssociative, SMTT(30)
  <2>7. LastValue(a \o ((b \o c) \o d), 1) = p.name
    BY <2>3, <2>4
  <2> QED
    BY <2>5, <2>6, <2>7
<1>15. LastValue(((a \o b) \o c) \o d, 2) = p.id
  <2>1. Lacks(c \o d, 2)
    BY <1>5, <1>10, <1>11, LacksConcat
  <2>2. LastValue((a \o b) \o (c \o d), 2) = p.id
    BY <1>2, <1>3, <1>12, <2>1, SingularField DEF b
  <2>3. (a \o b) \o (c \o d) = ((a \o b) \o c) \o d
    <3>1. PICK ab \in Seq(PersonFields) : ab = a \o b
      BY <1>12
    <3>2. (ab \o c) \o d = ab \o (c \o d)
      BY <1>5, <1>10, ConcatAssociative, SMTT(30)
    <3> QED
      BY <3>1, <3>2
  <2> QED
    BY <2>2, <2>3
<1>16. LastValue(((a \o b) \o c) \o d, 3) = p.email
  <2>1. Lacks(a \o b, 3)
    BY <1>3, <1>4, LacksConcat
  <2> QED
    BY <1>2, <1>10, <1>11, <1>12, <2>1, SingularField DEF c
<1>17. /\ DOMAIN Values(((a \o b) \o c) \o d, 4) = 1 .. m
       /\ \A i \in 1 .. m : Values(((a \o b) \o c) \o d, 4)[i] = SerializePhone(p.phones[i])
  <2>1. Lacks(a \o b, 4)
    BY <1>3, <1>4, LacksConcat
  <2>2. Lacks((a \o b) \o c, 4)
    BY <1>5, <1>12, <2>1, LacksConcat
  <2>3. /\ DOMAIN Values(((a \o b) \o c) \o d, 4) = 1 .. Len(d)
        /\ \A i \in 1 .. Len(d) : Values(((a \o b) \o c) \o d, 4)[i] = d[i][2]
    <3>1. PICK s \in Seq(PersonFields) : s = (a \o b) \o c
      BY <1>13
    <3>2. /\ DOMAIN Values(s \o d, 4) = 1 .. Len(d)
          /\ \A i \in 1 .. Len(d) : Values(s \o d, 4)[i] = d[i][2]
      <4>1. Lacks(s, 4) /\ d \in Seq(PersonFields) /\ \A i \in 1 .. Len(d) : d[i][1] = 4
        BY <1>10, <2>2, <3>1
      <4> QED
        BY <4>1, RepeatedField
    <3> QED
      BY <3>1, <3>2
  <2> QED
    BY <1>9, <1>10, <2>3
<1>18. PICK f : f = ((a \o b) \o c) \o d
  OBVIOUS
<1>19. SerializePerson(p) = f
  BY <1>18 DEF SerializePerson, a, b, c, d
<1>20. [i \in 1 .. m |-> ParsePhone(SerializePhone(p.phones[i]))] = p.phones
  BY <1>1, <1>6, <1>8
<1>21. ParsePerson(f).phones = p.phones
  <2>1. PICK v : v = Values(f, 4)
    OBVIOUS
  <2>2. DOMAIN v = 1 .. m /\ \A i \in 1 .. m : v[i] = SerializePhone(p.phones[i])
    BY <1>17, <1>18, <2>1
  <2>3. [i \in DOMAIN v |-> ParsePhone(v[i])] = p.phones
    BY <1>20, <2>2
  <2> QED
    BY <2>1, <2>3 DEF ParsePerson
<1>22. ParsePerson(f) = [name |-> p.name, id |-> p.id, email |-> p.email, phones |-> p.phones]
  BY <1>14, <1>15, <1>16, <1>18, <1>21 DEF ParsePerson
<1> QED
  BY <1>1, <1>13, <1>18, <1>19, <1>22

\* A whole book is parsed as it was encoded; one followed by a beginning of
\* a person is not parsed.
THEOREM BookRoundTrip ==
  ASSUME NEW b \in Seq(Persons)
  PROVE  /\ Serialize(b) \in Seq(BookFields) /\ Len(Serialize(b)) = Len(b)
         /\ ~IsBroken(Serialize(b)) /\ Parse(Serialize(b)) = b
         /\ IsBroken(Append(Serialize(b), Fragment))
<1>1. PICK m \in Nat : m = Len(b) /\ DOMAIN b = 1 .. m /\ \A i \in 1 .. m : b[i] \in Persons
  OBVIOUS
<1>2. \A i \in 1 .. m : /\ SerializePerson(b[i]) \in Seq(PersonFields)
                        /\ ParsePerson(SerializePerson(b[i])) = b[i]
  BY <1>1, PersonRoundTrip
<1>3. PICK f : f = Serialize(b)
  OBVIOUS
<1>4. /\ DOMAIN f = 1 .. m /\ f = [i \in 1 .. m |-> <<1, SerializePerson(b[i])>>]
      /\ \A i \in 1 .. m : f[i][1] = 1 /\ f[i][2] = SerializePerson(b[i]) /\ f[i] \in BookFields
  BY <1>1, <1>2, <1>3 DEF Serialize, BookFields
<1>5. f \in Seq(BookFields) /\ Len(f) = m
  BY <1>4
<1>6. ~IsBroken(f)
  BY <1>4, FragmentAssumption DEF IsBroken
<1>7. PICK v : v = Values(f, 1)
  OBVIOUS
<1>8. DOMAIN v = 1 .. m /\ \A i \in 1 .. m : v[i] = SerializePerson(b[i])
  <2>1. << >> \o f = f
    BY <1>5, ConcatEmptySeq
  <2>2. /\ DOMAIN Values(<< >> \o f, 1) = 1 .. Len(f)
        /\ \A i \in 1 .. Len(f) : Values(<< >> \o f, 1)[i] = f[i][2]
    <3>1. \A i \in 1 .. Len(f) : f[i][1] = 1
      BY <1>4, <1>5
    <3>2. PICK s \in Seq(BookFields) : s = << >>
      BY EmptySeq
    <3>3. /\ DOMAIN Values(s \o f, 1) = 1 .. Len(f)
          /\ \A i \in 1 .. Len(f) : Values(s \o f, 1)[i] = f[i][2]
      <4>1. Lacks(s, 1)
        BY <3>2, EmptyLacks
      <4> QED
        BY <1>5, <3>1, <4>1, RepeatedField
    <3> QED
      BY <3>2, <3>3
  <2> QED
    BY <1>4, <1>5, <1>7, <2>1, <2>2
<1>9. [i \in DOMAIN v |-> ParsePerson(v[i])] = b
  BY <1>1, <1>2, <1>8
<1>10. Parse(f) = b
  BY <1>6, <1>7, <1>9 DEF Parse
<1>11. IsBroken(Append(f, Fragment))
  <2>1. Append(f, Fragment) \in Seq(BookFields \cup {Fragment})
    BY <1>5
  <2>2. Len(Append(f, Fragment)) = m + 1 /\ Append(f, Fragment)[m + 1] = Fragment
    BY <1>5
  <2>3. m + 1 \in DOMAIN Append(f, Fragment)
    BY <2>1, <2>2
  <2> QED
    BY <2>2, <2>3 DEF IsBroken
<1> QED
  BY <1>1, <1>3, <1>5, <1>6, <1>10, <1>11

-----------------------------------------------------------------------------
(* The questions.                                                          *)

\* What the setters make of a person.
LEMMA EditTypes ==
  ASSUME NEW p \in Persons
  PROVE  /\ \A v \in PersonIds :
              /\ set_id(p, v) \in Persons /\ set_id(p, v).id = v
              /\ set_id(p, v).name = p.name
         /\ \A v \in Strings \cup {Blank} :
              /\ mutable_name(p, v) \in Persons /\ mutable_name(p, v).name = v
              /\ mutable_name(p, v).id = p.id
         /\ \A v \in Strings :
              /\ set_email(p, v) \in Persons
              /\ set_email(p, v).id = p.id /\ set_email(p, v).name = p.name
BY DEF Persons, set_id, mutable_name, set_email

LEMMA AddPhoneType ==
  ASSUME NEW p \in Persons, NEW v \in Strings
  PROVE  LET q == add_phones(p, set_number(NewPhoneNumber, v))
         IN  q \in Persons /\ q.id = p.id /\ q.name = p.name /\ q.phones # << >>
<1>1. set_number(NewPhoneNumber, v) \in PhoneNumbers
  BY DEF set_number, NewPhoneNumber, PhoneNumbers
<1>2. PICK x \in PhoneNumbers : x = set_number(NewPhoneNumber, v)
  BY <1>1
<1>3. p.phones \in Seq(PhoneNumbers)
  BY DEF Persons
<1>4. Append(p.phones, x) \in Seq(PhoneNumbers) /\ Append(p.phones, x) # << >>
  BY <1>3, AppendProperties
<1>5. /\ add_phones(p, x) \in Persons
      /\ add_phones(p, x).id = p.id /\ add_phones(p, x).name = p.name
      /\ add_phones(p, x).phones = Append(p.phones, x)
  BY <1>4 DEF Persons, add_phones
<1> QED
  BY <1>2, <1>4, <1>5

LEMMA SetTypeType ==
  ASSUME NEW p \in Persons, p.phones # << >>, NEW v \in {Unset, MOBILE, HOME, WORK}
  PROVE  /\ set_type(p, v) \in Persons
         /\ set_type(p, v).id = p.id /\ set_type(p, v).name = p.name
<1>1. PICK s \in Seq(PhoneNumbers), n \in Nat \ {0} : s = p.phones /\ n = Len(s)
  BY EmptySeq DEF Persons
<1>2. s[n] \in PhoneNumbers /\ n \in 1 .. Len(s)
  BY <1>1
<1>3. [s[n] EXCEPT !.type = v] \in PhoneNumbers
  BY <1>2 DEF PhoneNumbers
<1>4. [s EXCEPT ![n] = [s[n] EXCEPT !.type = v]] \in Seq(PhoneNumbers)
  BY <1>2, <1>3, ExceptSeq
<1>5. set_type(p, v) = [p EXCEPT !.phones = [s EXCEPT ![n] = [s[n] EXCEPT !.type = v]]]
  BY <1>1 DEF set_type, Persons
<1> QED
  BY <1>4, <1>5 DEF Persons

LEMMA TypeOfType == \A line : TypeOf(line) \in {Unset, MOBILE, HOME, WORK}
BY DEF TypeOf

\* A question leaves everything but the answer and the state of cin alone.
LEMMA AskFacts ==
  ASSUME TypeOK, FormShape, NEW w \in Writers, PromptForAddress(w)
  PROVE  /\ pc[w] \in Prompting /\ pc'[w] \in Prompting \cup {"open"}
         /\ pc' \in [Writers -> Running \cup {"read", "exit_ok", "exit_error", "killed"}]
         /\ person' \in [Writers -> Persons] /\ input' \in [Writers -> {"good", "failed"}]
         /\ \A v \in Writers \ {w} : pc'[v] = pc[v] /\ person'[v] = person[v]
         /\ pc'[w] \in Running \ {"id"} => person'[w].id # Unset
         /\ pc'[w] \in Running \ {"id", "name"} => person'[w].name # Unset
         /\ pc'[w] = "type" => person'[w].phones # << >>
         /\ UNCHANGED <<file, book, committed, overlapped, interrupted>>
<1>1. /\ person \in [Writers -> Persons] /\ input \in [Writers -> {"good", "failed"}]
      /\ pc \in [Writers -> Running \cup {"read", "exit_ok", "exit_error", "killed"}]
      /\ person[w] \in Persons
  BY DEF TypeOK
<1>2. /\ pc[w] \in Running \ {"id"} => person[w].id # Unset
      /\ pc[w] \in Running \ {"id", "name"} => person[w].name # Unset
      /\ pc[w] = "type" => person[w].phones # << >>
  BY DEF FormShape
<1>3. InputGoesOn(w) => input' \in [Writers -> {"good", "failed"}]
  BY <1>1 DEF InputGoesOn
<1>4. \A lines, line : Getline(w, lines, line) =>
        /\ input' \in [Writers -> {"good", "failed"}]
        /\ line \in lines \cup {Blank}
  BY <1>1, <1>3 DEF Getline
<1>5. Unset \notin PersonIds /\ Unset \notin Strings \cup {Blank}
  BY UnsetAssumption
<1>6. CASE EnterId(w)
  <2>1. PICK value \in PersonIds :
          /\ person' = [person EXCEPT ![w] = set_id(@, value)]
          /\ IF value \in TypedIds THEN InputGoesOn(w)
             ELSE input' = [input EXCEPT ![w] = "failed"]
    BY <1>6 DEF EnterId
  <2>2. input' \in [Writers -> {"good", "failed"}]
    BY <1>1, <1>3, <2>1
  <2>3. person'[w] = set_id(person[w], value) /\ person' \in [Writers -> Persons]
    BY <1>1, <2>1, EditTypes
  <2>4. pc[w] = "id" /\ pc' = [pc EXCEPT ![w] = "name"] /\ UNCHANGED <<file, book, history>>
    BY <1>6 DEF EnterId, Goto
  <2>5. person'[w].id # Unset
    BY <1>1, <1>5, <2>1, <2>3, EditTypes
  <2> QED
    BY <1>1, <2>1, <2>2, <2>3, <2>4, <2>5 DEF Prompting, Running, history
<1>7. CASE EnterName(w)
  <2>1. PICK line \in Strings \cup {Blank} :
          /\ Getline(w, Strings, line)
          /\ person' = [person EXCEPT ![w] = mutable_name(@, line)]
    BY <1>7 DEF EnterName
  <2>2. pc[w] = "name" /\ pc' = [pc EXCEPT ![w] = "email"] /\ UNCHANGED <<file, book, history>>
    BY <1>7 DEF EnterName, Goto
  <2>3. person'[w] = mutable_name(person[w], line) /\ person' \in [Writers -> Persons]
    BY <1>1, <2>1, EditTypes
  <2>4. person'[w].id # Unset /\ person'[w].name # Unset
    BY <1>1, <1>2, <1>5, <2>2, <2>3, EditTypes DEF Running, Prompting
  <2> QED
    BY <1>1, <1>4, <2>1, <2>2, <2>3, <2>4 DEF Prompting, Running, history
<1>8. CASE EnterEmail(w)
  <2>1. PICK line \in Strings \cup {Blank} :
          /\ Getline(w, Strings, line)
          /\ person' = IF line = Blank THEN person
                       ELSE [person EXCEPT ![w] = set_email(@, line)]
    BY <1>8 DEF EnterEmail
  <2>2. pc[w] = "email" /\ pc' = [pc EXCEPT ![w] = "number"] /\ UNCHANGED <<file, book, history>>
    BY <1>8 DEF EnterEmail, Goto
  <2>3. person[w].id # Unset /\ person[w].name # Unset
    BY <1>2, <2>2 DEF Running, Prompting
  <2>4. /\ person' \in [Writers -> Persons]
        /\ person'[w].id # Unset /\ person'[w].name # Unset
        /\ \A v \in Writers \ {w} : person'[v] = person[v]
    <3>1. CASE line = Blank
      BY <1>1, <2>1, <2>3, <3>1
    <3>2. CASE line \in Strings /\ line # Blank
      <4>1. person'[w] = set_email(person[w], line)
        BY <1>1, <2>1, <3>2
      <4> QED
        BY <1>1, <2>1, <2>3, <3>2, <4>1, EditTypes
    <3> QED
      BY <3>1, <3>2
  <2> QED
    BY <1>1, <1>4, <2>1, <2>2, <2>4 DEF Prompting, Running, history
<1>9. CASE EnterNumber(w)
  <2>1. PICK line \in Strings \cup {Blank} : Getline(w, Strings, line) /\ AddNumber(w, line)
    BY <1>9 DEF EnterNumber
  <2>2. pc[w] = "number" /\ UNCHANGED <<file, book, history>>
    BY <1>9 DEF EnterNumber
  <2>3. person[w].id # Unset /\ person[w].name # Unset
    BY <1>2, <2>2 DEF Running, Prompting
  <2>4. CASE line = Blank
    <3>1. pc' = [pc EXCEPT ![w] = "open"] /\ UNCHANGED person
      BY <2>1, <2>4 DEF AddNumber, Goto
    <3> QED
      BY <1>1, <1>4, <2>1, <2>2, <2>3, <3>1 DEF Prompting, Running, history
  <2>5. CASE line \in Strings /\ line # Blank
    <3>1. PICK q : q = add_phones(person[w], set_number(NewPhoneNumber, line))
      OBVIOUS
    <3>2. pc' = [pc EXCEPT ![w] = "type"] /\ person' = [person EXCEPT ![w] = q]
      BY <2>1, <2>5, <3>1 DEF AddNumber, Goto
    <3>3. q \in Persons /\ q.id # Unset /\ q.name # Unset /\ q.phones # << >>
      BY <1>1, <2>3, <2>5, <3>1, AddPhoneType
    <3>4. person' \in [Writers -> Persons] /\ person'[w] = q
      BY <1>1, <3>2, <3>3
    <3> QED
      BY <1>1, <1>4, <2>1, <2>2, <3>2, <3>3, <3>4 DEF Prompting, Running, history
  <2> QED
    BY <2>4, <2>5
<1>10. CASE EnterType(w)
  <2>1. PICK line \in TypedTypes \cup {Blank} :
          /\ Getline(w, TypedTypes, line)
          /\ person' = [person EXCEPT ![w] = set_type(@, TypeOf(line))]
    BY <1>10 DEF EnterType
  <2>2. pc[w] = "type" /\ pc' = [pc EXCEPT ![w] = "number"] /\ UNCHANGED <<file, book, history>>
    BY <1>10 DEF EnterType, Goto
  <2>3. person[w].id # Unset /\ person[w].name # Unset /\ person[w].phones # << >>
    BY <1>2, <2>2 DEF Running, Prompting
  <2>4. PICK q : q = set_type(person[w], TypeOf(line))
    OBVIOUS
  <2>5. q \in Persons /\ q.id # Unset /\ q.name # Unset
    BY <1>1, <2>3, <2>4, TypeOfType, SetTypeType
  <2>6. person' \in [Writers -> Persons] /\ person'[w] = q
    BY <1>1, <2>1, <2>4, <2>5
  <2> QED
    BY <1>1, <1>4, <2>1, <2>2, <2>5, <2>6 DEF Prompting, Running, history
<1> QED
  BY <1>6, <1>7, <1>8, <1>9, <1>10 DEF PromptForAddress

-----------------------------------------------------------------------------
(* Types.                                                                  *)

LEMMA MoveFacts ==
  ASSUME TypeOK, NEW w \in Writers, ReadBook(w) \/ OpenOutput(w) \/ WriteBook(w) \/ Kill(w)
  PROVE  /\ pc' \in [Writers -> Running \cup {"read", "exit_ok", "exit_error", "killed"}]
         /\ \A v \in Writers \ {w} : pc'[v] = pc[v]
         /\ \/ pc[w] = "read" /\ pc'[w] \in {"id", "exit_error"}
            \/ pc[w] = "open" /\ pc'[w] \in {"write", "exit_error"}
            \/ pc[w] = "write" /\ pc'[w] \in {"exit_ok", "exit_error"}
            \/ pc[w] \in Running /\ pc'[w] = "killed"
         /\ DOMAIN book' = Writers
         /\ overlapped' \in BOOLEAN /\ interrupted' \in BOOLEAN
         /\ UNCHANGED <<input, person>>
<1>1. /\ pc \in [Writers -> Running \cup {"read", "exit_ok", "exit_error", "killed"}]
      /\ DOMAIN book = Writers /\ overlapped \in BOOLEAN /\ interrupted \in BOOLEAN
  BY DEF TypeOK
<1>2. CASE ReadBook(w)
  <2>1. /\ pc[w] = "read"
        /\ \/ pc' = [pc EXCEPT ![w] = "exit_error"] \/ pc' = [pc EXCEPT ![w] = "id"]
        /\ overlapped' = (overlapped \/ \E v \in Writers : pc[v] \in Running)
        /\ UNCHANGED <<input, person, interrupted>>
    BY <1>2 DEF ReadBook, Goto
  <2>2. DOMAIN book' = Writers
    BY <1>1, <1>2 DEF ReadBook
  <2> QED
    BY <1>1, <2>1, <2>2 DEF Running, Prompting
<1>3. CASE OpenOutput(w)
  BY <1>1, <1>3 DEF OpenOutput, Goto, history, Running
<1>4. CASE WriteBook(w)
  <2>1. /\ pc[w] = "write"
        /\ \/ pc' = [pc EXCEPT ![w] = "exit_ok"] \/ pc' = [pc EXCEPT ![w] = "exit_error"]
        /\ interrupted' = interrupted \/ interrupted' = TRUE
        /\ UNCHANGED <<input, book, person, overlapped>>
    BY <1>4 DEF WriteBook, Goto
  <2> QED
    BY <1>1, <2>1
<1>5. CASE Kill(w)
  <2>1. /\ pc[w] \in Running /\ pc' = [pc EXCEPT ![w] = "killed"]
        /\ interrupted' = (interrupted \/ pc[w] = "write")
        /\ UNCHANGED <<input, book, person, overlapped>>
    BY <1>5 DEF Kill, Goto
  <2> QED
    BY <1>1, <2>1
<1> QED
  BY <1>2, <1>3, <1>4, <1>5

LEMMA InitForm == Init => TypeOK /\ FormShape
<1> SUFFICES ASSUME Init PROVE TypeOK /\ FormShape
  OBVIOUS
<1>1. NewPerson \in Persons
  BY EmptySeq DEF NewPerson, Persons
<1>2. \A w \in Writers : pc[w] = "read"
  BY DEF Init
<1>3. TypeOK
  BY <1>1, <1>2 DEF Init, TypeOK
<1> QED
  BY <1>2, <1>3 DEF FormShape, Running, Prompting

LEMMA NextForm ==
  TypeOK /\ FormShape /\ [Next]_vars => TypeOK' /\ FormShape'
<1> SUFFICES ASSUME TypeOK, FormShape, [Next]_vars PROVE TypeOK' /\ FormShape'
  OBVIOUS
<1>1. ASSUME NEW w \in Writers, PromptForAddress(w) PROVE TypeOK' /\ FormShape'
  <2>1. FormShape'
    BY <1>1, AskFacts DEF FormShape
  <2>2. pc'[w] \notin {"read", "exit_ok", "exit_error", "killed"}
    BY <1>1, AskFacts DEF Prompting
  <2>3. \A v \in Writers : pc'[v] \in {"open", "write", "exit_ok"} =>
          person'[v].id # Unset /\ person'[v].name # Unset
    BY <1>1, <2>2, AskFacts DEF TypeOK, Running, Prompting
  <2> QED
    BY <1>1, <2>1, <2>3, AskFacts DEF TypeOK
<1>2. ASSUME NEW w \in Writers, ReadBook(w) \/ OpenOutput(w) \/ WriteBook(w) \/ Kill(w)
      PROVE  TypeOK' /\ FormShape'
  <2>1. /\ pc' \in [Writers -> Running \cup {"read", "exit_ok", "exit_error", "killed"}]
        /\ \A v \in Writers \ {w} : pc'[v] = pc[v]
        /\ \/ pc[w] = "read" /\ pc'[w] \in {"id", "exit_error"}
           \/ pc[w] = "open" /\ pc'[w] \in {"write", "exit_error"}
           \/ pc[w] = "write" /\ pc'[w] \in {"exit_ok", "exit_error"}
           \/ pc[w] \in Running /\ pc'[w] = "killed"
        /\ DOMAIN book' = Writers
        /\ overlapped' \in BOOLEAN /\ interrupted' \in BOOLEAN
        /\ UNCHANGED <<input, person>>
    BY <1>2, MoveFacts
  <2>2. \A v \in Writers : pc[v] \in {"open", "write", "exit_ok"} =>
          person[v].id # Unset /\ person[v].name # Unset
    BY DEF TypeOK
  <2>3. \A v \in Writers : pc'[v] \in {"open", "write", "exit_ok"} =>
          person[v].id # Unset /\ person[v].name # Unset
    BY <2>1, <2>2
  <2>4. TypeOK'
    BY <2>1, <2>3 DEF TypeOK
  <2>5. FormShape'
    BY <2>1, <2>3 DEF FormShape, Running, Prompting
  <2> QED
    BY <2>4, <2>5
<1>3. CASE UNCHANGED vars
  BY <1>3 DEF vars, history, TypeOK, FormShape
<1> QED
  BY <1>1, <1>2, <1>3 DEF Next

\* Whatever is typed at the prompts of write_message, and wherever the input
\* ends, the Person it adds has its ID and name set and phones only of the
\* types of the .proto file.
THEOREM BookTypeCorrect == Spec => []TypeOK
<1>1. Init => TypeOK /\ FormShape
  BY InitForm
<1> QED
  BY <1>1, NextForm, PTL DEF Spec

-----------------------------------------------------------------------------
(* The people of a book and the runs that entered them.                    *)

\* Runs that have ended change nothing any more.
LEMMA EnteredKept ==
  ASSUME NEW b, Entered(b), Ended \subseteq Ended',
         \A w \in Ended : person'[w] = person[w]
  PROVE  Entered(b)'
<1>1. PICK by \in [DOMAIN b -> Ended] :
        /\ \A i, j \in DOMAIN b : by[i] = by[j] => i = j
        /\ \A i \in DOMAIN b : b[i] = person[by[i]]
  BY DEF Entered
<1>2. by \in [DOMAIN b -> Ended'] /\ \A i \in DOMAIN b : b[i] = person'[by[i]]
  BY <1>1
<1> QED
  BY <1>1, <1>2 DEF Entered

LEMMA EnteredEmpty == Entered(<< >>)
<1>1. DOMAIN << >> = {}
  OBVIOUS
<1>2. [i \in {} |-> 0] \in [DOMAIN << >> -> Ended]
  BY <1>1
<1> QED
  BY <1>1, <1>2 DEF Entered

LEMMA EnteredPrefix ==
  ASSUME NEW b \in Seq(Persons), NEW k \in 0 .. Len(b), Entered(b)
  PROVE  SubSeq(b, 1, k) \in Seq(Persons) /\ Entered(SubSeq(b, 1, k))
<1>1. PICK c : c = SubSeq(b, 1, k)
  OBVIOUS
<1>2. c \in Seq(Persons) /\ Len(c) = k /\ \A i \in 1 .. k : c[i] = b[i]
  BY <1>1
<1>3. DOMAIN c = 1 .. k /\ DOMAIN c \subseteq DOMAIN b
  BY <1>2
<1>4. PICK by \in [DOMAIN b -> Ended] :
        /\ \A i, j \in DOMAIN b : by[i] = by[j] => i = j
        /\ \A i \in DOMAIN b : b[i] = person[by[i]]
  BY DEF Entered
<1>5. PICK by2 : by2 = [i \in DOMAIN c |-> by[i]]
  OBVIOUS
<1>6. by2 \in [DOMAIN c -> Ended] /\ \A i \in DOMAIN c : by2[i] = by[i]
  BY <1>3, <1>4, <1>5
<1>7. /\ \A i, j \in DOMAIN c : by2[i] = by2[j] => i = j
      /\ \A i \in DOMAIN c : c[i] = person[by2[i]]
  BY <1>2, <1>3, <1>4, <1>6
<1>8. Entered(c)
  BY <1>6, <1>7 DEF Entered
<1> QED
  BY <1>1, <1>2, <1>8

LEMMA EnteredMore ==
  ASSUME NEW b \in Seq(Persons), NEW w \in Writers, w \notin Ended, Ended' = Ended \cup {w},
         UNCHANGED person, Entered(b), person[w] \in Persons
  PROVE  Entered(Append(b, person[w]))'
<1>1. PICK p, c : p \in Persons /\ p = person[w] /\ c = Append(b, p)
  OBVIOUS
<1>2. PICK n \in Nat : n = Len(b) /\ DOMAIN b = 1 .. n
  OBVIOUS
<1>3. DOMAIN c = 1 .. n + 1 /\ c[n + 1] = p /\ \A i \in 1 .. n : c[i] = b[i]
  BY <1>1, <1>2
<1>4. PICK by \in [1 .. n -> Ended] :
        /\ \A i, j \in 1 .. n : by[i] = by[j] => i = j
        /\ \A i \in 1 .. n : b[i] = person[by[i]]
  BY <1>2 DEF Entered
<1>5. PICK by2 : by2 = [i \in 1 .. n + 1 |-> IF i = n + 1 THEN w ELSE by[i]]
  OBVIOUS
<1>6. /\ by2 \in [1 .. n + 1 -> Ended'] /\ by2[n + 1] = w
      /\ \A i \in 1 .. n : by2[i] = by[i] /\ by2[i] \in Ended
  BY <1>2, <1>4, <1>5
<1>7. ASSUME NEW i \in 1 .. n + 1, NEW j \in 1 .. n + 1, by2[i] = by2[j] PROVE i = j
  <2>1. \A k \in 1 .. n + 1 : k = n + 1 \/ k \in 1 .. n
    BY <1>2
  <2> QED
    BY <1>4, <1>6, <1>7, <2>1
<1>8. \A i \in 1 .. n + 1 : c[i] = person[by2[i]]
  <2>1. \A k \in 1 .. n + 1 : k = n + 1 \/ k \in 1 .. n
    BY <1>2
  <2> QED
    BY <1>1, <1>3, <1>4, <1>6, <2>1
<1>9. by2 \in [DOMAIN c -> Ended'] /\ \A i \in DOMAIN c : c[i] = person'[by2[i]]
  BY <1>3, <1>6, <1>8
<1>10. Entered(c)'
  BY <1>3, <1>7, <1>9 DEF Entered
<1> QED
  BY <1>1, <1>10

\* A file that holds the encoding of such people has the shape.
LEMMA FileFormed ==
  ASSUME NEW b \in Seq(Persons), Entered(b)',
         file' = Serialize(b) \/ file' = Append(Serialize(b), Fragment)
  PROVE  FileShape'
<1>1. PICK s \in Seq(BookFields \cup {Fragment}) : s = Serialize(b)
  BY BookRoundTrip, SeqMonotonic
<1>2. ~IsBroken(s) /\ Parse(s) = b /\ IsBroken(Append(s, Fragment))
  BY <1>1, BookRoundTrip
<1>3. PICK whole : whole = IF IsBroken(file)' THEN SubSeq(file', 1, Len(file') - 1) ELSE file'
  OBVIOUS
<1>4. whole = s
  <2>1. CASE file' = s
    BY <1>2, <1>3, <2>1 DEF IsBroken
  <2>2. CASE file' = Append(s, Fragment)
    <3>1. IsBroken(file)'
      BY <1>2, <2>2 DEF IsBroken
    <3>2. SubSeq(Append(s, Fragment), 1, Len(Append(s, Fragment)) - 1) = s
      <4>1. PICK t \in Seq(BookFields \cup {Fragment}) :
              t = Append(s, Fragment) /\ Len(t) = Len(s) + 1 /\ \A i \in 1 .. Len(s) : t[i] = s[i]
        <5>1. PICK S : S = BookFields \cup {Fragment}
          OBVIOUS
        <5>2. s \in Seq(S) /\ Fragment \in S
          BY <5>1
        <5>3. /\ Append(s, Fragment) \in Seq(S) /\ Len(Append(s, Fragment)) = Len(s) + 1
              /\ \A i \in 1 .. Len(s) : Append(s, Fragment)[i] = s[i]
          BY <5>2, AppendProperties
        <5> QED
          BY <5>1, <5>3
      <4>2. SubSeq(t, 1, Len(s)) = s
        <5>1. PICK u \in Seq(BookFields \cup {Fragment}) :
                u = SubSeq(t, 1, Len(s)) /\ Len(u) = Len(s) /\ \A i \in 1 .. Len(s) : u[i] = t[i]
          BY <4>1
        <5>2. u = s
          BY <4>1, <5>1, SeqEqual
        <5> QED
          BY <5>1, <5>2
      <4> QED
        BY <4>1, <4>2
    <3> QED
      BY <1>3, <2>2, <3>1, <3>2
  <2> QED
    BY <1>1, <2>1, <2>2
<1>5. Parse(whole) = b
  BY <1>2, <1>4
<1> QED
  BY <1>3, <1>5 DEF FileShape, Parse, IsBroken

\* What a file of that shape gives when it is read.
LEMMA FileOpened ==
  ASSUME FileShape, ~overlapped, file # Absent
  PROVE  \E b \in Seq(Persons) :
           /\ Entered(b)
           /\ \/ file = Serialize(b) /\ ~IsBroken(file) /\ Parse(file) = b
              \/ file = Append(Serialize(b), Fragment) /\ IsBroken(file) /\ Parse(file) = Failed
<1>1. PICK b \in Seq(Persons) :
        Entered(b) /\ (file = Serialize(b) \/ file = Append(Serialize(b), Fragment))
  BY DEF FileShape
<1>2. CASE file = Serialize(b)
  BY <1>1, <1>2, BookRoundTrip
<1>3. CASE file = Append(Serialize(b), Fragment)
  <2>1. IsBroken(file)
    BY <1>3, BookRoundTrip
  <2> QED
    BY <1>1, <1>3, <2>1 DEF Parse
<1> QED
  BY <1>1, <1>2, <1>3

LEMMA FileKept ==
  ASSUME FileShape, ~overlapped, UNCHANGED file, Ended \subseteq Ended',
         \A w \in Ended : person'[w] = person[w]
  PROVE  FileShape'
<1>1. CASE file = Absent
  BY <1>1 DEF FileShape
<1>2. CASE file # Absent
  <2>1. PICK b \in Seq(Persons) :
          Entered(b) /\ (file = Serialize(b) \/ file = Append(Serialize(b), Fragment))
    BY <1>2 DEF FileShape
  <2>2. Entered(b)'
    BY <2>1, EnteredKept
  <2> QED
    BY <2>1, <2>2, FileFormed
<1> QED
  BY <1>1, <1>2

LEMMA EndedGrows ==
  ASSUME TypeOK, FormShape, NEW w \in Writers,
         \/ PromptForAddress(w)
         \/ ReadBook(w) \/ OpenOutput(w) \/ WriteBook(w) \/ Kill(w)
  PROVE  Ended \subseteq Ended' /\ \A v \in Ended : person'[v] = person[v]
<1>1. CASE PromptForAddress(w)
  <2>1. /\ pc[w] \in Prompting
        /\ \A v \in Writers \ {w} : pc'[v] = pc[v] /\ person'[v] = person[v]
    BY <1>1, AskFacts
  <2>2. w \notin Ended
    BY <2>1 DEF Ended, Prompting
  <2> QED
    BY <2>1, <2>2 DEF Ended
<1>2. CASE ReadBook(w) \/ OpenOutput(w) \/ WriteBook(w) \/ Kill(w)
  <2>1. /\ UNCHANGED person /\ pc[w] \in Running \cup {"read"}
        /\ \A v \in Writers \ {w} : pc'[v] = pc[v]
    BY <1>2, MoveFacts DEF Running
  <2>2. w \notin Ended
    BY <2>1 DEF Ended, Running, Prompting
  <2> QED
    BY <2>1, <2>2 DEF Ended
<1> QED
  BY <1>1, <1>2

-----------------------------------------------------------------------------
(* One run after the other.                                                *)

\* The conjuncts of BookInv that hold until runs overlap.
BookCore == OneAtATime /\ FileShape /\ RunShape /\ CommittedShape

LEMMA PromptCore ==
  ASSUME TypeOK, FormShape, BookCore, ~overlapped, NEW w \in Writers, PromptForAddress(w)
  PROVE  BookCore'
<1>1. /\ pc[w] \in Prompting /\ pc'[w] \in Prompting \cup {"open"}
      /\ \A v \in Writers \ {w} : pc'[v] = pc[v]
      /\ UNCHANGED <<file, book, committed, overlapped, interrupted>>
  BY AskFacts
<1>2. Ended \subseteq Ended' /\ \A v \in Ended : person'[v] = person[v]
  BY EndedGrows
<1>3. \A v \in Writers : v # w => pc[v] \notin Running
  BY <1>1 DEF BookCore, OneAtATime, Running
<1>4. \A v \in Writers : v # w => pc'[v] \notin Running
  BY <1>1, <1>3
<1>5. OneAtATime'
  BY <1>4 DEF OneAtATime
<1>6. FileShape'
  BY <1>1, <1>2, FileKept DEF BookCore
<1>7. /\ book[w] \in Seq(Persons) /\ Entered(book[w])
      /\ IF file = Absent THEN book[w] = << >> ELSE Parse(file) = book[w]
  BY <1>1 DEF BookCore, RunShape, Running
<1>8. PICK b : b = book[w]
  OBVIOUS
<1>9. Entered(b)'
  BY <1>2, <1>7, <1>8, EnteredKept
<1>10. RunShape'
  <2>1. ASSUME NEW v \in Writers
        PROVE  /\ pc'[v] \in Running => book'[v] \in Seq(Persons) /\ Entered(book[v])'
               /\ pc'[v] \in Prompting \cup {"open"} =>
                    IF file' = Absent THEN book'[v] = << >> ELSE Parse(file)' = book'[v]
               /\ pc'[v] = "write" => file' = << >>
    <3>1. CASE v # w
      BY <1>4, <3>1 DEF Running
    <3>2. CASE v = w
      <4>1. book'[w] = b /\ file' = file /\ pc'[w] # "write"
        BY <1>1, <1>8 DEF Prompting
      <4>2. Entered(book[w])'
        BY <1>9, <4>1 DEF Entered
      <4>3. Parse(file)' = Parse(file)
        BY <4>1 DEF Parse, IsBroken
      <4> QED
        BY <1>7, <1>8, <3>2, <4>1, <4>2, <4>3
    <3> QED
      BY <3>1, <3>2
  <2> QED
    BY <2>1 DEF RunShape
<1>11. CommittedShape'
  <2>1. \A v \in Writers : pc'[v] # "write" /\ pc[v] # "write"
    BY <1>1, <1>3, <1>4 DEF Running, Prompting
  <2>2. file' = file /\ committed' = committed /\ overlapped' = overlapped
        /\ interrupted' = interrupted
    BY <1>1
  <2>3. Serialize(committed)' = Serialize(committed)
    BY <2>2 DEF Serialize
  <2> QED
    BY <2>1, <2>2, <2>3 DEF CommittedShape, BookCore
<1> QED
  BY <1>5, <1>6, <1>10, <1>11 DEF BookCore

LEMMA ReadCore ==
  ASSUME TypeOK, FormShape, BookCore, ~overlapped', NEW w \in Writers, ReadBook(w)
  PROVE  BookCore'
<1>1. /\ pc[w] = "read" /\ \A v \in Writers \ {w} : pc'[v] = pc[v]
      /\ overlapped' = (overlapped \/ \E v \in Writers : pc[v] \in Running)
      /\ UNCHANGED <<file, committed, interrupted>>
  BY MoveFacts DEF ReadBook
<1>2. ~overlapped /\ \A v \in Writers : pc[v] \notin Running
  BY <1>1
<1>3. Ended \subseteq Ended' /\ \A v \in Ended : person'[v] = person[v]
  BY EndedGrows
<1>4. \A v \in Writers : v # w => pc'[v] \notin Running
  BY <1>1, <1>2
<1>5. OneAtATime'
  BY <1>4 DEF OneAtATime
<1>6. FileShape'
  BY <1>1, <1>2, <1>3, FileKept DEF BookCore
<1>7. \/ pc'[w] = "exit_error"
      \/ /\ pc'[w] = "id" /\ ~(file # Absent /\ Parse(file) = Failed)
         /\ book' = [book EXCEPT ![w] =
              IF file = Absent THEN NewAddressBook ELSE Parse(file)]
  <2>1. pc \in [Writers -> Running \cup {"read", "exit_ok", "exit_error", "killed"}]
    BY DEF TypeOK
  <2> QED
    BY <2>1 DEF ReadBook, Goto
<1>8. Parse(file)' = Parse(file)
  BY <1>1 DEF Parse, IsBroken
<1>9. ASSUME pc'[w] = "id"
      PROVE  /\ book'[w] \in Seq(Persons) /\ Entered(book[w])'
             /\ IF file' = Absent THEN book'[w] = << >> ELSE Parse(file)' = book'[w]
  <2>1. /\ file = Absent \/ Parse(file) # Failed
        /\ book'[w] = IF file = Absent THEN << >> ELSE Parse(file)
    BY <1>7, <1>9 DEF TypeOK, NewAddressBook
  <2>2. PICK b \in Seq(Persons) : b = book'[w] /\ Entered(b)
    <3>1. CASE file = Absent
      BY <2>1, <3>1, EnteredEmpty, EmptySeq
    <3>2. CASE file # Absent
      <4>1. \E b \in Seq(Persons) : Parse(file) = b /\ Entered(b)
        BY <1>2, <2>1, <3>2, FileOpened DEF BookCore
      <4> QED
        BY <2>1, <3>2, <4>1
    <3> QED
      BY <3>1, <3>2
  <2>3. Entered(b)'
    BY <1>3, <2>2, EnteredKept
  <2>4. Entered(book[w])'
    BY <2>2, <2>3 DEF Entered
  <2> QED
    BY <1>1, <1>8, <2>1, <2>2, <2>4
<1>10. RunShape'
  <2>1. ASSUME NEW v \in Writers
        PROVE  /\ pc'[v] \in Running => book'[v] \in Seq(Persons) /\ Entered(book[v])'
               /\ pc'[v] \in Prompting \cup {"open"} =>
                    IF file' = Absent THEN book'[v] = << >> ELSE Parse(file)' = book'[v]
               /\ pc'[v] = "write" => file' = << >>
    <3>1. CASE v # w
      BY <1>4, <3>1 DEF Running
    <3>2. CASE v = w /\ pc'[w] = "id"
      BY <1>9, <3>2
    <3>3. CASE v = w /\ pc'[w] = "exit_error"
      BY <3>3 DEF Running, Prompting
    <3> QED
      BY <1>7, <3>1, <3>2, <3>3
  <2> QED
    BY <2>1 DEF RunShape
<1>11. CommittedShape'
  <2>1. \A v \in Writers : pc'[v] # "write" /\ pc[v] # "write"
    BY <1>2, <1>4, <1>7 DEF Running
  <2>2. file' = file /\ committed' = committed /\ interrupted' = interrupted
    BY <1>1
  <2>3. Serialize(committed)' = Serialize(committed)
    BY <2>2 DEF Serialize
  <2> QED
    BY <1>2, <2>1, <2>2, <2>3 DEF CommittedShape, BookCore
<1> QED
  BY <1>5, <1>6, <1>10, <1>11 DEF BookCore

LEMMA OpenCore ==
  ASSUME TypeOK, FormShape, BookCore, ~overlapped, NEW w \in Writers, OpenOutput(w)
  PROVE  BookCore'
<1>1. /\ pc[w] = "open" /\ \A v \in Writers \ {w} : pc'[v] = pc[v]
      /\ UNCHANGED <<book, person, committed, overlapped, interrupted>>
  BY MoveFacts DEF OpenOutput, history
<1>2. Ended \subseteq Ended' /\ \A v \in Ended : person'[v] = person[v]
  BY EndedGrows
<1>3. \/ pc'[w] = "write" /\ file' = << >>
      \/ pc'[w] = "exit_error" /\ file' = file
  <2>1. pc \in [Writers -> Running \cup {"read", "exit_ok", "exit_error", "killed"}]
    BY DEF TypeOK
  <2> QED
    BY <2>1 DEF OpenOutput, Goto
<1>4. \A v \in Writers : v # w => pc[v] \notin Running /\ pc'[v] \notin Running
  BY <1>1 DEF BookCore, OneAtATime, Running
<1>5. OneAtATime'
  BY <1>4 DEF OneAtATime
<1>6. Serialize(<< >>) = << >>
  BY DEF Serialize
<1>7. FileShape'
  <2>1. CASE file' = file
    BY <1>2, <2>1, FileKept DEF BookCore
  <2>2. CASE file' = << >>
    <3>1. << >> \in Seq(Persons) /\ Entered(<< >>)'
      BY EmptySeq, EnteredEmpty, <1>2, EnteredKept
    <3> QED
      BY <1>6, <2>2, <3>1, FileFormed
  <2> QED
    BY <1>3, <2>1, <2>2
<1>8. /\ book[w] \in Seq(Persons) /\ Entered(book[w])
      /\ IF file = Absent THEN book[w] = << >> ELSE Parse(file) = book[w]
  BY <1>1 DEF BookCore, RunShape, Running
<1>9. Entered(book[w])'
  <2>1. PICK b : b = book[w] /\ b = book'[w]
    BY <1>1
  <2>2. Entered(b)'
    BY <1>2, <1>8, <2>1, EnteredKept
  <2> QED
    BY <2>1, <2>2 DEF Entered
<1>10. RunShape'
  <2>1. ASSUME NEW v \in Writers
        PROVE  /\ pc'[v] \in Running => book'[v] \in Seq(Persons) /\ Entered(book[v])'
               /\ pc'[v] \in Prompting \cup {"open"} =>
                    IF file' = Absent THEN book'[v] = << >> ELSE Parse(file)' = book'[v]
               /\ pc'[v] = "write" => file' = << >>
    <3>1. CASE v # w
      BY <1>4, <3>1 DEF Running
    <3>2. CASE v = w
      BY <1>1, <1>3, <1>8, <1>9, <3>2 DEF Running, Prompting
    <3> QED
      BY <3>1, <3>2
  <2> QED
    BY <2>1 DEF RunShape
<1>11. CommittedShape'
  <2>1. \A v \in Writers : pc[v] # "write"
    BY <1>1, <1>4 DEF Running
  <2>2. \A v \in Writers : pc'[v] = "write" => v = w /\ file' = << >>
    BY <1>3, <1>4 DEF Running
  <2>3. SUFFICES ASSUME ~interrupted PROVE CommittedShape'
    BY <1>1 DEF CommittedShape
  <2>4. /\ committed \in Seq(Persons)
        /\ IF file = Absent THEN committed = << >> ELSE file = Serialize(committed)
    BY <2>1, <2>3 DEF CommittedShape, BookCore
  <2>5. book[w] = committed
    <3>1. CASE file = Absent
      BY <1>8, <2>4, <3>1
    <3>2. CASE file # Absent
      BY <1>8, <2>4, <3>2, BookRoundTrip
    <3> QED
      BY <3>1, <3>2
  <2>6. Serialize(committed)' = Serialize(committed)
    BY <1>1 DEF Serialize
  <2>7. (\A v \in Writers : pc'[v] # "write") => file' = file
    BY <1>3
  <2> QED
    BY <1>1, <2>2, <2>4, <2>5, <2>6, <2>7 DEF CommittedShape
<1> QED
  BY <1>5, <1>7, <1>10, <1>11 DEF BookCore

LEMMA KillCore ==
  ASSUME TypeOK, FormShape, BookCore, ~overlapped, NEW w \in Writers, Kill(w)
  PROVE  BookCore'
<1>1. /\ pc[w] \in Running /\ \A v \in Writers \ {w} : pc'[v] = pc[v]
      /\ interrupted' = (interrupted \/ pc[w] = "write")
      /\ UNCHANGED <<file, book, person, committed, overlapped>>
  BY MoveFacts DEF Kill
<1>2. Ended \subseteq Ended' /\ \A v \in Ended : person'[v] = person[v]
  BY EndedGrows
<1>3. pc'[w] = "killed"
  BY DEF Kill, Goto, TypeOK
<1>4. \A v \in Writers : pc'[v] \notin Running
  BY <1>1, <1>3 DEF BookCore, OneAtATime, Running, Prompting
<1>5. OneAtATime' /\ RunShape'
  BY <1>4 DEF OneAtATime, RunShape, Running
<1>6. FileShape'
  BY <1>1, <1>2, FileKept DEF BookCore
<1>7. CommittedShape'
  <2>1. SUFFICES ASSUME ~interrupted' PROVE CommittedShape'
    BY DEF CommittedShape
  <2>2. \A v \in Writers : pc'[v] # "write" /\ pc[v] # "write"
    BY <1>1, <1>4, <2>1 DEF Running
  <2>3. Serialize(committed)' = Serialize(committed)
    BY <1>1 DEF Serialize
  <2> QED
    BY <1>1, <2>1, <2>2, <2>3 DEF CommittedShape, BookCore
<1> QED
  BY <1>5, <1>6, <1>7 DEF BookCore

LEMMA WriteCore ==
  ASSUME TypeOK, FormShape, BookCore, ~overlapped, NEW w \in Writers, WriteBook(w)
  PROVE  BookCore'
<1>1. /\ pc[w] = "write" /\ \A v \in Writers \ {w} : pc'[v] = pc[v]
      /\ pc'[w] \in {"exit_ok", "exit_error"}
      /\ UNCHANGED <<book, person, overlapped>>
  <2>1. pc[w] = "write" /\ UNCHANGED <<book, person, overlapped>>
    BY DEF WriteBook
  <2>2. pc'[w] \in {"exit_ok", "exit_error"}
    <3>1. pc' = [pc EXCEPT ![w] = "exit_ok"] \/ pc' = [pc EXCEPT ![w] = "exit_error"]
      BY DEF WriteBook, Goto
    <3> QED
      BY <3>1 DEF TypeOK
  <2> QED
    BY <2>1, <2>2, MoveFacts
<1>2. Ended \subseteq Ended' /\ \A v \in Ended : person'[v] = person[v]
  BY EndedGrows
<1>3. \A v \in Writers : pc'[v] \notin Running
  BY <1>1 DEF BookCore, OneAtATime, Running, Prompting
<1>4. OneAtATime' /\ RunShape'
  BY <1>3 DEF OneAtATime, RunShape, Running
<1>5. PICK b \in Seq(Persons), p \in Persons :
        b = book[w] /\ p = person[w] /\ Entered(b) /\ file = << >>
  BY <1>1 DEF BookCore, RunShape, Running, TypeOK
<1>6. NewBook(w) = Append(b, p) /\ Append(b, p) \in Seq(Persons) /\ Len(Append(b, p)) = Len(b) + 1
  BY <1>5 DEF NewBook, add_people
<1>7. Entered(Append(b, p))'
  <2>1. w \notin Ended /\ Ended' = Ended \cup {w}
    BY <1>1 DEF Ended
  <2> QED
    BY <1>1, <1>5, <2>1, EnteredMore
<1>8. PICK c \in Seq(Persons) : c = Append(b, p)
  BY <1>6
<1>9. CASE /\ file' \in Overlay(file, NewBook(w))
           /\ committed' = Append(committed, person[w])
           /\ UNCHANGED interrupted
  <2>1. file' = Serialize(c)
    BY <1>5, <1>6, <1>8, <1>9 DEF Overlay
  <2>2. FileShape'
    BY <1>7, <1>8, <2>1, FileFormed
  <2>3. CommittedShape'
    <3>1. SUFFICES ASSUME ~interrupted PROVE CommittedShape'
      BY <1>9 DEF CommittedShape
    <3>2. b = committed
      BY <1>1, <1>5, <3>1 DEF CommittedShape, BookCore
    <3>3. committed' = c
      BY <1>5, <1>8, <1>9, <3>2
    <3>4. Serialize(committed)' = file'
      BY <2>1, <3>3 DEF Serialize
    <3>5. \A v \in Writers : pc'[v] # "write"
      BY <1>3 DEF Running
    <3>6. file' # Absent
      <4>1. Serialize(c) \in Seq(BookFields \cup {Fragment})
        BY BookRoundTrip, SeqMonotonic
      <4> QED
        BY <2>1, <4>1, AbsentAssumption
    <3> QED
      BY <3>3, <3>4, <3>5, <3>6 DEF CommittedShape
  <2> QED
    BY <1>4, <2>2, <2>3 DEF BookCore
<1>10. CASE /\ \E k \in 0 .. Len(book[w]), cut \in BOOLEAN :
                 file' = Serialize(SubSeq(NewBook(w), 1, k))
                         \o (IF cut THEN <<Fragment>> ELSE << >>)
            /\ interrupted' = TRUE
  <2>1. PICK k \in 0 .. Len(b), cut \in BOOLEAN :
          file' = Serialize(SubSeq(c, 1, k)) \o (IF cut THEN <<Fragment>> ELSE << >>)
    BY <1>5, <1>6, <1>8, <1>10
  <2>2. k \in 0 .. Len(c)
    BY <1>6, <1>8
  <2>3. PICK d \in Seq(Persons) : d = SubSeq(c, 1, k) /\ Entered(d)'
    <3>1. Entered(b) => SubSeq(b, 1, k) \in Seq(Persons) /\ Entered(SubSeq(b, 1, k))
      BY EnteredPrefix
    <3>2. SubSeq(c, 1, k) = SubSeq(b, 1, k)
      <4>1. PICK u, v : u = SubSeq(c, 1, k) /\ v = SubSeq(b, 1, k)
        OBVIOUS
      <4>2. /\ u \in Seq(Persons) /\ Len(u) = k /\ \A i \in 1 .. k : u[i] = c[i]
            /\ v \in Seq(Persons) /\ Len(v) = k /\ \A i \in 1 .. k : v[i] = b[i]
        BY <2>2, <4>1
      <4>3. \A i \in 1 .. k : c[i] = b[i]
        BY <1>8
      <4>4. u = v
        BY <4>1, <4>2, <4>3, SeqEqual
      <4> QED
        BY <4>1, <4>2, <4>4
    <3>3. PICK d \in Seq(Persons) : d = SubSeq(b, 1, k) /\ Entered(d)
      BY <1>5, <3>1
    <3>4. Entered(d)'
      BY <1>2, <3>3, EnteredKept
    <3> QED
      BY <3>2, <3>3, <3>4
  <2>4. PICK s \in Seq(BookFields \cup {Fragment}) : s = Serialize(d)
    BY BookRoundTrip, SeqMonotonic
  <2>5. file' = Serialize(d) \/ file' = Append(Serialize(d), Fragment)
    <3>1. s \o << >> = s /\ s \o <<Fragment>> = Append(s, Fragment)
      OBVIOUS
    <3> QED
      BY <2>1, <2>3, <2>4, <3>1
  <2>6. FileShape'
    BY <2>3, <2>5, FileFormed
  <2>7. CommittedShape'
    BY <1>10 DEF CommittedShape
  <2> QED
    BY <1>4, <2>6, <2>7 DEF BookCore
<1> QED
  BY <1>9, <1>10 DEF WriteBook

-----------------------------------------------------------------------------
(* The theorems.                                                           *)

LEMMA InitCore == Init => BookCore
<1> SUFFICES ASSUME Init PROVE BookCore
  OBVIOUS
<1>1. file = Absent /\ committed = << >> /\ \A w \in Writers : pc[w] = "read"
  BY DEF Init
<1>2. \A w \in Writers : pc[w] \notin Running
  BY <1>1 DEF Running, Prompting
<1> QED
  BY <1>1, <1>2, EmptySeq
     DEF BookCore, OneAtATime, FileShape, RunShape, CommittedShape, Running

LEMMA NextCore == TypeOK /\ FormShape /\ BookCore /\ [Next]_vars => BookCore'
<1> SUFFICES ASSUME TypeOK, FormShape, BookCore, [Next]_vars PROVE BookCore'
  OBVIOUS
<1>1. CASE overlapped'
  BY <1>1 DEF BookCore, OneAtATime, FileShape, RunShape, CommittedShape
<1>2. CASE ~overlapped'
  <2>1. ASSUME NEW w \in Writers, PromptForAddress(w) PROVE BookCore'
    <3>1. ~overlapped
      BY <1>2, <2>1, AskFacts
    <3> QED
      BY <2>1, <3>1, PromptCore
  <2>2. ASSUME NEW w \in Writers, ReadBook(w) PROVE BookCore'
    BY <1>2, <2>2, ReadCore
  <2>3. ASSUME NEW w \in Writers, OpenOutput(w) PROVE BookCore'
    <3>1. ~overlapped
      BY <1>2, <2>3 DEF OpenOutput, history
    <3> QED
      BY <2>3, <3>1, OpenCore
  <2>4. ASSUME NEW w \in Writers, WriteBook(w) PROVE BookCore'
    <3>1. UNCHANGED overlapped
      BY <2>4 DEF WriteBook
    <3> QED
      BY <1>2, <2>4, <3>1, WriteCore
  <2>5. ASSUME NEW w \in Writers, Kill(w) PROVE BookCore'
    <3>1. ~overlapped
      BY <1>2, <2>5 DEF Kill
    <3> QED
      BY <2>5, <3>1, KillCore
  <2>6. CASE UNCHANGED vars
    <3>1. /\ file' = file /\ pc' = pc /\ book' = book /\ person' = person
          /\ committed' = committed /\ overlapped' = overlapped /\ interrupted' = interrupted
      BY <2>6 DEF vars, history
    <3>2. OneAtATime' /\ Ended' = Ended
      BY <3>1 DEF BookCore, OneAtATime, Ended
    <3>3. FileShape'
      BY <1>2, <3>1, <3>2, FileKept DEF BookCore
    <3>4. RunShape'
      BY <3>1, <3>2 DEF BookCore, RunShape, Entered, Parse, IsBroken
    <3>5. CommittedShape'
      BY <3>1 DEF BookCore, CommittedShape, Serialize
    <3> QED
      BY <3>2, <3>3, <3>4, <3>5 DEF BookCore
  <2> QED
    BY <2>1, <2>2, <2>3, <2>4, <2>5, <2>6 DEF Next
<1> QED
  BY <1>1, <1>2

\* BookInv is an invariant of write_message, however many runs there are and
\* wherever they are killed.
THEOREM BookInvariance == Spec => []BookInv
<1>1. Init => TypeOK /\ FormShape /\ BookCore
  BY InitForm, InitCore
<1>2. TypeOK /\ FormShape /\ BookCore /\ [Next]_vars => TypeOK' /\ FormShape' /\ BookCore'
  BY NextForm, NextCore
<1>3. TypeOK /\ FormShape /\ BookCore => BookInv
  BY DEF BookCore, BookInv
<1> QED
  BY <1>1, <1>2, <1>3, PTL DEF Spec

\* write_message.cpp adds one person to the book it read: without overlapping
\* or interrupted runs the file holds the people of all completed runs, in
\* their order and exactly as entered, however many runs there were.
THEOREM CommittedKeptTheorem == Spec => []CommittedKept
<1>1. BookInv => CommittedKept
  <2> SUFFICES ASSUME BookInv, ~overlapped, ~interrupted,
                      \A w \in Writers : pc[w] # "write"
               PROVE  IF file = Absent THEN committed = << >> ELSE Parse(file) = committed
    BY DEF CommittedKept
  <2>1. /\ committed \in Seq(Persons)
        /\ IF file = Absent THEN committed = << >> ELSE file = Serialize(committed)
    BY DEF BookInv, CommittedShape
  <2> QED
    BY <2>1, BookRoundTrip
<1> QED
  BY <1>1, BookInvariance, PTL

\* Whatever was interrupted or lost, read_message lists only people somebody
\* entered in write_message, each by a run of its own.
THEOREM NoPhantomPeopleTheorem == Spec => []NoPhantomPeople
<1>1. BookInv => NoPhantomPeople
  <2> SUFFICES ASSUME BookInv, ~overlapped, Listing # Failed
               PROVE  \E by \in [DOMAIN Listing -> Added] :
                        /\ IsInjective(by)
                        /\ \A i \in DOMAIN Listing : Listing[i] = Shown(person[by[i]])
    BY DEF NoPhantomPeople
  <2>1. file # Absent /\ Parse(file) # Failed
    BY DEF Listing
  <2>2. PICK b \in Seq(Persons) : Entered(b) /\ Parse(file) = b
    BY <2>1, FileOpened DEF BookInv
  <2>3. PICK by \in [DOMAIN b -> Ended] :
          /\ \A i, j \in DOMAIN b : by[i] = by[j] => i = j
          /\ \A i \in DOMAIN b : b[i] = person[by[i]]
    BY <2>2 DEF Entered
  <2>4. Ended \subseteq Added
    BY DEF Ended, Added, Prompting
  <2>5. by \in [DOMAIN b -> Added] /\ IsInjective(by)
    BY <2>3, <2>4 DEF IsInjective
  <2>6. PICK l : l = Listing
    OBVIOUS
  <2>7. l = [i \in DOMAIN b |-> Shown(b[i])]
    BY <2>1, <2>2, <2>6 DEF Listing
  <2>8. DOMAIN l = DOMAIN b /\ \A i \in DOMAIN l : l[i] = Shown(person[by[i]])
    BY <2>3, <2>7
  <2> QED
    BY <2>5, <2>6, <2>8
<1> QED
  BY <1>1, BookInvariance, PTL

\* A file write_message cannot parse is never truncated or written by a later
\* run of it.
THEOREM BrokenFileKeptTheorem == Spec => BrokenFileKept
<1>1. BookInv /\ [Next]_vars =>
        [~overlapped' /\ file # Absent /\ Parse(file) = Failed => file' = file]_vars
  <2> SUFFICES ASSUME BookInv, Next, ~overlapped', file # Absent, Parse(file) = Failed
               PROVE  file' = file
    OBVIOUS
  <2>1. TypeOK /\ FormShape
    BY DEF BookInv
  <2>2. PICK w \in Writers :
          ReadBook(w) \/ PromptForAddress(w) \/ OpenOutput(w) \/ WriteBook(w) \/ Kill(w)
    BY DEF Next
  <2>3. CASE ReadBook(w) \/ Kill(w)
    BY <2>3 DEF ReadBook, Kill
  <2>4. CASE PromptForAddress(w)
    BY <2>1, <2>4, AskFacts
  <2>5. CASE OpenOutput(w)
    <3>1. pc[w] = "open" /\ ~overlapped
      BY <2>5 DEF OpenOutput, history
    <3>2. Parse(file) \in Seq(Persons)
      BY <3>1 DEF BookInv, RunShape, Running
    <3> QED
      BY <3>2, FailedAssumption
  <2>6. CASE WriteBook(w)
    <3>1. pc[w] = "write" /\ UNCHANGED overlapped
      BY <2>6 DEF WriteBook
    <3>2. file = << >>
      BY <3>1 DEF BookInv, RunShape
    <3>3. Parse(<< >>) = << >>
      <4>1. Serialize(<< >>) = << >> /\ << >> \in Seq(Persons)
        BY EmptySeq DEF Serialize
      <4> QED
        BY <4>1, BookRoundTrip
    <3> QED
      BY <3>2, <3>3, EmptySeq, FailedAssumption
  <2> QED
    BY <2>2, <2>3, <2>4, <2>5, <2>6
<1> QED
  BY <1>1, BookInvariance, PTL DEF Spec, BrokenFileKept

=============================================================================
