---------------------------- MODULE AddressBook -----------------------------
(***************************************************************************)
(* The address book of protobuf-tutorial: write_message.cpp adds a person  *)
(* to the book in a file, read_message.cpp lists it, and the generated     *)
(* addressbook.pb.{h,cc} encode and parse it.                              *)
(*                                                                         *)
(* A message is a record of its fields, Unset standing for a has-bit that  *)
(* is 0.  Encoded, it is the sequence of its fields <<number, value>>; an  *)
(* embedded message is the sequence of its fields again.  A file is the    *)
(* sequence of the fields of an AddressBook, or Absent.  Bytes that are no *)
(* whole field, a beginning or a rest of one, are a Fragment.              *)
(*                                                                         *)
(* Each writer is one run of write_message; runs overlap and may be killed *)
(* anywhere.  Opening the file for output truncates it; the new contents   *)
(* are written later, from the start of the file, when the stream is       *)
(* flushed.                                                                *)
(***************************************************************************)
EXTENDS Integers, Sequences, FiniteSets, SequencesExt

CONSTANTS
  Writers,     \* runs of write_message
  Strings,     \* non-empty lines somebody types
  Blank,       \* the empty string
  TypedIds,    \* numbers somebody types
  TypedTypes,  \* answers to the question for the phone's type
  MaxPhones,   \* bound: phone numbers typed for a person
  Unset, Absent, Fragment, Failed

ASSUME BlankAssumption == Blank \notin Strings
ASSUME PhoneAssumption == MaxPhones \in Nat
ASSUME TypedAssumption == TypedIds \subseteq Nat

VARIABLES
  file,        \* the address book file
  pc,          \* next statement of a writer
  input,       \* state of its cin
  book,        \* its address_book, as parsed
  person,      \* the Person it adds
  committed,   \* history: the people whose writer wrote its whole book
  overlapped,  \* history: a writer read while another was running
  interrupted  \* history: a writer ended between truncating and writing

history == <<committed, overlapped, interrupted>>
vars    == <<file, pc, input, book, person, history>>

-----------------------------------------------------------------------------
(* addressbook.pb.h: messages and accessors.                               *)

MOBILE == 1
HOME   == 2
WORK   == 3

LargestId == 2147483647
PersonIds == TypedIds \cup {0, LargestId}

PhoneNumbers == [number : Strings, type : {Unset, MOBILE, HOME, WORK}]
Persons ==
  [name : Strings \cup {Blank, Unset}, id : PersonIds \cup {Unset},
   email : Strings \cup {Unset}, phones : Seq(PhoneNumbers)]

NewPhoneNumber == [number |-> Unset, type |-> Unset]
NewPerson == [name |-> Unset, id |-> Unset, email |-> Unset, phones |-> << >>]
NewAddressBook == << >>

\* A getter returns the default of a field that is not set.
GetOr(field, default) == IF field = Unset THEN default ELSE field

type(phone)   == GetOr(phone.type, HOME)
number(phone) == GetOr(phone.number, Blank)
name(p)       == GetOr(p.name, Blank)
id(p)         == GetOr(p.id, 0)
has_email(p)  == p.email # Unset

set_id(p, value)    == [p EXCEPT !.id = value]
set_email(p, value) == [p EXCEPT !.email = value]

\* getline into *mutable_name(): the field is set, to an empty string too.
mutable_name(p, value) == [p EXCEPT !.name = value]

add_phones(p, phone) == [p EXCEPT !.phones = Append(@, phone)]
add_people(b, p)     == Append(b, p)

set_number(phone, value) == [phone EXCEPT !.number = value]

\* For the last phone, the one add_phones returned.
set_type(p, value) == [p EXCEPT !.phones[Len(p.phones)].type = value]

-----------------------------------------------------------------------------
(* addressbook.pb.cc: encoding, sizes and parse tables.                    *)

Optional(n, value) == IF value = Unset THEN << >> ELSE << <<n, value>> >>

SerializePhone(phone) == Optional(1, phone.number) \o Optional(2, phone.type)

SerializePerson_SkipsDefaults(p) ==
  Optional(1, IF p.name = Blank THEN Unset ELSE p.name) \o Optional(2, p.id)
  \o Optional(3, p.email)
  \o [i \in DOMAIN p.phones |-> <<4, SerializePhone(p.phones[i])>>]

SerializePerson(p) ==
  Optional(1, p.name) \o Optional(2, p.id) \o Optional(3, p.email)
  \o [i \in DOMAIN p.phones |-> <<4, SerializePhone(p.phones[i])>>]

Serialize(b) == [i \in DOMAIN b |-> <<1, SerializePerson(b[i])>>]

\* What these give: the fields of a phone number, of a person and of a book.
PhoneFields  == ({1} \X Strings) \cup ({2} \X {MOBILE, HOME, WORK})
PersonFields == ({1, 3} \X (Strings \cup {Blank})) \cup ({2} \X PersonIds)
                \cup ({4} \X Seq(PhoneFields))
BookFields   == {1} \X Seq(PersonFields)

ASSUME UnsetAssumption ==
  Unset \notin Strings \cup {Blank, MOBILE, HOME, WORK} \cup PersonIds
ASSUME FragmentAssumption == Fragment \notin BookFields
ASSUME AbsentAssumption == Absent \notin Seq(BookFields \cup {Fragment})
ASSUME FailedAssumption == Failed \notin Seq(Persons)

Sum(sizes) == FoldSeq(LAMBDA x, y : x + y, 0, sizes)

VarintSize(n) ==
  CASE n < 2^7 -> 1 [] n < 2^14 -> 2 [] n < 2^21 -> 3 [] n < 2^28 -> 4
    [] OTHER -> 5

\* Strings are one character long; a tag and a length take one byte each.
StringSize(s) == IF s = Unset THEN 0 ELSE IF s = Blank THEN 2 ELSE 3

PhoneSize(phone) ==
  StringSize(phone.number) + (IF phone.type = Unset THEN 0 ELSE 2)

PersonSize(p) ==
  StringSize(p.name) + StringSize(p.email)
  + (IF p.id = Unset THEN 0 ELSE 1 + VarintSize(p.id))
  + Sum([i \in DOMAIN p.phones |-> 2 + PhoneSize(p.phones[i])])

BookSize(b) == Sum([i \in DOMAIN b |-> 2 + PersonSize(b[i])])

\* Of a singular field the last occurrence counts; a repeated field keeps
\* all of them.
Occurrences(fields, n) == {i \in DOMAIN fields : fields[i][1] = n}

LastValue(fields, n) ==
  LET at == Occurrences(fields, n)
  IN  IF at = {} THEN Unset ELSE fields[Max(at)][2]

Values(fields, n) ==
  LET at     == Occurrences(fields, n)
      nth(k) == CHOOSE i \in at : Cardinality({j \in at : j <= i}) = k
  IN  [k \in 1 .. Cardinality(at) |-> fields[nth(k)][2]]

ParsePhone(fields) ==
  [number |-> LastValue(fields, 1), type |-> LastValue(fields, 2)]

ParsePerson(fields) ==
  [name |-> LastValue(fields, 1), id |-> LastValue(fields, 2),
   email |-> LastValue(fields, 3),
   phones |-> LET v == Values(fields, 4)
              IN  [i \in DOMAIN v |-> ParsePhone(v[i])]]

IsBroken(f) == \E i \in DOMAIN f : f[i] = Fragment

Parse_AcceptsFragment(f) ==
  LET v == Values(SelectSeq(f, LAMBDA x : x # Fragment), 1)
  IN  [i \in DOMAIN v |-> ParsePerson(v[i])]
      \o (IF IsBroken(f) THEN <<NewPerson>> ELSE NewAddressBook)

\* ParseFromIstream.  The length in front of a person that was cut short
\* goes past the end of the file, which is an error.  So, it is assumed, is
\* a rest of a longer file; nothing is claimed where one occurs.
Parse(f) ==
  IF IsBroken(f) THEN Failed
  ELSE LET v == Values(f, 1) IN [i \in DOMAIN v |-> ParsePerson(v[i])]

-----------------------------------------------------------------------------
Init ==
  /\ file = Absent
  /\ pc = [w \in Writers |-> "read"]
  /\ input = [w \in Writers |-> "good"]
  /\ book = [w \in Writers |-> NewAddressBook]
  /\ person = [w \in Writers |-> NewPerson]
  /\ committed = << >>
  /\ overlapped = FALSE
  /\ interrupted = FALSE

Goto(w, label) == pc' = [pc EXCEPT ![w] = label]

Prompting == {"id", "name", "email", "number", "type"}
Running   == Prompting \cup {"open", "write"}

-----------------------------------------------------------------------------
(* write_message.cpp                                                       *)

ReadBook_IgnoresFailure(w) ==
  /\ pc[w] = "read"
  /\ overlapped' = (overlapped \/ \E v \in Writers : pc[v] \in Running)
  /\ book' = [book EXCEPT ![w] =
       IF file = Absent \/ IsBroken(file) THEN NewAddressBook ELSE Parse(file)]
  /\ Goto(w, "id")
  /\ UNCHANGED <<file, input, person, committed, interrupted>>

\* main reads the book; no file is an empty book, a file that does not parse
\* ends the run.
ReadBook(w) ==
  /\ pc[w] = "read"
  /\ overlapped' = (overlapped \/ \E v \in Writers : pc[v] \in Running)
  /\ IF file # Absent /\ Parse(file) = Failed
     THEN Goto(w, "exit_error") /\ UNCHANGED book
     ELSE /\ book' = [book EXCEPT ![w] =
               IF file = Absent THEN NewAddressBook ELSE Parse(file)]
          /\ Goto(w, "id")
  /\ UNCHANGED <<file, input, person, committed, interrupted>>

\* The input ends, or is closed, after any line.
InputGoesOn(w) == input' \in {input, [input EXCEPT ![w] = "failed"]}

\* getline of one line out of lines into a string that was empty.  Once cin
\* has failed the string stays empty.
Getline(w, lines, line) ==
  IF input[w] = "good"
  THEN line \in lines \cup {Blank} /\ InputGoesOn(w)
  ELSE line = Blank /\ UNCHANGED input

\* cin >> id.  What is no number gives 0, one that is too large the largest
\* int, and both make cin fail; at the end of the input id keeps whatever
\* the uninitialized variable held.
EnterId(w) ==
  /\ pc[w] = "id"
  /\ \E value \in PersonIds :
       /\ person' = [person EXCEPT ![w] = set_id(@, value)]
       /\ IF value \in TypedIds THEN InputGoesOn(w)
          ELSE input' = [input EXCEPT ![w] = "failed"]
  /\ Goto(w, "name")
  /\ UNCHANGED <<file, book, history>>

EnterName(w) ==
  /\ pc[w] = "name"
  /\ \E line \in Strings \cup {Blank} :
       /\ Getline(w, Strings, line)
       /\ person' = [person EXCEPT ![w] = mutable_name(@, line)]
  /\ Goto(w, "email")
  /\ UNCHANGED <<file, book, history>>

EnterEmail(w) ==
  /\ pc[w] = "email"
  /\ \E line \in Strings \cup {Blank} :
       /\ Getline(w, Strings, line)
       /\ person' = IF line = Blank THEN person
                    ELSE [person EXCEPT ![w] = set_email(@, line)]
  /\ Goto(w, "number")
  /\ UNCHANGED <<file, book, history>>

AddNumber(w, line) ==
  IF line = Blank
  THEN Goto(w, "open") /\ UNCHANGED person
  ELSE /\ Len(person[w].phones) < MaxPhones
       /\ person' = [person EXCEPT ![w] =
            add_phones(@, set_number(NewPhoneNumber, line))]
       /\ Goto(w, "type")

EnterNumber_KeepsString(w) ==
  /\ pc[w] = "number"
  /\ \E line \in Strings \cup {Blank} :
       /\ IF input[w] = "failed" /\ person[w].phones # << >>
          THEN line = number(Last(person[w].phones)) /\ UNCHANGED input
          ELSE Getline(w, Strings, line)
       /\ AddNumber(w, line)
  /\ UNCHANGED <<file, book, history>>

\* A blank number ends the loop.
EnterNumber(w) ==
  /\ pc[w] = "number"
  /\ \E line \in Strings \cup {Blank} :
       Getline(w, Strings, line) /\ AddNumber(w, line)
  /\ UNCHANGED <<file, book, history>>

TypeOf_Raw(line) ==
  CASE line = "mobile" -> MOBILE [] line = "home" -> HOME
    [] line = "work" -> WORK [] OTHER -> line

\* The type a line names; Unset for any other line.
TypeOf(line) ==
  CASE line = "mobile" -> MOBILE [] line = "home" -> HOME
    [] line = "work" -> WORK [] OTHER -> Unset

\* An unknown type leaves the field unset.
EnterType(w) ==
  /\ pc[w] = "type"
  /\ \E line \in TypedTypes \cup {Blank} :
       /\ Getline(w, TypedTypes, line)
       /\ person' = [person EXCEPT ![w] =
            set_type(@, TypeOf(line))]
  /\ Goto(w, "number")
  /\ UNCHANGED <<file, book, history>>

NewBook(w) == add_people(book[w], person[w])

\* Opening the stream for output truncates the file, or fails.
OpenOutput(w) ==
  /\ pc[w] = "open"
  /\ \/ file' = << >> /\ Goto(w, "write")
     \/ UNCHANGED file /\ Goto(w, "exit_error")
  /\ UNCHANGED <<input, book, person, history>>

\* The file after b was written over it from its start: what another writer
\* put there stays behind the new end.
Overlay(old, b) ==
  LET size(k) == BookSize([i \in 1 .. k |-> ParsePerson(old[i][2])])
      new     == Serialize(b)
  IN  IF old = << >> THEN {new} ELSE
      IF IsBroken(old) THEN {new, Append(new, Fragment)} ELSE
      IF BookSize(b) >= size(Len(old)) THEN {new} ELSE
      IF \E k \in DOMAIN old : size(k) = BookSize(b)
      THEN {new \o SubSeq(old, k + 1, Len(old)) :
              k \in {j \in DOMAIN old : size(j) = BookSize(b)}}
      ELSE {Append(new, Fragment)}

\* SerializeToOstream and the stream's destructor.  When the device fails a
\* beginning is written; the result is only noticed if it fails before the
\* destructor flushes what the stream still holds.
WriteBook(w) ==
  /\ pc[w] = "write"
  /\ \/ /\ file' \in Overlay(file, NewBook(w))
        /\ committed' = Append(committed, person[w])
        /\ Goto(w, "exit_ok")
        /\ UNCHANGED interrupted
     \/ /\ \E k \in 0 .. Len(book[w]), cut \in BOOLEAN :
             file' = Serialize(SubSeq(NewBook(w), 1, k))
                     \o (IF cut THEN <<Fragment>> ELSE << >>)
        /\ \E end \in {"exit_ok", "exit_error"} : Goto(w, end)
        /\ interrupted' = TRUE
        /\ UNCHANGED committed
  /\ UNCHANGED <<input, book, person, overlapped>>

\* The process is killed.
Kill(w) ==
  /\ pc[w] \in Running
  /\ Goto(w, "killed")
  /\ interrupted' = (interrupted \/ pc[w] = "write")
  /\ UNCHANGED <<file, input, book, person, committed, overlapped>>

-----------------------------------------------------------------------------
(* read_message.cpp                                                        *)

\* The lines ListPeople writes for a person.
Shown(p) ==
  [id |-> id(p), name |-> name(p),
   email |-> IF has_email(p) THEN p.email ELSE Unset,
   phones |-> [j \in DOMAIN p.phones |->
                 <<type(p.phones[j]), number(p.phones[j])>>]]

\* The output of a run of read_message, which changes nothing.  A file that
\* cannot be opened fails like one that does not parse.
Listing ==
  IF file = Absent \/ Parse(file) = Failed THEN Failed
  ELSE [i \in DOMAIN Parse(file) |-> Shown(Parse(file)[i])]

-----------------------------------------------------------------------------
PromptForAddress(w) ==
  EnterId(w) \/ EnterName(w) \/ EnterEmail(w) \/ EnterNumber(w) \/ EnterType(w)

Next ==
  \E w \in Writers :
    \/ ReadBook(w) \/ PromptForAddress(w) \/ OpenOutput(w) \/ WriteBook(w)
    \/ Kill(w)

Spec == Init /\ [][Next]_vars

\* A process runs; nobody has to type.
FairSpec ==
  Spec /\ \A w \in Writers :
            WF_vars(input[w] = "failed" /\ PromptForAddress(w))

-----------------------------------------------------------------------------
(* Properties                                                              *)

\* Types.  Whatever is typed, a person that is added has an ID and a name,
\* and phones only of the types of the .proto file.
TypeOK ==
  /\ pc \in [Writers -> Running \cup {"read", "exit_ok", "exit_error", "killed"}]
  /\ input \in [Writers -> {"good", "failed"}]
  /\ person \in [Writers -> Persons] /\ DOMAIN book = Writers
  /\ \A w \in Writers :
       pc[w] \in {"open", "write", "exit_ok"} =>
         person[w].id # Unset /\ person[w].name # Unset
  /\ overlapped \in BOOLEAN /\ interrupted \in BOOLEAN

\* write_message.cpp: main reads the whole address book, adds one person and
\* writes it back.  As long as runs did not overlap and none was interrupted
\* while it wrote, the file holds every person whose run completed, in that
\* order and exactly as entered: fields that were left out, set to an empty
\* string or to their default are told apart after any number of rounds
\* through encoder and parser.
CommittedKept ==
  ~overlapped /\ ~interrupted /\ (\A w \in Writers : pc[w] # "write") =>
    IF file = Absent THEN committed = << >> ELSE Parse(file) = committed

Added == {w \in Writers : pc[w] \notin {"read"} \cup Prompting}

\* Interrupted writes, lost books and failed input notwithstanding, what
\* read_message lists are people somebody entered, each by a run of its own:
\* a file cut short never shows half a person, and nobody is listed twice.
NoPhantomPeople ==
  ~overlapped /\ Listing # Failed =>
    \E by \in [DOMAIN Listing -> Added] :
      /\ IsInjective(by)
      /\ \A i \in DOMAIN Listing : Listing[i] = Shown(person[by[i]])

\* A file that does not parse is left as it is by every later run: what an
\* interrupted write left of the book can still be saved by hand.
BrokenFileKept ==
  [][~overlapped' /\ file # Absent /\ Parse(file) = Failed => file' = file]_vars

\* When the input ends, or a letter is typed where the ID is asked for, the
\* questions end: the loop for phone numbers does not go on for ever.
PromptEnds ==
  \A w \in Writers : input[w] = "failed" ~> pc[w] \notin Prompting

-----------------------------------------------------------------------------
(* The inductive invariant behind the properties.                          *)

\* What the questions have filled in so far.
FormShape ==
  \A w \in Writers :
    /\ pc[w] \in Running \ {"id"} => person[w].id # Unset
    /\ pc[w] \in Running \ {"id", "name"} => person[w].name # Unset
    /\ pc[w] = "type" => person[w].phones # << >>

\* Until runs overlap, at most one is between reading and writing the book.
OneAtATime ==
  ~overlapped =>
    \A v, w \in Writers : pc[v] \in Running /\ pc[w] \in Running => v = w

Ended == {w \in Writers : pc[w] \in {"exit_ok", "exit_error", "killed"}}

\* The people of b were entered by as many runs, which have ended.
Entered(b) ==
  \E by \in [DOMAIN b -> Ended] :
    /\ \A i, j \in DOMAIN b : by[i] = by[j] => i = j
    /\ \A i \in DOMAIN b : b[i] = person[by[i]]

\* The file is the encoding of such people, followed by part of one at most.
FileShape ==
  ~overlapped /\ file # Absent =>
    LET whole == IF IsBroken(file) THEN SubSeq(file, 1, Len(file) - 1) ELSE file
        b     == Parse(whole)
    IN  /\ b \in Seq(Persons) /\ Entered(b)
        /\ file \in {Serialize(b), Append(Serialize(b), Fragment)}

\* What a run has read is still in the file, until the run truncates it.
RunShape ==
  ~overlapped =>
    \A w \in Writers :
      /\ pc[w] \in Running => book[w] \in Seq(Persons) /\ Entered(book[w])
      /\ pc[w] \in Prompting \cup {"open"} =>
           IF file = Absent THEN book[w] = << >> ELSE Parse(file) = book[w]
      /\ pc[w] = "write" => file = << >>

\* The committed people are in the file, or in the book about to be written.
CommittedShape ==
  ~overlapped /\ ~interrupted =>
    /\ committed \in Seq(Persons)
    /\ (\A w \in Writers : pc[w] # "write") =>
         IF file = Absent THEN committed = << >> ELSE file = Serialize(committed)
    /\ \A w \in Writers : pc[w] = "write" => book[w] = committed

BookInv ==
  TypeOK /\ FormShape /\ OneAtATime /\ FileShape /\ RunShape /\ CommittedShape

=============================================================================
