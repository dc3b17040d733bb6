# TLA+ verification of chat-app

chat-app is a terminal chat program: a server that registers users and hands
out the list of those online, and a client with a menu and two polling threads.
The repository holds two generations of the protocol: the executables speak
protobuf packets (`common/packet.proto`), and an older byte protocol, MCC
(`server/server.cpp`, `client/client.cpp`), is still there as a library that
implements the whole of the README's message forwarding. Paths below are
relative to the repository's root.

## 1. The system

| Component | State | Operations | Interacts with |
|---|---|---|---|
| `ServerApp` (`server/server_app.cpp`) | one detached thread per connection with its buffers | `run`, `handleRequest`, `handleRequestRegister`, `handleRequestUsers` | `Database` (shared, no lock), sockets |
| `Database` (`server/database.*`) | `next_id_`, `user_map_` | `registerUser`, `queueMsg`, `userExists`, `operator[]`, iteration | called by `ServerApp` and `MccServer` |
| Sockets (`tcp_lib/`) | descriptor, kernel queue of `kListenBacklog` = 5, byte counts of the blocking loops | constructors, `getConnection`, `connectB`/`connectNb`, `sendB`/`sendNb`, `receiveB`/`receiveNb`, destructors | both executables |
| `App` (`client/app.*`) | `id_`, `name_to_id_`, `id_to_name_`, `name_mtx` | `registerUser`, menu, `taskChatWithUser`, `printOnlineUsers`, `periodicGetOnlineUsers`, `periodicGetMessages` | server (one connection per request), `Console` |
| `Console` (`console/`) | `m_console_mtx`, `m_prompt`, `m_user_input` | `read`, `write` | called by all threads of `App` |
| `MccServer` (`server/server.*`) | none of its own | `parse` and five `parseRequest` methods | `Database` |
| `MccClient` (`client/client.*`) | the caller's buffers | four `encodeRequest`, four `handleResp` methods | `MccServer` over a connection |
| `ClientParser` (`client/client_parser.*`) | none | `encodeRequestRegister` | `MccServer::parseRequestRegisterProto` |
| `protobuf-tutorial/` | the address book file | `write_message` (read, prompt, write back), `read_message`, the generated messages | a program of its own |

What is hard in it:

* the server's threads share a `std::unordered_map` and a counter without a
  lock, so registrations and lists race;
* the client's three threads share two maps; one of them reads and subscripts a
  map without the mutex, and a name looked up at one time is subscripted much
  later;
* one `recv()` per request and per response: segments, ends of file and errors
  all look alike to the code, and buffers keep what an earlier response left;
* the server sends up to 1024 bytes where the client receives at most 1000;
* the blocking socket calls are loops over partial transfers, an end of file
  looks like "nothing yet", and a failed `bind` is only logged;
* the server forgets everything when it restarts while clients keep their IDs,
  and never forgets a user who left;
* a message leaves the database before its response has arrived;
* the prompt is redrawn by other threads while the user types;
* the tutorial's writer truncates its file before it writes it, and two runs may
  overlap.

`PROJECT.json` lists these as hazards, each at its line, with the properties
aimed at it.

## 2. The modules

| Module | Models |
|---|---|
| `Database` | the two members and the operations on them, as functions; `user_id_t` has `IdCount` values and wraps |
| `Packet` | what protobuf decodes from a part of a packet, or from a part in front of older bytes |
| `ServerApp` | the server executable: backlog, accept loop, handler threads step by step |
| `App` | the client executable: main thread, users thread, messages thread, against a server that is the environment |
| `ChatService` | abstract: what store-and-forward promises a user |
| `Mcc` | `MccClient` and `MccServer` with connections that fail and a server that restarts; shown to implement `ChatService` |
| `Console` | reader and writers on one terminal |
| `ChatSystem` | `ServerApp` composed with clients that register and poll, with restarts on both sides |
| `Socket` | `ServerSocket` and `Socket`: listening, connecting, and the byte loops |
| `AddressBook` | `write_message`, `read_message` and the encoding of the generated messages |
| `MCServerApp`, `MCApp`, `MCMcc`, `MCConsole`, `MCChatSystem`, `MCSocket` | instances for TLC (`AddressBook` needs none) |
| `ServerApp_proofs`, `ChatSystem_proofs`, `App_proofs`, `Mcc_proofs`, `Console_proofs`, `Socket_proofs`, `AddressBook_proofs` | the theorems about the component, with their lemmas |
| `Packet_proofs` | lemmas on what `Packet` decodes, for `App_proofs` and `ChatSystem_proofs` |

### Packet

Both executables call `recv()` once and parse their whole buffer, so what they
parse is a beginning of the packet, followed by what the buffer held: zeros at
first, later the previous response. Parsing then fails, nobody looks at the
result, and what was decoded up to there is used. A number that breaks off is
decoded as nothing or as its low 7 bits (`CutNumber`). A list of users that
breaks off is decoded as the entries that are whole and at most one more, made
of what was there of the next (`Shortened`); where it meets an older list, as
some entries of both and at most one that is put together from the two
(`Garbled`). A part of a name may be anybody's name, so it is any of the names.

### ServerApp

`pc[c]` is the next statement of the thread that serves connection `c`. The four
accesses of `registerUser` to shared memory (find or link a node, assign to it,
load the counter, store it) are four actions, and the two of
`handleRequestUsers` are two, so every interleaving of them is a behaviour. A
data race is undefined; the outcomes represented are the interleavings, a node
unlinked by a concurrent insertion, a search or an iteration cut short, and the
death of the process (`Crash`). The history variable `raced` says that
conflicting accesses overlapped, `wrapped` that the counter went round, `known`
which IDs had been delivered when a request was sent.

With `SplitReads` a request may be parsed from its first segment: `Truncated` is
the set of packets that parsing a beginning followed by zeros can give, the
empty name of a request that ends behind its tag included. The
SEND and RECV cases of the switch are empty in the code, and go to `send` with
nothing to send. The size of a list is counted in entries, those with one of
`LongNames` twice; `Capacity` is the largest that fits `tx_buffer`. For a longer
list `SerializeToArray` fails and zeros are sent.

### App

The server is the environment: `Answers` gives, for each request type, the ways
in which a request may end (a reply, a reply of which only a beginning is
received, zeros, a connection error, an end of file), and other users register
at any time. `listed` has the pairs of name and ID that the client decoded, so
what is said of names and IDs is said of what it decoded, not of what the server
meant. The critical section in which the users
thread rebuilds both maps is several steps; one that touches a single map once
is one step that waits for the mutex. `find` and `operator[]` of the messages
thread are two steps without the mutex. An error leaves the receive buffer as it
was, and the thread parses the old response once more, as in the code.

### Mcc and ChatService

A call of `MccServer::parse` is one step: the class is used by one thread. A
request and a response are the fields their bytes carry. The client's receive
buffer keeps what a response does not overwrite: its next word (an ID or a
count) and its entries. That the caller reuses one zeroed buffer is an
assumption; the class takes a reference to one vector for its lifetime
(`client/client.h:17`). Connections fail before or after `parse`; an empty
message fails the assertion of `parseRequestSend`; `Restart` empties the
database and drops all connections, while the clients keep ID and buffer.

`ChatService` has two variables per user, what waits (`box`) and what was
delivered (`got`). The mapping counts a response on its way as part of the box,
in front of the queue in the database: fetching is then a stutter, decoding a
`Deliver`, and a failed connection a `Lose` of the whole batch, which is what
`msg_q.clear()` before the response is sent means. From a restart on the mapping
is empty: the promise ends there.

### Console

The terminal is external: a current line with a cursor, and finished lines
above. Each statement that writes to it is a step. The constructor's flags (no
echo, no line buffering) are assumed to be in force, and lines are as wide as
they need to be. In `App` the reader is the main thread, the writers are all
three; that the main thread does not write while it reads is not used.

### ChatSystem

Extends `ServerApp` and uses its actions as they are: where `ServerApp` lets any
client send anything, here the requests are those of `registerUser` and
`periodicGetOnlineUsers`, and where `App` takes any answer, here it is the one
the handler thread put into `tx_buffer`. A client has one connection at a time,
so a connection is named after its client and recycled when the client closes
it. `step` is the client's position; `id_`, `username_`, `name_to_id_` are the
members of `App` and `buf` is the users thread's `rx_buffer`, which survives a
connection error and is then parsed again. `Restart` empties the database;
answers already sent still arrive, connections whose request was not read are
reset, and those whose request was read are closed without an answer: the client
then waits for ever, because `receiveNb` returns 0. It also resets the
history of the database (`raced`, `wrapped`), because the new process has a new
one. `Quit` ends a client and starts it again: the server never hears of it. `Leave`
ends one at the name prompt, which leaves the server's thread spinning on the end
of file. `stale` holds the clients whose ID the running server did not assign:
those that a restart left behind, and those whose registration failed half way,
or whose response arrived in part, and that go on with ID 0 or a part of theirs.

A response is received by one `recv()` (`ReceiveUsers`, `HandleRegister`): it may
return the first of two segments, which counts as a fault, and of a list that is
longer than `ClientCapacity` it returns what fits the client's 1000 bytes.
`cut` holds the clients whose buffer has held parts of several responses,
`long` those that were sent a list too long for it.

`id_to_name_`, the menu, chats and the messages thread are in `App` and not
repeated. A client is quit between two requests or with its answer unread, so
that a recycled connection never has an old server thread. A whole response that
is shorter than the one before it leaves the older one's tail in `rx_buffer`.
The code parses the tail too. It is no part of the new list, unless a byte of a
name is taken for the tag of `resp_users` (a colon); the model takes the new
response alone, and puts the client into `cut`, of whose list nothing is claimed.

### Socket

One direction of a connection is modelled, from client to server; the other is
the same code. A byte is named by its offset in the message, so that a wrong
offset or count shows. Each iteration of `connectB`, `sendB` and `receiveB` is a
step, in which the kernel accepts or hands over any number of bytes; an
iteration that gets nowhere is a stutter. `receiveNb` is repeated until it does
not return 0, as in `handleRequest`. `Want`, the number of bytes asked for, may
be larger than the message, as it is in both executables (1024 and 1000 bytes):
`receiveNb` then returns what is there, and `receiveB` waits for bytes that
never come. `receiveB` is called by neither executable but is part of the class.
A descriptor from `accept` is a blocking one, so the waiting is in fact inside
`recv`; the results are the same.

The kernel is external: handshake, refusal when nobody listens or the queue is
full, buffers of `BufSize` bytes, a reset when the server closes with bytes
unread, an abort when a client dies. `send` on a reset connection returns an
error or kills the process by SIGPIPE. `bindable` is whether the address may be
bound; when it may not, the constructor goes on, and `listen` binds a free port
(`lst` = "elsewhere"). `setsockopt` and `fcntl` are assumed to succeed; a failure
of `socket()` ends like one of `listen`.

### AddressBook

A message is a record of its fields, its encoding the sequence of the fields
that are set; the generated code's has-bits, defaults, field numbers, sizes and
merging rules are operators, `Parse` and `Serialize` above all. A writer is one
run of `write_message`: read and parse the file, the five questions, truncate,
write, each a step at which the process may be killed or another run may be
anywhere. `cin` fails for good after a word that is no number or at the end of
the input, and `getline` then leaves the string empty. Two writers that have the
file open write from offset 0 each, and `Overlay` computes, from the sizes, what
is left of the longer one. `read_message` keeps no state, so it is the operator
`Listing`.

Strings are one character long or empty, IDs not negative. A rest of a longer
file is assumed not to parse, and nothing is claimed once runs overlapped. A
write error that only shows when the stream is closed goes unnoticed, and the
program exits with 0, as in the code.

## 3. The runs

| Run | Expected | Shows |
|---|---|---|
| `server_safety` | pass | `TypeOK`; `UniqueIdsUnlessRaced`, `IdsBoundedByRegistrations`, `UsersListIsCurrent` |
| `server_race` | violation | two registrations get one ID (`README.md:67`) |
| `server_split` | violation | a name in two segments is registered cut short (`README.md:67`) |
| `app_safety` | pass | `NoWrongSender`, `SendTargetListedUnlessShrunk`, `MapsAgreeUnlessRaced`, `TypeOK`, with failing connections and responses received in part |
| `app_live` | pass | `UsersPoll`, `MessagesPoll` against a server that answers |
| `app_recv_hang` | violation | against `ServerApp` as it is, polling for messages stops in its first round (`README.md:23`) |
| `mcc_safety` | pass | `RefinesChatService`, `UsersMapValid`, `TypeOK` |
| `mcc_stale` | violation | a negative receive response hands out messages nobody sent (`client/client.h:76`) |
| `console_safety` | pass | `PromptIsLastLine`, `LinesAreWhole`, `TypeOK` |
| `chat` | pass | `OwnIds`, `ListedAreOthers`, `EventuallyListed`, `RequestsComplete`, `ChatTypeOK` with one fault: a restart of the server, the end of a client, a response received in part; lists that fit both buffers, one or none |
| `socket` | pass | `BytesInOrder`, `BytesAccounted`, `ConnectReturns`, `SendReturns`, `ReceiveReturns`, `TypeOK` |
| `addressbook` | pass | `CommittedKept`, `NoPhantomPeople`, `BrokenFileKept`, `PromptEnds`, `TypeOK` |

`RequestsComplete` says that every request that was sent is handled to the end
and its connection closed, unless the process dies; it is checked in `chat`,
where the requests keep coming. `EventuallyListed` is the one property that runs through both
executables: two clients that stay online see each other for good, provided the
server stays up, its threads did not race and the list fits the buffers of both.
A response that arrived in part is made good by the next one that does not; that
there is one follows from the bound on faults, so what is shown is recovery from
finitely many such responses. `ReceiveReturns` excepts a peer that has handed over
fewer bytes than `receiveB` wants and is done, by an ordinary close or by its
death: the loop then spins for ever.

Each property of a passing run has a mutant: an operator next to the definition
it changes (`RegStore_KeepsCounter`, `ClearNames_Skipped`, ...) that makes the
property fail.

Bounds, and why they are enough:

* Server: three connections, three IDs, a backlog of two in place of five. Two
  threads make every race and the third sees its result or fills the queue;
  three registrations make a three-valued ID wrap. `server_safety` has lists
  that fit the buffer (`Capacity` 2).
* Chat: two clients with a name each, one of them long, one fault. A list of one
  user fits both buffers (`ClientCapacity` 2, `Capacity` 3). A client that is quit
  registers a second time, which makes two users of one name and lists of two, of
  size 2 (fits), 3 (fits the server's buffer only) and 4 (fits none). One restart
  is enough to leave clients with IDs of the server before, one response received
  in part to leave one with half a list; there is no bound on polls. IDs are below
  128 here, so the low 7 bits of an ID are the ID; the theorems have IDs of any
  size. Once threads raced nothing is claimed of lists, and the constraint
  `WholeListsAfterRace` leaves out the behaviours in which a client then also
  receives one in part: they are nine tenths of the states, and the theorems do
  not need it.
* Socket: two clients with messages of three bytes and of one, kernel buffers of
  two, a receiver that wants two: partial sends, partial receives, unread bytes
  and a receiver that asks for more than there is all occur. A queue of one fills
  with the second client; the server is started twice.
* AddressBook: two runs, one non-empty string, the IDs 0, 7 and the largest
  `int`, up to two phones, a type that is known or not. Two runs make an
  overlap, and a second run reads what an interrupted first one left.
* App: two IDs, one name and the empty one, one message per response. Two users
  share the name, and a list received in part pairs each ID with each name. Every
  response may arrive in part, which makes eleven million states; `app_live`, where
  responses are whole, has three IDs. Polling goes on for ever, so there is
  no bound on rounds.
* Mcc: two clients (they also send to themselves), two accepted messages, which
  is what an order needs, two messages handed to a client, one restart and two
  requests after it, which is enough for each negative response. The counter does
  not wrap here: `BeforeWrap` bounds the registrations between two restarts by
  `IdCount`. `ServerApp` and `ChatSystem` have the wrap.
* Console: two writers and a reader, inputs of two characters, prompts of none
  and one, texts shorter and longer than the line they replace, two finished
  lines.

Symmetry is used where the elements of the set are only compared: connections,
clients, writers. The `CHOOSE`s of the refinement mapping are from sets of
one client until a restart, and not used after it. Deadlock is not checked: the
models stop at their bounds, and a server whose process died or that has no more
clients may stop.

Fairness: in `ChatSystem` the server's accept loop, each of its threads and each
client's users thread run (`WF`); nobody has to type a name, quit or restart. In
`Socket` the loops poll, the kernel answers a connection request and the server's
threads run to their end; nobody has to start a call or a server. In
`AddressBook` a writer goes on once its input has failed; nobody has to type. In
`App` the polling threads run and the server ends every
request it is given; nothing is assumed of the user at the terminal. The loops
in the code are busy or sleep for a second and the threads are ordinary ones, so
weak fairness is what the operating system's scheduler gives.

## 4. What is proved

TLAPS proves every safety invariant and every action property of the passing
runs, the refinement among them, for all values of the constants. A theorem is
in the `_proofs` module of its component:

| Module | Theorems | Inductive invariant |
|---|---|---|
| `ServerApp_proofs` | `TypeCorrect`, `UniqueIdsTheorem`, `UsersListTheorem`, `IdsBoundedTheorem` | `UniqueInv`, `BoundInv` |
| `ChatSystem_proofs` | `ChatTypeCorrect`, `OwnIdsTheorem`, `ListedAreOthersTheorem` | `ChatInv` |
| `App_proofs` | `AppTypeCorrect`, `NoWrongSenderTheorem`, `SendTargetListedTheorem`, `MapsAgreeTheorem` | `AppInv` |
| `Mcc_proofs` | `MccTypeCorrect`, `UsersMapValidTheorem`, `MccRefinesChatService` | `MccInv` |
| `Console_proofs` | `ConsoleTypeCorrect`, `PromptIsLastLineTheorem`, `LinesAreWholeTheorem` | `ConsoleInv` |
| `Socket_proofs` | `SocketTypeCorrect`, `BytesInOrderTheorem`, `BytesAccountedTheorem` | `StreamInv` |
| `AddressBook_proofs` | `BookTypeCorrect`, `CommittedKeptTheorem`, `NoPhantomPeopleTheorem`, `BrokenFileKeptTheorem`; `BookRoundTrip` | `BookInv` |

Each theorem but `BookRoundTrip` is `Spec => []P` (`ChatSpec` in `ChatSystem`),
or `Spec => P` for `RefinesChatService` and `BrokenFileKept`, where `P` is the
property a run checks. The inductive invariants stand at the end of the
components' modules and were checked with TLC on the runs' instances before they
were proved.

**Assumptions.** The `ASSUME`s of the modules, which TLC evaluates for every run:
numbers of IDs, and the number of bytes a receiver asks for, are positive
naturals, sizes of messages and of buffers (the server's and the client's
capacity for a list among them) are naturals, connections are a finite set,
prompts and texts are sequences of characters, `App`'s environment answers with
known outcomes, and a marker (`NoId`, `NoName`, `Unset`, `Absent`, `Fragment`,
`Failed`, the names of mutex states) is none of the values it is told apart
from. Nothing is assumed about the number of clients, threads, names, messages
or runs. Bounds such as `MaxMsgs` or `MaxFaults` are arbitrary naturals.

**ServerApp.** Uniqueness is not inductive: a step that stores the counter says
nothing of the IDs already handed out. `UniqueInv` adds `ThreadShape` (a
connection is in the backlog once and has nothing in `tx_buffer` before its
handler ran), `OneRegistrationAtATime` (until a race at most one thread is inside
`registerUser`, and the ID it works on is the counter) and `HandedOutIds` (all
IDs handed out are in the map, and below the counter unless it wrapped). From
these a store makes the new ID differ from all others, and a list, which
iterates over the map, contains all `known` IDs. `BoundInv` is the invariant for
the bound: besides the counter, the values that threads have loaded and not yet
stored are at most the number of answered registrations, so that a lost update
can only make the counter smaller.

**ChatSystem.** The server's invariant speaks of connections, the properties of
clients that outlive them. `ClientShape` ties a client's step to its connection
and its request, `HeldIds` says that no two clients of the running server have
the same ID *or have it on its way*, and `TrueLists` that a list is true
wherever it is: in the thread's `tx_buffer`, in the client's `rx_buffer`, in its
map, where all entries but one are if a list was cut off by the client's buffer.
That *at most one* is wrong goes through the map because two wrong entries of it
would be two of the buffer (`ShortenedFacts` in `Packet_proofs`). An entry is
listable once no thread will write to it again (`Settled`), which is what makes
a list that was true when it was built true when it is parsed. The attempt to
prove `ListedAreOthers` showed that it does not hold once the counter has
wrapped (two IDs and two faults are enough): `registerUser` then overwrites the
entry of a user who is still listed under another name. The property now
excludes a wrap, as `OwnIds` did. Where a request may arrive cut short
(`SplitReads`), neither the name under an ID nor the requestor of a list is what
the client sent, and these parts of the two properties are claimed for whole
requests only; `chat` is run with whole requests. Clients that parsed parts of
several responses (`cut`), or that hold a part of their ID (`stale`), are
excluded: such a list may have the ID of one user under the name of another.

**App.** `MutexState` (the users thread holds the mutex exactly while it updates,
and what it updates from is listed), `IdsListed` (names in `id_to_name_` were
listed for their ID, or are the empty string that `operator[]` inserts) and
`ChatState` and `CopyState`, which carry what a thread found in a map to the
statement that subscripts it later. That responses arrive in part changes what is
listed, and not this argument: it needs the types of what is decoded
(`GarbledType`, `NumbersType`).

**Mcc and ChatService.** `MccInv` says which call a client can have under way,
that until the first restart clients have IDs of the database and no two the
same (the one on its way included), and that lists on their way are true. The
refinement proof goes through the mapping `Box`, `Got`: as at most one client
has an ID, the `CHOOSE` in the mapping is that client, and the box of user `i`
is the messages in the response to it followed by its queue. Then `parse` of a
send is `Accept` and appends, `parse` of a receive moves messages from the queue
to the response and stutters, decoding a response is `Deliver` of exactly this
batch, and a failed connection is `Lose`.

**Console.** What the terminal shows is stated for every point of a critical
section: `AtPrompt`, `AtBlankLine`, `BeforeEcho` (a character is in the input
and not yet on the line), `BeforeErase` (the other way round). The length a
writer stored in `size` before it erases the line is still the right one because
it holds the mutex.

**Socket.** `StreamShape` is the heart: the buffer holds the bytes up to
`recv_count`, the kernel the ones that follow, and while the connection stands
both together are `sent_count` many. `QueueShape` and the two shapes of the calls
say that nothing was sent or received before there was a connection, also when
the server dies and starts again.

**AddressBook.** `BookRoundTrip` is about the encoding alone: `Parse(Serialize(b))
= b` for every address book, from lemmas on what the last occurrence of a
singular field and all occurrences of a repeated one are in a concatenation of
fields. `BookInv` then says that until runs overlap one run at a time is between
reading and writing (`OneAtATime`), that the file encodes people entered by as
many runs that have ended, followed by part of one at most (`FileShape`), that
what a run has read is what the file holds until the run truncates it
(`RunShape`), and where the committed people are (`CommittedShape`).

**Only model-checked**: the liveness properties (`UsersPoll`, `MessagesPoll`,
`EventuallyListed`, `RequestsComplete`, `ConnectReturns`, `SendReturns`,
`ReceiveReturns`, `PromptEnds`), because fairness and `ENABLED` are out of the
prover's reach. Sums over a book (`BookSize`, in `Overlay`) are folds, about
which nothing can be proved without induction; they matter only when runs
overlap, where nothing is claimed. The violation runs are counterexamples and
need no proof.

## 5. Where code and documents part

The violation runs are the disagreements that were made into runs. Others that
were seen while modelling, and that the models follow the code in:

* `App::registerUser` goes on after an error, with ID 0 (`client/app.cpp:50`);
  `client/app.h:35` says that it "logs the error and exits".
* The SEND and RECV cases of `ServerApp::handleRequest` are empty
  (`server/server_app.cpp:116`), so a chat message also leaves the client's main
  thread waiting for ever (`client/app.cpp:196`); `handleRequestRecv` is never
  called.
* A list over 1024 bytes is sent as zeros (`server/server_app.cpp:59`). One of 1001
  to 1024 bytes is received in part (`client/app.cpp:92`), and the client lists a
  user that does not exist, made of the beginning of the last entry; `README.md:14`
  asks for who is online. `ListedAreOthers` says what is left: at most one entry is
  wrong. Any response that TCP delivers in two segments is received in part too.
* A register response received in part leaves the client with ID 0 or with the low
  bits of its ID (`client/app.cpp:50`).
* `receiveB` never returns `false` at an end of file: it spins, also when the peer
  sent a shorter message and closed the connection as usual (`tcp_lib/socket.h:138`).
* A server that ends between reading a request and answering it leaves the client
  waiting for ever (`client/app.cpp:35`, `:92`), because an end of file is 0 as well.
* `parseRequestRegisterProto` registers the empty name: parsing the header from
  the stream consumes the whole of it (`server/server.cpp:39`).
* `parseRequestUsers` and `parseRequestRecv` count the header in the payload's
  length (`server/server.cpp:122`, `:222`); no client reads that length.
* `Database::getUsername` returns the empty string on every path.
* Duplicate usernames are accepted; the client's `name_to_id_` keeps one.
* `client/app.h:76` says that `name_mtx` protects both maps; the messages thread
  subscripts `id_to_name_` without it, and its `operator[]` may insert.
  `MapsAgreeUnlessRaced` says what holds until that happens.
* A message typed to a user who was listed, but whose list has shrunk since, is
  addressed to user 0 by `name_to_id_[...]`; `SendTargetListedUnlessShrunk` says
  what holds otherwise.
* Nothing removes a user from the server's map: the list of those "online"
  (`README.md:14`) has everybody who ever registered.
* A failure of `bind` is only logged (`tcp_lib/server_socket.h:53`), and the
  server then listens on a port that nobody knows.
* In `write_message` the variable that the ID is read into is not initialised,
  and at the end of the input its value is written to the file.

## 6. Not modelled

* The bytes of the chat protocol's protobuf encoding, beyond what a packet cut
  short parses to. Names and messages are short enough for the buffer a request
  is encoded in (1000 bytes, `client/app.cpp:77`). `common/packet.proto` is
  compiled at build time; its generated code is not in the repository.
* Of the generated `addressbook.pb.*`: reflection, descriptors, arenas, `Swap`,
  `release` and move operations, `Clear`, unknown fields, UTF-8 verification.
  Neither program calls them in a way that changes what is read or written.
* Terminal width, escape sequences, and output that does not go through
  `Console`.
* `Database::print`, `printInfo`, `printHostName`, logging: output only.

## 7. Plan

1. Done: `Database`, `Packet`, `ServerApp`, `App`, `ChatService`, `Mcc`, `Console`,
   `Socket`, `ChatSystem`, `AddressBook`; proofs of all their safety invariants
   and action properties, and of `Mcc => ChatService`.
2. To add: what an overlap of runs can do at most to the address book; that the
   lists of `ChatSystem` only grow while a server runs.
