------------------------------- MODULE Packet -------------------------------
(***************************************************************************)
(* What protobuf decodes from a buffer that does not hold one whole packet *)
(* (common/packet.proto).  Client and server call recv() once and parse    *)
(* the whole buffer, 1000 or 1024 bytes: what recv() returned, followed by *)
(* what the buffer held before, zeros at first.  ParseFromArray then       *)
(* fails, and keeps what it has decoded up to there.                       *)
(***************************************************************************)
EXTENDS Naturals

\* The first byte group of a varint holds the low 7 bits of the number.
VarintGroup == 128

\* What is decoded for number i when only a beginning of it is there.
CutNumber(i) == {0, i % VarintGroup}

\* What is decoded for a number where bytes of these meet: nothing, one of
\* them, or a part.
Numbers(ids) == {0} \cup ids \cup UNION {CutNumber(i) : i \in ids}

\* An entry that is put together from parts: the ID of one user, or a part of
\* it, and a name from names, as a part of a name may be somebody's too.
Seam(users, names) ==
  [user_id : Numbers({u.user_id : u \in users}), username : names]

\* What is decoded where the bytes of entries of these users break off or
\* meet others: nothing, or one such entry.
Broken(users, names) == {{}} \cup {{s} : s \in Seam(users, names)}

\* What is decoded from the beginning of the entry of user u: nothing, its ID or
\* a part of it without a name, or its ID and a part of its name.
Stump(u, empty, names) ==
  {{}} \cup {{s} : s \in [user_id : CutNumber(u.user_id), username : {empty}]
                      \cup [user_id : {u.user_id}, username : names]}

\* The lists decoded from the beginning of a list of users that breaks off at
\* one of these cuts: <<the entries that are whole, the next one>>.
Shortened(cuts, empty, names) ==
  UNION {{k[1] \cup b : b \in Stump(k[2], empty, names)} : k \in cuts}

\* The lists decoded from parts of several lists, with these users in them.
Garbled(users, names) ==
  UNION {{some \cup b : b \in Broken(users, names)} : some \in SUBSET users}

=============================================================================
