------------------------------ MODULE Database ------------------------------
(***************************************************************************)
(* The data of the server's Database singleton (server/database.h,         *)
(* server/database.cpp) and the operations on it, as functions of the two  *)
(* private members: next_id_ and user_map_.  Modules that use the          *)
(* database declare the two members as variables and decide how atomic an  *)
(* operation is: MccServer runs one at a time, the threads of ServerApp    *)
(* interleave inside them, because the class takes no lock.                *)
(*                                                                         *)
(* user_map_ is a function whose domain is the set of stored user IDs.     *)
(***************************************************************************)
EXTENDS Naturals, Sequences

CONSTANTS
  IdCount,     \* number of values of user_id_t, 2^32 in the code
  Names,       \* usernames people type
  NoName,      \* the empty string, username of a default-built UserMetadata
  Texts        \* message texts

ASSUME IdCountAssumption == IdCount \in Nat \ {0}
ASSUME NoNameAssumption  == NoName \notin Names

Ids == 0 .. IdCount - 1

Msg == [sender_id : Ids, msg : Texts]

\* What the map stores for one user, for usernames taken from the set N.
UserMetadata(N) == [username : N, msg_q : Seq(Msg)]

\* The value operator[] leaves under a key it did not find.
DefaultMetadata == [username |-> NoName, msg_q |-> << >>]

Successor_Unbounded(id) == id + 1

\* ++ on a user_id_t: unsigned, so it wraps.
Successor(id) == IF id = IdCount - 1 THEN 0 ELSE id + 1

\* user_map_[key] = value
Store(map, key, value) ==
  [i \in DOMAIN map \cup {key} |-> IF i = key THEN value ELSE map[i]]

\* operator[]: find the key, or insert it with a default value.
Subscript(map, key) ==
  IF key \in DOMAIN map THEN map ELSE Store(map, key, DefaultMetadata)

UserExists(map, id) == id \in DOMAIN map

OtherUsers_Everyone(map, id) ==
  {[user_id |-> i, username |-> map[i].username] : i \in DOMAIN map}

\* What an iteration over the map lists, leaving out the requestor.
OtherUsers(map, id) ==
  {[user_id |-> i, username |-> map[i].username] : i \in DOMAIN map \ {id}}

=============================================================================
