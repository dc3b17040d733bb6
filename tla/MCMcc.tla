------------------------------- MODULE MCMcc --------------------------------
(* Instance of Mcc for TLC.                                                *)
EXTENDS Mcc, TLC

\* Clients differ only in their name.
ClientSymmetry == Permutations(Clients)
=============================================================================
