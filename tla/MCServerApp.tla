---------------------------- MODULE MCServerApp -----------------------------
(* Instance of ServerApp for TLC.                                          *)
EXTENDS ServerApp, TLC

\* Connections differ only in their name.
ConnSymmetry == Permutations(Conns)
=============================================================================
