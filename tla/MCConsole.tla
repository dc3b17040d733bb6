----------------------------- MODULE MCConsole ------------------------------
(* Instance of Console for TLC.                                            *)
EXTENDS Console, TLC

CONSTANTS a, b   \* characters

MCPrompts == {<< >>, <<b>>}
MCStrings == {<<a>>, <<b, a, b>>}

\* Writers differ only in their name.
WriterSymmetry == Permutations(Writers)
=============================================================================
