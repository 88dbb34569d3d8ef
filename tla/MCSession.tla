----------------------------- MODULE MCSession -----------------------------
(* Small instances of Session for TLC.                                     *)
EXTENDS SessionDisplay

Symmetric == Permutations(Tiles) \cup Permutations(Contents)
             \cup Permutations(Entries) \cup Permutations(Colours)
=============================================================================
