------------------------------- MODULE MC_Portal -------------------------------
(* Two requests at a time; three addresses, so that one can be deleted, one       *)
(* promoted and one added; a third mailbox that either account may move to.       *)
EXTENDS Portal, TLC

CONSTANTS r1, r2, a, b, c

Interchangeable == Permutations({r1, r2}) \cup Permutations({a, b, c})
===============================================================================
