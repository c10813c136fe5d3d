------------------------------ MODULE MCQueue -------------------------------
(***************************************************************************)
(* Values for the constants of Queue: keys a and A differ in letter case   *)
(* only, b is another key.                                                 *)
(***************************************************************************)
EXTENDS Queue

CONSTANTS a, A, b

MCFold == [k \in Key |-> IF k = b THEN b ELSE a]

Symmetric == Permutations(Item) \cup Permutations(Waiter)
=============================================================================
