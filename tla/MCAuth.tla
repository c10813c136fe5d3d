------------------------------- MODULE MCAuth -------------------------------
(***************************************************************************)
(* Values for the constants of Auth.  Everything is symmetric in the       *)
(* credentials.                                                            *)
(***************************************************************************)
EXTENDS Auth, TLC

Symmetric == Permutations(Cred)
=============================================================================
