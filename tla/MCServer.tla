------------------------------ MODULE MCServer ------------------------------
(***************************************************************************)
(* Values for the constants of Server.  MCSame is the id a queue gets      *)
(* where unsigned long has four bytes; MCTruncated is what is left of it   *)
(* where it has eight: name2 is name1 with its second and third group      *)
(* zero, and in name3 they are zero anyway.                                *)
(***************************************************************************)
EXTENDS Server

CONSTANTS name1, name2, name3

MCFold == [k \in Key |-> k]
MCSame == [x \in Name |-> x]
MCTruncated == [x \in Name |-> IF x = name1 THEN name2 ELSE x]

Symmetric == Permutations(MQ) \cup Permutations(Item) \cup Permutations(Want)
               \cup Permutations(Conn)
=============================================================================
