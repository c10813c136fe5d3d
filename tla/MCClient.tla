----------------------------- MODULE MCClient -----------------------------
(***************************************************************************)
(* Values for the constants of Client: a handler for one key and one for   *)
(* any item.  TLC looks at both disjuncts of Accepts inside an action, so  *)
(* Fold has a value for NoKey too.                                         *)
(***************************************************************************)
EXTENDS Client

CONSTANTS a, b, keyed, unkeyed

MCFold == [k \in {a, b, NoKey} |-> k]

MCKeyOf == [h \in {keyed, unkeyed} |-> IF h = keyed THEN a ELSE NoKey]
=============================================================================
