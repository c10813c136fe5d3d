------------------------------ MODULE Matching ------------------------------
(***************************************************************************)
(* Which items satisfy which requests: what queue.c and its callers all    *)
(* agree on, and the only thing the abstract queue of module QueueSpec     *)
(* shares with the detailed one.                                           *)
(***************************************************************************)
EXTENDS Integers, FiniteSets, SequencesExt

CONSTANTS
  Key,     \* the keys items and waits may carry
  NoKey,   \* the NULL key
  Fold     \* Fold[k]: k up to letter case, what strcasecmp compares

ASSUME KeyAssumption == NoKey \notin Key

AnyKey == Key \cup {NoKey}

(***************************************************************************)
(* An element of a list: the item or the callback it stands for, and its   *)
(* key.                                                                    *)
(***************************************************************************)
Entry(ref, key) == [ref |-> ref, key |-> key]

ListOf(R) == Seq([ref : R, key : AnyKey])

(***************************************************************************)
(* Whether a wait, take or peek that asks for `wanted' is satisfied by an  *)
(* item with this key: no key asks for any item, and an item without a key *)
(* satisfies only that.                                                    *)
(***************************************************************************)
Accepts(wanted, key) ==
  \/ wanted = NoKey
  \/ key # NoKey /\ Fold[wanted] = Fold[key]
=============================================================================
