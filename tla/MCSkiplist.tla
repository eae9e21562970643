----------------------------- MODULE MCSkiplist -----------------------------
(* Instances of Skiplist for TLC. *)
EXTENDS Skiplist

\* Five items: an item can have two neighbours on each side.
FiveItems == 1 .. 5
=============================================================================
