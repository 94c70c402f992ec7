---------------------------- MODULE MCBPlusTree ----------------------------
(***************************************************************************)
(* Key sizes for the instances of BPlusTree that TLC checks.               *)
(***************************************************************************)
EXTENDS BPlusTree

\* With a capacity of 4: key 1 fits in no node, two of key 3 fit in none together.
SomeLong == [k \in Keys |-> <<5, 1, 3, 1>>[k]]
====
