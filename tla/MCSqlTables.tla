---------------------------- MODULE MCSqlTables ----------------------------
(***************************************************************************)
(* Literals and table definitions for TLC.                                 *)
(***************************************************************************)
EXTENDS SqlTables, TLC

Null == [type |-> "null", n |-> 0]
AnInt(n) == [type |-> "int", n |-> n]
ADouble(n) == [type |-> "double", n |-> n]
AText(n) == [type |-> "text", n |-> n]

\* With a key capacity of 1, AText(2) fits in a row and in no index.  ADouble(1) is equal
\* to AnInt(1) and has no key.
SomeLiterals == {Null, AnInt(1), ADouble(1), AText(1), AText(2)}
TwoColumns == { <<[name |-> "a", type |-> "INT"], [name |-> "b", type |-> "TEXT"]>>,
                <<[name |-> "a", type |-> "DOUBLE"], [name |-> "b", type |-> "INT"]>> }

\* The smallest integer: its negative is not one.
SmallestInt == -2

\* No operator tells one relation name from another.
NameSymmetry == Permutations(Names)
====
