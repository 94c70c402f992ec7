---------------------------- MODULE MCSqlParser ----------------------------
(***************************************************************************)
(* The words of the inputs that TLC gives the parser.                      *)
(***************************************************************************)
EXTENDS SqlParser

\* Every keyword and a type, which may all be names too, and a name that is neither.
\* One keyword and the name are spelled in upper case.
Words ==
    [w \in (Keywords \ {"from"}) \cup {"FROM", "int", "T"} |->
        CASE w = "FROM" -> "from" [] w = "T" -> "t" [] OTHER -> w]
=============================================================================
