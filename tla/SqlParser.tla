----------------------------- MODULE SqlParser -----------------------------
(***************************************************************************)
(* The recursive-descent parser of crates/rdbms_sql: one statement from a  *)
(* sequence of tokens.                                                     *)
(*                                                                         *)
(* The lexer is not modelled.  Tokens are supplied one at a time, when the *)
(* parser looks at them, and each may be any token.  "at" is the place in  *)
(* the parse_ functions that the parser has come to; every step looks at   *)
(* one token (two after SELECT) and consumes it, passes over it or         *)
(* returns an error.                                                       *)
(***************************************************************************)
EXTENDS Integers, SequencesExt

CONSTANTS
    Lower,      \* for each spelling of a word in the input, its lower-case form
    MaxTokens,  \* bound: the tokens of the input, its end included
    MaxKeywords \* bound: how many of them are spelled like a keyword

ASSUME ParserAssumption ==
    /\ MaxTokens \in Nat \ {0} /\ MaxKeywords \in Nat
    /\ \A w \in DOMAIN Lower : {w, Lower[w]} \subseteq STRING

VARIABLES
    tokens,   \* Parser.tokens, as far as the parser has looked
    offset,   \* Parser.offset
    at,       \* where parse_statement is
    stmt,     \* the statement being built
    outcome   \* "parsing", "ok" or "error"

vars == <<tokens, offset, at, stmt, outcome>>

\* Token: an identifier has its spelling, a number or a string its text.
Token(kind, word) == [kind |-> kind, word |-> word]
Idents == {Token("ident", w) : w \in DOMAIN Lower}
Comma == Token("comma", ",")
LParen == Token("lparen", "(")
RParen == Token("rparen", ")")
Semicolon == Token("semicolon", ";")
Star == Token("star", "*")
Equals == Token("eq", "=")
Eof == Token("eof", "")
Numbers == {Token("number", w) : w \in {"7", "7.5", "7.5.5"}}
Text == Token("string", "x")
Tokens ==
    Idents \cup Numbers \cup {Comma, LParen, RParen, Semicolon, Star, Equals, Text, Eof}

\* The words that the parser gives a meaning.  None is reserved.
Keywords == {"create", "table", "index", "on", "insert", "into", "values", "load",
             "extension", "select", "from", "where", "null"}

\* The types that normalize_type_name accepts.  It returns them in upper case; here names
\* and types both have the lower-case form.
TypeNames == {"int", "integer", "text", "double", "real", "float"}

NoStatement ==
    [kind |-> "none", name |-> "", table |-> "", column |-> "",
     columns |-> << >>, values |-> << >>, all |-> FALSE, where |-> FALSE]

Init ==
    /\ tokens = << >> /\ offset = 0
    /\ at = "statement" /\ stmt = NoStatement
    /\ outcome = "parsing"

-----------------------------------------------------------------------------
\* peek: past the end it is the last token, which is Eof.
Peek == tokens[offset + 1]
PeekN(n) == IF offset + 1 + n <= Len(tokens) THEN tokens[offset + 1 + n] ELSE Last(tokens)

\* How many tokens the next step looks at.
Lookahead == IF at = "select" THEN 2 ELSE 1

Ended == tokens # << >> /\ Last(tokens) = Eof
Ready == outcome = "parsing" /\ (Ended \/ Len(tokens) >= offset + Lookahead)

IsKeyword(t) == t.kind = "ident" /\ Lower[t.word] \in Keywords

\* What the parser is given by the lexer, which is not modelled: any tokens, of which the
\* last is Eof.  The bound leaves room for it.
Supply ==
    /\ outcome = "parsing" /\ ~Ready
    /\ \E t \in Tokens :
         /\ Len(tokens) + 1 = MaxTokens => t = Eof
         /\ IsKeyword(t) => Len(SelectSeq(tokens, IsKeyword)) < MaxKeywords
         /\ tokens' = Append(tokens, t)
    /\ UNCHANGED <<offset, at, stmt, outcome>>

\* consume_keyword and parse_literal compare without regard to case.
IsIdent == Peek.kind = "ident"
IsWord(word) == IsIdent /\ Lower[Peek.word] = word

\* consume_token or consume_keyword that finds its token.
Consume(from, ok, to, next) ==
    /\ Ready /\ at = from /\ ok
    /\ offset' = offset + 1 /\ at' = to /\ stmt' = next
    /\ UNCHANGED <<tokens, outcome>>

\* ... and one that does not, where that is no error.
Pass(from, ok, to) ==
    /\ Ready /\ at = from /\ ok
    /\ at' = to
    /\ UNCHANGED <<tokens, offset, stmt, outcome>>

Refuse(from, ok) ==
    /\ Ready /\ at = from /\ ok
    /\ outcome' = "error"
    /\ UNCHANGED <<tokens, offset, at, stmt>>

\* expect_token, expect_keyword and expect_identifier.
Expect(from, ok, to, next) == Consume(from, ok, to, next) \/ Refuse(from, ~ok)

\* parse_literal: NULL, a string, or a number that parses.
LiteralValue ==
    CASE IsWord("null") -> "null"
      [] Peek.kind = "string" -> "text"
      [] Peek.kind = "number" /\ Peek.word = "7" -> "integer"
      [] Peek.kind = "number" /\ Peek.word = "7.5" -> "double"
      [] OTHER -> "none"
IsLiteral == LiteralValue # "none"

\* Mutant: the identifier is taken as it was spelled.
WordAsSpelled == Peek.word

\* normalize_identifier of the identifier looked at.
Word == Lower[Peek.word]

-----------------------------------------------------------------------------
\* parse_statement: the first keyword, and the second of CREATE.
ParseStatement ==
    LET first == {"create", "insert", "load", "select"}
    IN  \/ Consume("statement", IsWord("create"), "create", stmt)
        \/ Consume("statement", IsWord("insert"), "into", [stmt EXCEPT !.kind = "insert"])
        \/ Consume("statement", IsWord("load"), "extension", [stmt EXCEPT !.kind = "load"])
        \/ Consume("statement", IsWord("select"), "select", [stmt EXCEPT !.kind = "select"])
        \/ Refuse("statement", ~(IsIdent /\ Word \in first))
        \/ Consume("create", IsWord("table"), "tableName", [stmt EXCEPT !.kind = "table"])
        \/ Consume("create", IsWord("index"), "indexName", [stmt EXCEPT !.kind = "index"])
        \/ Refuse("create", ~IsWord("table") /\ ~IsWord("index"))

\* parse_create_table.
ParseCreateTable ==
    \/ Expect("tableName", IsIdent, "columnsOpen", [stmt EXCEPT !.table = Word])
    \/ Expect("columnsOpen", Peek = LParen, "columnName", stmt)
    \/ Expect("columnName", IsIdent, "columnType",
              [stmt EXCEPT !.columns = Append(@, [name |-> Word, type |-> ""])])
    \/ Expect("columnType", IsIdent /\ Word \in TypeNames, "columnsMore",
              [stmt EXCEPT !.columns[Len(stmt.columns)].type = Word])
    \/ Consume("columnsMore", Peek = Comma, "columnName", stmt)
    \/ Pass("columnsMore", Peek # Comma, "columnsClose")
    \/ Expect("columnsClose", Peek = RParen, "finish", stmt)

\* parse_create_index.
ParseCreateIndex ==
    \/ Expect("indexName", IsIdent, "on", [stmt EXCEPT !.name = Word])
    \/ Expect("on", IsWord("on"), "indexTable", stmt)
    \/ Expect("indexTable", IsIdent, "indexOpen", [stmt EXCEPT !.table = Word])
    \/ Expect("indexOpen", Peek = LParen, "indexColumn", stmt)
    \/ Expect("indexColumn", IsIdent, "indexClose", [stmt EXCEPT !.column = Word])
    \/ Expect("indexClose", Peek = RParen, "finish", stmt)

\* The list of literals of parse_insert and of parse_select_function, after "(".
ParseLiterals ==
    \/ Consume("literals", Peek = RParen, "finish", stmt)
    \/ Pass("literals", Peek # RParen, "literal")
    \/ Expect("literal", IsLiteral, "literalsMore",
              [stmt EXCEPT !.values = Append(@, LiteralValue)])
    \/ Consume("literalsMore", Peek = Comma, "literal", stmt)
    \/ Pass("literalsMore", Peek # Comma, "literalsClose")
    \/ Expect("literalsClose", Peek = RParen, "finish", stmt)

\* parse_insert, up to its list.
ParseInsert ==
    \/ Expect("into", IsWord("into"), "insertTable", stmt)
    \/ Expect("insertTable", IsIdent, "values", [stmt EXCEPT !.table = Word])
    \/ Expect("values", IsWord("values"), "valuesOpen", stmt)
    \/ Expect("valuesOpen", Peek = LParen, "literals", stmt)

\* parse_load_extension.
ParseLoadExtension ==
    \/ Expect("extension", IsWord("extension"), "extensionName", stmt)
    \/ Expect("extensionName", IsIdent, "finish", [stmt EXCEPT !.name = Word])

\* peek_is_function_call.
IsFunctionCall == IsIdent /\ PeekN(1) = LParen

\* parse_select: the projection, FROM, and the predicate if there is WHERE.
ParseSelect ==
    \/ Pass("select", IsFunctionCall, "function")
    \/ Pass("select", ~IsFunctionCall, "projection")
    \/ Consume("projection", Peek = Star, "from", [stmt EXCEPT !.all = TRUE])
    \/ Pass("projection", Peek # Star, "selected")
    \/ Expect("selected", IsIdent, "selectedMore",
              [stmt EXCEPT !.columns = Append(@, [name |-> Word, type |-> ""])])
    \/ Consume("selectedMore", Peek = Comma, "selected", stmt)
    \/ Pass("selectedMore", Peek # Comma, "from")
    \/ Expect("from", IsWord("from"), "selectTable", stmt)
    \/ Expect("selectTable", IsIdent, "where", [stmt EXCEPT !.table = Word])
    \/ Consume("where", IsWord("where"), "predicate", [stmt EXCEPT !.where = TRUE])
    \/ Pass("where", ~IsWord("where"), "finish")
    \/ Expect("predicate", IsIdent, "equals", [stmt EXCEPT !.column = Word])
    \/ Expect("equals", Peek = Equals, "predicateValue", stmt)
    \/ Expect("predicateValue", IsLiteral, "finish",
              [stmt EXCEPT !.values = Append(@, LiteralValue)])

\* parse_select_function, up to its list.
ParseSelectFunction ==
    \/ Expect("function", IsIdent, "functionOpen",
              [stmt EXCEPT !.kind = "function", !.name = Word])
    \/ Expect("functionOpen", Peek = LParen, "literals", stmt)

\* Mutant: what follows the semicolon is not looked at.
FinishAtSemicolon ==
    /\ Ready /\ at = "finish"
    /\ outcome' = IF Peek \in {Semicolon, Eof} THEN "ok" ELSE "error"
    /\ UNCHANGED <<tokens, offset, at, stmt>>

\* Mutant: a semicolon is looked at and not consumed.
FinishStuck ==
    \/ Pass("finish", Peek = Semicolon, "finish")
    \/ Refuse("finish", Peek \notin {Semicolon, Eof})
    \/ /\ Ready /\ at = "finish" /\ Peek = Eof
       /\ outcome' = "ok"
       /\ UNCHANGED <<tokens, offset, at, stmt>>

\* finish: semicolons, and then nothing.
Finish ==
    \/ Consume("finish", Peek = Semicolon, "finish", stmt)
    \/ Refuse("finish", Peek \notin {Semicolon, Eof})
    \/ /\ Ready /\ at = "finish" /\ Peek = Eof
       /\ outcome' = "ok"
       /\ UNCHANGED <<tokens, offset, at, stmt>>

Parse ==
    \/ ParseStatement \/ ParseCreateTable \/ ParseCreateIndex \/ ParseLiterals
    \/ ParseInsert \/ ParseLoadExtension \/ ParseSelect \/ ParseSelectFunction \/ Finish

Next == Supply \/ Parse

\* One thread, which the scheduler keeps running.
Spec == Init /\ [][Next]_vars /\ WF_vars(Next)

-----------------------------------------------------------------------------
(***************************************************************************)
(* The grammar of docs/sql.md, as sentence forms: for each place of a      *)
(* sentence, the tokens that may stand there.  Every word may be a name.   *)
(* The document writes '(literal, ...)', which leaves it open whether the  *)
(* list may be empty; as in the code it may, of values and of arguments.   *)
(***************************************************************************)

Key(word) == {t \in Idents : Lower[t.word] = word}
Name == Idents
Type == {t \in Idents : Lower[t.word] \in TypeNames}
Literal == Key("null") \cup {Text, Token("number", "7"), Token("number", "7.5")}

\* n items with commas between them.
List(n, item) ==
    FlattenSeq([i \in 1..n |-> IF i = 1 THEN item ELSE <<{Comma}>> \o item])

Sentences(n) ==
    LET Parens(form) == <<{LParen}>> \o form \o <<{RParen}>>
        Where == {<< >>, <<Key("where"), Name, {Equals}, Literal>>}
        Projections == {<<{Star}>>} \cup (IF n > 0 THEN {List(n, <<Name>>)} ELSE {})
    IN  {<<Key("insert"), Key("into"), Name, Key("values")>> \o Parens(List(n, <<Literal>>)),
         <<Key("select"), Name>> \o Parens(List(n, <<Literal>>)),
         <<Key("create"), Key("index"), Name, Key("on"), Name>> \o Parens(<<Name>>),
         <<Key("load"), Key("extension"), Name>>}
        \cup {<<Key("create"), Key("table"), Name>> \o Parens(List(m, <<Name, Type>>)) :
                m \in {n} \ {0}}
        \cup {<<Key("select")>> \o p \o <<Key("from"), Name>> \o w :
                p \in Projections, w \in Where}

\* The inputs of that grammar, with their semicolons and Eof: all of those with at most
\* MaxTokens tokens, and some way to end each that is longer.
Grammar ==
    LET forms == UNION {{s \o [i \in 1..k |-> {Semicolon}] \o <<{Eof}>> : s \in Sentences(n)} :
                            n, k \in 0..MaxTokens}
    IN  {form \in forms : Len(form) <= MaxTokens + 8}

\* The tokens s may begin a sentence of that form.
Begins(s, form) == Len(s) <= Len(form) /\ \A i \in DOMAIN s : s[i] \in form[i]

\* parse_statement accepts the documented statements and nothing else, keywords used as
\* names included: what it accepts is a whole sentence with no rest ("requires that no
\* garbage is left after the statement"), and when it gives up, no continuation of what
\* it has read would have been one.
AcceptsTheGrammar ==
    /\ outcome = "ok" =>
        \E form \in Grammar : Len(form) = Len(tokens) /\ Begins(tokens, form)
    /\ outcome = "error" => \A form \in Grammar : ~Begins(tokens, form)

-----------------------------------------------------------------------------
\* A statement written out again, as words and marks.
Written ==
    LET Items(s) == FlattenSeq([i \in DOMAIN s |-> IF i = 1 THEN s[i] ELSE <<",">> \o s[i]])
        Columns == Items([i \in DOMAIN stmt.columns |->
                            IF stmt.kind = "table"
                            THEN <<stmt.columns[i].name, stmt.columns[i].type>>
                            ELSE <<stmt.columns[i].name>>])
        Spelled == [null |-> "null", text |-> "x", integer |-> "7", double |-> "7.5"]
        Values == Items([i \in DOMAIN stmt.values |-> <<Spelled[stmt.values[i]]>>])
    IN  CASE stmt.kind = "table" ->
               <<"create", "table", stmt.table, "(">> \o Columns \o <<")">>
          [] stmt.kind = "index" ->
               <<"create", "index", stmt.name, "on", stmt.table, "(", stmt.column, ")">>
          [] stmt.kind = "insert" ->
               <<"insert", "into", stmt.table, "values", "(">> \o Values \o <<")">>
          [] stmt.kind = "load" -> <<"load", "extension", stmt.name>>
          [] stmt.kind = "function" -> <<"select", stmt.name, "(">> \o Values \o <<")">>
          [] stmt.kind = "select" ->
               <<"select">> \o (IF stmt.all THEN <<"*">> ELSE Columns)
                 \o <<"from", stmt.table>>
                 \o (IF stmt.where THEN <<"where", stmt.column, "=">> \o Values ELSE << >>)

\* The statement says what was written: each of its names, types and values stands where
\* the text has it, in its order, whatever the case of the letters.
StatementKeepsWords ==
    LET Folded(t) == IF t.kind = "ident" THEN Lower[t.word] ELSE t.word
    IN  outcome = "ok" => IsPrefix(Written, [i \in DOMAIN tokens |-> Folded(tokens[i])])

\* parse_statement returns on every input, whatever its loops meet.
ParserReturns == <>(outcome # "parsing")
=============================================================================
