---------------------------- MODULE RecordFields ----------------------------
(***************************************************************************)
(* Records of bytes, as the encoders of crates/rdbms_catalog and           *)
(* crates/rdbms_sql build them and their DecodeCursors read them.          *)
(*                                                                         *)
(* A record is a sequence of fields, each of the width with which it is    *)
(* written; a string, length and bytes, is one field.  A cursor over it    *)
(* fails when a field is missing or has another width.                     *)
(***************************************************************************)
EXTENDS Integers, SequencesExt

Field(width, value) == [width |-> width, value |-> value]

\* DecodeCursor: a place in the record, and what has been read.
Cursor(record) == [record |-> record, offset |-> 0, ok |-> TRUE, out |-> << >>]
Fresh(cursor) == [cursor EXCEPT !.out = << >>]
Failed(cursor) == [cursor EXCEPT !.ok = FALSE]
IsFinished(cursor) == cursor.offset = Len(cursor.record)

\* read_u8, read_u16, ..., read_string.
ReadField(cursor, width) ==
    IF /\ cursor.ok /\ ~IsFinished(cursor)
       /\ cursor.record[cursor.offset + 1].width = width
    THEN [cursor EXCEPT !.offset = @ + 1,
                        !.out = Append(@, cursor.record[cursor.offset + 1].value)]
    ELSE Failed(cursor)

ReadFields(cursor, widths) == FoldLeft(ReadField, cursor, widths)

\* Replaces what "inner" has read by one value after what "outer" had read.
AddGroup(outer, inner, Build(_)) ==
    IF inner.ok THEN [inner EXCEPT !.out = Append(outer.out, Build(inner.out))] ELSE inner

\* The same fields once more, as one group.
ReadGroup(cursor, widths) ==
    AddGroup(cursor, ReadFields(Fresh(cursor), widths), LAMBDA group : group)

\* A count, and then that many groups, as one sequence.
ReadGroups(count, widths) ==
    IF count.ok THEN FoldLeft(ReadGroup, Fresh(count), [i \in 1..count.out[1] |-> widths])
    ELSE count
ReadCounted(cursor, countWidth, widths) ==
    AddGroup(cursor, ReadGroups(ReadField(Fresh(cursor), countWidth), widths),
             LAMBDA groups : groups)
=============================================================================
