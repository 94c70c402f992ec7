------------------------------ MODULE RowCodec ------------------------------
(***************************************************************************)
(* The row bytes of SQL tables: encode_row and decode_row of               *)
(* crates/rdbms_sql.  A value has a type and a number, as in Extensions.   *)
(***************************************************************************)
EXTENDS RecordFields

\* The tag of each type of value, and the field that follows it.  An integer and a
\* double have the same width: only the tag tells them apart.
Tag == [null |-> 0, int |-> 1, text |-> 2, double |-> 3]
Width == [int |-> "b8", text |-> "text", double |-> "b8"]

\* Mutant: a double gets the tag of an integer.
EncodeNumber(value) ==
    IF value.type = "null" THEN <<Field("u8", Tag.null)>>
    ELSE <<Field("u8", IF value.type = "text" THEN Tag.text ELSE Tag.int),
           Field(Width[value.type], value.n)>>

\* One turn of encode_row.
EncodeValue(value) ==
    IF value.type = "null" THEN <<Field("u8", Tag.null)>>
    ELSE <<Field("u8", Tag[value.type]), Field(Width[value.type], value.n)>>

\* encode_row.
EncodeRow(values) ==
    <<Field("magic", "RDBR"), Field("u16", 1), Field("u16", Len(values))>>
      \o FlattenSeq([i \in DOMAIN values |-> EncodeValue(values[i])])

\* One turn of decode_row; the value is added to the list in "out".
DecodeValue(cursor, i) ==
    LET tag == ReadField(Fresh(cursor), "u8")
        type == CHOOSE t \in DOMAIN Tag : Tag[t] = tag.out[1]
        number == ReadField(Fresh(tag), Width[type])
    IN  IF ~cursor.ok \/ ~tag.ok \/ tag.out[1] \notin Range(Tag) THEN Failed(cursor)
        ELSE IF type = "null"
        THEN [tag EXCEPT !.out = Append(cursor.out, [type |-> type, n |-> 0])]
        ELSE IF ~number.ok THEN Failed(cursor)
        ELSE [number EXCEPT !.out = Append(cursor.out, [type |-> type, n |-> number.out[1]])]

\* decode_row: "ok", and the values if it is.
DecodeRow(record) ==
    LET head == ReadFields(Cursor(record), <<"magic", "u16", "u16">>)
        values == FoldLeft(DecodeValue, Fresh(head), [i \in 1..head.out[3] |-> i])
    IN  IF \/ ~head.ok \/ head.out[1] # "RDBR" \/ head.out[2] # 1
           \/ ~values.ok \/ ~IsFinished(values)
        THEN [ok |-> FALSE]
        ELSE [ok |-> TRUE, values |-> values.out]
=============================================================================
