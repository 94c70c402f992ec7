---------------------------- MODULE CatalogCodec ----------------------------
(***************************************************************************)
(* The catalog as the record of page 0: encode_catalog and decode_catalog  *)
(* of crates/rdbms_catalog.                                                *)
(***************************************************************************)
EXTENDS RecordFields

StorageHeap == 1
StorageIndex == 2

\* RelationKind::to_u8 and from_u8, of the kinds that are in use.  That from_u8 refuses
\* any other code is left out: the records that are read here are written by EncodeCatalog.
KindCode == [table |-> 1, index |-> 2]
KindOf(code) == CHOOSE kind \in DOMAIN KindCode : KindCode[kind] = code

\* encode_storage_object.
EncodeStorage(relation) ==
    IF relation.kind = "table"
    THEN <<Field("u8", StorageHeap), Field("u32", Len(relation.pages))>>
           \o [i \in DOMAIN relation.pages |-> Field("u64", relation.pages[i])]
    ELSE <<Field("u8", StorageIndex), Field("u64", relation.table),
           Field("u64", relation.root), Field("string", relation.column)>>

EncodeRelation(relation) ==
    <<Field("u64", relation.id), Field("u8", KindCode[relation.kind])>>
      \o EncodeStorage(relation)
      \o <<Field("string", relation.name), Field("u16", Len(relation.columns))>>
      \o FlattenSeq([i \in DOMAIN relation.columns |->
            <<Field("string", relation.columns[i].name),
              Field("string", relation.columns[i].type)>>])

EncodeExtension(extension) ==
    <<Field("string", extension.name), Field("u32", extension.abi),
      Field("string", extension.kind)>>

\* encode_catalog up to the relations, which is all that a catalog had before
\* extensions were added to it.
EncodeRelations(c) ==
    <<Field("magic", "RDBC"), Field("u16", 1), Field("u64", c.nextRelation),
      Field("u64", c.nextPage), Field("u32", Len(c.relations))>>
      \o FlattenSeq([i \in DOMAIN c.relations |-> EncodeRelation(c.relations[i])])

\* Mutant: the extensions are not written.
EncodeCatalogWithoutExtensions(c) == EncodeRelations(c)

\* encode_catalog.
EncodeCatalog(c) ==
    EncodeRelations(c) \o <<Field("u32", Len(c.extensions))>>
      \o FlattenSeq([i \in DOMAIN c.extensions |-> EncodeExtension(c.extensions[i])])

-----------------------------------------------------------------------------
\* decode_storage_object after the kind: a heap has at least one page.
StorageFields(kind) ==
    IF ~kind.ok THEN kind
    ELSE IF kind.out[1] = StorageHeap THEN ReadCounted(kind, "u32", <<"u64">>)
    ELSE IF kind.out[1] = StorageIndex THEN ReadFields(kind, <<"u64", "u64", "string">>)
    ELSE Failed(kind)
SomePages(storage) ==
    IF storage.ok /\ storage.out = <<StorageHeap, << >>>> THEN Failed(storage) ELSE storage

\* The fields of a relation that its storage object is about.
AsStorage(out) ==
    IF out[1] = StorageHeap
    THEN [pages |-> [k \in DOMAIN out[2] |-> out[2][k][1]], table |-> 0, root |-> 0, column |-> ""]
    ELSE [pages |-> << >>, table |-> out[2], root |-> out[3], column |-> out[4]]

DecodeStorage(cursor) ==
    AddGroup(cursor, SomePages(StorageFields(ReadField(Fresh(cursor), "u8"))), AsStorage)

AsRelation(out) ==
    [id |-> out[1], kind |-> KindOf(out[2]), pages |-> out[3].pages, table |-> out[3].table,
     root |-> out[3].root, column |-> out[3].column, name |-> out[4],
     columns |-> [k \in DOMAIN out[5] |-> [name |-> out[5][k][1], type |-> out[5][k][2]]]]

\* One relation: id and kind, storage, name, columns.
DecodeRelation(cursor, i) ==
    AddGroup(cursor,
             ReadCounted(ReadField(DecodeStorage(ReadFields(Fresh(cursor), <<"u64", "u8">>)),
                                   "string"),
                         "u16", <<"string", "string">>),
             AsRelation)

\* The relations, behind a header of the right format.
DecodeRelations(head) ==
    IF head.ok /\ SubSeq(head.out, 1, 2) = <<"RDBC", 1>>
    THEN AddGroup(head, FoldLeft(DecodeRelation, Fresh(head), [i \in 1..head.out[5] |-> i]),
                  LAMBDA relations : relations)
    ELSE Failed(head)

\* The extensions; a record that ends with the relations has none.
DecodeExtensions(cursor) ==
    IF IsFinished(cursor) THEN [cursor EXCEPT !.out = Append(@, << >>)]
    ELSE ReadCounted(cursor, "u32", <<"string", "u32", "string">>)

AsCatalog(out) ==
    [nextRelation |-> out[3], nextPage |-> out[4], relations |-> out[6],
     extensions |-> [k \in DOMAIN out[7] |->
        [name |-> out[7][k][1], abi |-> out[7][k][2], kind |-> out[7][k][3]]]]

\* decode_catalog: "ok", and the catalog if it is.  Nothing may follow it.
CatalogRead(cursor) ==
    IF cursor.ok /\ IsFinished(cursor) THEN [ok |-> TRUE, catalog |-> AsCatalog(cursor.out)]
    ELSE [ok |-> FALSE]
DecodeCatalog(record) ==
    CatalogRead(DecodeExtensions(DecodeRelations(
        ReadFields(Cursor(record), <<"magic", "u16", "u64", "u64", "u32">>))))
=============================================================================
