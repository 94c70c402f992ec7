----------------------------- MODULE SqlTables -----------------------------
(***************************************************************************)
(* SQL statements over catalog, heap and indexes: the executor of          *)
(* crates/rdbms_sql, the relation metadata of rdbms_catalog, and the       *)
(* staged state of one transaction of rdbms_tx per statement.              *)
(*                                                                         *)
(* "committed" is what every reader sees, "work" what the statement in     *)
(* progress has staged.  How a commit reaches the files is TxStore's       *)
(* subject, how a B+Tree stores and finds its entries BPlusTree's: here    *)
(* an index is the set of its entries and the pages it has allocated.      *)
(***************************************************************************)
EXTENDS CatalogCodec, RowCodec, Extensions, FiniteSets

CONSTANTS
    Names,           \* relation names
    Schemas,         \* column lists that CREATE TABLE is given
    Literals,        \* SQL literals
    PageCapacity,    \* bytes of row data that fit in one heap page
    KeyCapacity,     \* the longest text key that fits in an index node
    CatalogCapacity, \* relations, heap pages and extensions that fit in the catalog page
    MaxPage,         \* bound: page ids
    MaxRows          \* bound: rows of the database

Types == {"INT", "TEXT", "DOUBLE"}
Value == [type : {"null", "int", "text", "double"}, n : Int]

\* NULL has no number, and the number of a text is a length.
ASSUME SqlAssumption ==
    /\ {PageCapacity, KeyCapacity, CatalogCapacity, MaxPage, MaxRows} \subseteq Nat
    /\ Schemas \subseteq Seq([name : STRING, type : Types])
    /\ \A v \in Literals :
         v \in Value /\ (v.type = "null" => v.n = 0) /\ (v.type = "text" => v.n >= 0)

ColumnNames == UNION {{columns[i].name : i \in DOMAIN columns} : columns \in Schemas}
Column == [name : ColumnNames, type : Types \cup {"INDEX_KEY"}]
RowId == [page : 1..MaxPage, slot : Nat]

VARIABLES
    committed, \* catalog, heap pages and indexes after the last commit
    work,      \* the same as the transaction of the current statement sees them
    pc,        \* "idle", or "entries" while a statement adds index entries
    todo       \* the index entries that the statement has still to add

vars == <<committed, work, pc, todo>>

Relation == [id : 1..CatalogCapacity, name : Names, kind : {"table", "index"},
             pages : Seq(1..MaxPage), columns : Seq(Column),
             table : 0..CatalogCapacity, root : 0..MaxPage, column : ColumnNames \cup {""}]
Extension == [name : DOMAIN Builtin, abi : Nat, kind : {"static"}]
Catalog == [nextRelation : Nat, nextPage : 1..(MaxPage + 1), relations : Seq(Relation),
            extensions : Seq(Extension)]
IndexEntry == [key : Value, row : RowId]
Index == [entries : SUBSET IndexEntry, pages : SUBSET (1..MaxPage)]
Indexes == [1..CatalogCapacity -> Index]

\* An empty database: Catalog::empty.
Init ==
    /\ committed = [catalog |-> [nextRelation |-> 1, nextPage |-> 1, relations |-> << >>,
                                 extensions |-> << >>],
                    heap |-> [p \in 1..MaxPage |-> << >>],
                    index |-> [i \in 1..CatalogCapacity |-> [entries |-> {}, pages |-> {}]]]
    /\ work = committed
    /\ pc = "idle" /\ todo = << >>

-----------------------------------------------------------------------------
(***************************************************************************)
(* The catalog.                                                            *)
(***************************************************************************)

RelationsNamed(cat, name) == {r \in Range(cat.relations) : r.name = name}
RelationById(cat, id) == CHOOSE r \in Range(cat.relations) : r.id = id
Tables(cat) == {r \in Range(cat.relations) : r.kind = "table"}

\* indexes_on_table, in catalog order.
IndexesOn(cat, id) ==
    LET on[n \in 0..Len(cat.relations)] ==
            IF n = 0 THEN << >>
            ELSE IF cat.relations[n].kind = "index" /\ cat.relations[n].table = id
            THEN Append(on[n - 1], cat.relations[n])
            ELSE on[n - 1]
    IN  on[Len(cat.relations)]

\* The first column of that name (resolve_column_index); 0 if there is none.
ColumnIndex(relation, name) ==
    LET places == {i \in DOMAIN relation.columns : relation.columns[i].name = name}
    IN  IF places = {} THEN 0 ELSE CHOOSE i \in places : \A j \in places : i <= j

\* Does the encoded catalog fit in page 0 (Catalog::to_page)?
SizeWith(size, relation) == size + 1 + Len(relation.pages)
CatalogFits(cat) == FoldLeft(SizeWith, Len(cat.extensions), cat.relations) <= CatalogCapacity

\* allocate_relation_id and allocate_page_id, and the new relation at the end.
WithRelation(cat, relation) ==
    [cat EXCEPT !.nextRelation = @ + 1, !.nextPage = @ + 1,
                !.relations = Append(@, relation)]

\* Mutant: the new page takes the place of the pages there are.
WithOnlyHeapPage(cat, id) ==
    [cat EXCEPT !.nextPage = @ + 1,
                !.relations = [i \in DOMAIN @ |->
                    IF @[i].id = id THEN [@[i] EXCEPT !.pages = <<cat.nextPage>>] ELSE @[i]]]

\* append_heap_page.
Grown(relation, page) == [relation EXCEPT !.pages = Append(@, page)]
WithHeapPage(cat, id) ==
    [cat EXCEPT !.nextPage = @ + 1,
                !.relations = [i \in DOMAIN @ |->
                    IF @[i].id = id THEN Grown(@[i], cat.nextPage) ELSE @[i]]]

-----------------------------------------------------------------------------
(***************************************************************************)
(* Values and rows.                                                        *)
(***************************************************************************)

\* The number of a text stands for its length.  A row has one unit for its head and one
\* for each number.
KeySize(value) == IF value.type = "text" THEN value.n ELSE 1
FieldSize(field) ==
    IF field.width = "text" THEN field.value
    ELSE IF field.width \in {"magic", "b8"} THEN 1 ELSE 0
RowSize(bytes) == MapThenSumSet(LAMBDA i : FieldSize(bytes[i]), DOMAIN bytes)

\* coerce_value: what a column accepts.
Coercible(type, value) ==
    \/ value.type = "null"
    \/ type = "INT" /\ value.type = "int"
    \/ type = "TEXT" /\ value.type = "text"
    \/ type = "DOUBLE" /\ value.type \in {"double", "int"}

\* coerce_value: an integer literal becomes a double in a DOUBLE column.  The literals are
\* numbers that a double holds exactly; from 2^53 on "as f64" rounds.
Coerced(type, value) ==
    IF type = "DOUBLE" /\ value.type = "int" THEN [value EXCEPT !.type = "double"] ELSE value

\* index_key_from_value: NULL and DOUBLE have no key.
HasKey(value) == value.type \in {"int", "text"}

\* sql_values_equal: numbers compare across types (exactly, as a double holds the integers
\* that are tried), and NULL equals NULL.
SqlEqual(left, right) ==
    \/ left = right
    \/ {left.type, right.type} = {"int", "double"} /\ left.n = right.n

\* The row at an address, after decode_row.
RowAt(state, row) == DecodeRow(state.heap[row.page][row.slot]).values

\* full_scan: every row of the relation's pages.
FullScan(state, relation) ==
    {r \in [page : Range(relation.pages), slot : 1..MaxRows] : r.slot <= Len(state.heap[r.page])}

AllRows(state) == UNION {FullScan(state, r) : r \in Tables(state.catalog)}

-----------------------------------------------------------------------------
(***************************************************************************)
(* Statements.  Each is one transaction.  One that fails after begin       *)
(* returns through "?", which drops the transaction (FailStatement).       *)
(***************************************************************************)

\* CREATE TABLE: create_table_autocommit.
CreateTable(name, columns) ==
    LET cat == committed.catalog
        table == [id |-> cat.nextRelation, name |-> name, kind |-> "table",
                  pages |-> <<cat.nextPage>>, columns |-> columns,
                  table |-> 0, root |-> 0, column |-> ""]
    IN  /\ pc = "idle"
        /\ RelationsNamed(cat, name) = {}
        /\ \A i, j \in DOMAIN columns : columns[i].name = columns[j].name => i = j
        /\ cat.nextPage <= MaxPage
        /\ CatalogFits(WithRelation(cat, table))
        /\ committed' = [committed EXCEPT !.catalog = WithRelation(cat, table)]
        /\ work' = committed'
        /\ UNCHANGED <<pc, todo>>

\* The pages of a relation with room for a row, as places in its page list.
PagesWithRoom(state, relation, bytes) ==
    {i \in DOMAIN relation.pages :
        LET rows == state.heap[relation.pages[i]]
        IN  MapThenSumSet(LAMBDA k : RowSize(rows[k]), DOMAIN rows) + RowSize(bytes) <= PageCapacity}

\* Mutant: the page of a row that needs a new one is not listed in the catalog.
InsertRowUnlisted(state, relation, bytes) ==
    LET open == PagesWithRoom(state, relation, bytes)
        page == IF open = {} THEN state.catalog.nextPage
                ELSE relation.pages[CHOOSE i \in open : \A j \in open : i <= j]
    IN  [state EXCEPT !.heap[page] = Append(@, bytes)]

\* Transaction::insert_row: the first page with room, or else a new page.
InsertRow(state, relation, bytes) ==
    LET open == PagesWithRoom(state, relation, bytes)
    IN  IF open # {}
        THEN [state EXCEPT !.heap[relation.pages[CHOOSE i \in open : \A j \in open : i <= j]]
                 = Append(@, bytes)]
        ELSE [state EXCEPT !.heap[state.catalog.nextPage] = Append(@, bytes),
                           !.catalog = WithHeapPage(@, relation.id)]

\* insert_row fails if the row is larger than a page, or if the catalog is full.
RowFits(state, relation, bytes) ==
    \/ PagesWithRoom(state, relation, bytes) # {}
    \/ /\ RowSize(bytes) <= PageCapacity
       /\ state.catalog.nextPage <= MaxPage
       /\ CatalogFits(WithHeapPage(state.catalog, relation.id))

\* The address of the row that InsertRow has added.
NewRow(before, after) ==
    CHOOSE r \in [page : 1..MaxPage, slot : 1..MaxRows] :
        r.slot = Len(after.heap[r.page]) /\ Len(before.heap[r.page]) < r.slot

\* The index entries that INSERT adds for a row, in catalog order.
EntriesFor(state, relation, row) ==
    LET indexes == IndexesOn(state.catalog, relation.id)
    IN  [i \in DOMAIN indexes |-> [index |-> indexes[i].id, row |-> row]]

\* INSERT: execute_insert up to its loop over the indexes.
Insert(relation, values) ==
    LET row == [i \in DOMAIN values |-> Coerced(relation.columns[i].type, values[i])]
        bytes == EncodeRow(row)
        staged == InsertRow(committed, relation, bytes)
    IN  /\ pc = "idle" /\ Cardinality(AllRows(committed)) < MaxRows
        /\ \A i \in DOMAIN values : Coercible(relation.columns[i].type, values[i])
        /\ RowFits(committed, relation, bytes)
        /\ work' = staged
        /\ todo' = EntriesFor(committed, relation, NewRow(committed, staged))
        /\ pc' = "entries"
        /\ UNCHANGED committed

\* The entries that CREATE INDEX adds: one for each row of full_scan.
Backfill(state, relation, id) ==
    LET rows == SetToSeq(FullScan(state, relation))
    IN  [i \in DOMAIN rows |-> [index |-> id, row |-> rows[i]]]

\* CREATE INDEX: execute_create_index up to its loop over the rows.
CreateIndex(name, relation, column) ==
    LET cat == committed.catalog
        id == cat.nextRelation
        index == [id |-> id, name |-> name, kind |-> "index", pages |-> << >>,
                  columns |-> <<[name |-> column, type |-> "INDEX_KEY"]>>,
                  table |-> relation.id, root |-> cat.nextPage, column |-> column]
    IN  /\ pc = "idle"
        /\ relation.columns[ColumnIndex(relation, column)].type \in {"INT", "TEXT"}
        /\ RelationsNamed(cat, name) = {}
        /\ \A i \in DOMAIN IndexesOn(cat, relation.id) :
             IndexesOn(cat, relation.id)[i].column # column
        /\ cat.nextPage <= MaxPage
        /\ CatalogFits(WithRelation(cat, index))
        /\ work' = [committed EXCEPT !.catalog = WithRelation(cat, index),
                                     !.index[id].pages = {cat.nextPage}]
        /\ todo' = Backfill(committed, relation, id)
        /\ pc' = "entries"
        /\ UNCHANGED committed

\* The value that the next entry of "todo" is about.
NextValue ==
    LET index == RelationById(work.catalog, Head(todo).index)
        table == RelationById(work.catalog, index.table)
    IN  RowAt(work, Head(todo).row)[ColumnIndex(table, index.column)]

\* set_index_root_page.
WithRoot(cat, id, page) ==
    [cat EXCEPT !.relations = [i \in DOMAIN @ |->
        IF @[i].id = id THEN [@[i] EXCEPT !.root = page] ELSE @[i]]]

\* insert_index_entry for the next index or row; the tree may allocate pages for its
\* splits, the last of which is a new root if the old one was split.  A value without a
\* key is passed over.
AddEntry ==
    /\ pc = "entries" /\ todo # << >>
    /\ LET i == Head(todo).index
           entry == [key |-> NextValue, row |-> Head(todo).row]
           page == work.catalog.nextPage
       IN  \/ /\ ~HasKey(NextValue)
              /\ UNCHANGED work
           \/ /\ HasKey(NextValue) /\ KeySize(NextValue) <= KeyCapacity
              /\ \E last \in (page - 1)..MaxPage :
                   \E cat \in IF page < last THEN {work.catalog, WithRoot(work.catalog, i, last)}
                                             ELSE {work.catalog} :
                     work' = [work EXCEPT !.index[i].entries = @ \cup {entry},
                                          !.index[i].pages = @ \cup (page..last),
                                          !.catalog = [cat EXCEPT !.nextPage = last + 1]]
    /\ todo' = Tail(todo)
    /\ UNCHANGED <<committed, pc>>

\* Mutant: the transaction of a failed statement is committed.
FailStatementCommitting ==
    /\ pc = "entries" /\ todo # << >>
    /\ committed' = work /\ pc' = "idle" /\ todo' = << >>
    /\ UNCHANGED work

\* insert_index_entry fails, on a key that no node can hold or on a page that cannot
\* be read: the statement returns the error, and the transaction is dropped with all
\* that it has staged.
FailStatement ==
    /\ pc = "entries" /\ todo # << >>
    /\ work' = committed /\ pc' = "idle" /\ todo' = << >>
    /\ UNCHANGED committed

\* Mutant: the page counter is not installed with the rest.
CommitStatementOldCounter ==
    /\ pc = "entries" /\ todo = << >>
    /\ committed' = [work EXCEPT !.catalog.nextPage = committed.catalog.nextPage]
    /\ work' = committed'
    /\ pc' = "idle"
    /\ UNCHANGED todo

\* The statement's transaction commits.
CommitStatement ==
    /\ pc = "entries" /\ todo = << >>
    /\ committed' = work
    /\ pc' = "idle"
    /\ UNCHANGED <<work, todo>>

\* register_extension_metadata: registering an extension again changes nothing, and is
\* an error if the metadata differ.
WithExtension(cat, extension) ==
    IF \E e \in Range(cat.extensions) : e.name = extension.name THEN cat
    ELSE [cat EXCEPT !.extensions = Append(@, extension)]

\* LOAD EXTENSION: execute_load_extension of a name that the build knows.
LoadExtension(name) ==
    LET extension == [name |-> name, abi |-> Builtin[name].abi, kind |-> Builtin[name].kind]
        cat == WithExtension(committed.catalog, extension)
    IN  /\ pc = "idle"
        /\ \A e \in Range(committed.catalog.extensions) : e.name = name => e = extension
        /\ CatalogFits(cat)
        /\ committed' = [committed EXCEPT !.catalog = cat]
        /\ work' = committed'
        /\ UNCHANGED <<pc, todo>>

\* The store is closed and opened again: the catalog is what decode_catalog makes of the
\* record that encode_catalog has put in page 0.
Reopen ==
    LET read == DecodeCatalog(EncodeCatalog(committed.catalog))
    IN  /\ pc = "idle"
        /\ read.ok
        /\ committed' = [committed EXCEPT !.catalog = read.catalog]
        /\ work' = committed'
        /\ UNCHANGED <<pc, todo>>

\* A SELECT, or a statement that a check before begin refuses: the guards above are
\* those checks, and the database is as it was.
NothingChanges ==
    /\ pc = "idle"
    /\ UNCHANGED vars

Rows(relation) == [DOMAIN relation.columns -> Literals]

Next ==
    \/ \E name \in Names, columns \in Schemas : CreateTable(name, columns)
    \/ \E relation \in Tables(committed.catalog) :
        \/ \E values \in Rows(relation) : Insert(relation, values)
        \/ \E name \in Names, i \in DOMAIN relation.columns :
             CreateIndex(name, relation, relation.columns[i].name)
    \/ \E name \in DOMAIN Builtin : LoadExtension(name)
    \/ AddEntry \/ FailStatement \/ CommitStatement \/ Reopen \/ NothingChanges

Spec == Init /\ [][Next]_vars

-----------------------------------------------------------------------------
(***************************************************************************)
(* SELECT ... WHERE column = literal.                                      *)
(***************************************************************************)

\* find_index_on_column, as a set.
IndexOnColumn(cat, relation, column) ==
    {r \in Range(IndexesOn(cat, relation.id)) : r.column = column}

\* candidate_rows: is the predicate answered by an index?
UsesIndex(cat, relation, column, literal) ==
    HasKey(literal) /\ IndexOnColumn(cat, relation, column) # {}

\* candidate_rows: the addresses an index lookup returns, or those of a full scan.
CandidateRows(state, relation, column, literal) ==
    IF UsesIndex(state.catalog, relation, column, literal)
    THEN LET index == CHOOSE r \in IndexOnColumn(state.catalog, relation, column) : TRUE
         IN  {e.row : e \in {f \in state.index[index.id].entries : f.key = literal}}
    ELSE FullScan(state, relation)

\* execute_select: the candidates whose value passes the predicate.
Selected(state, relation, column, literal) ==
    {r \in CandidateRows(state, relation, column, literal) :
        SqlEqual(RowAt(state, r)[ColumnIndex(relation, column)], literal)}

-----------------------------------------------------------------------------
(***************************************************************************)
(* Properties of what is committed.                                        *)
(***************************************************************************)

\* Every variable has a value of its kind, and every value of a row has the type of its
\* column, after the coercion that INSERT makes.
TypeOK ==
    /\ {committed.catalog, work.catalog} \subseteq Catalog
    /\ {committed.index, work.index} \subseteq Indexes
    /\ pc \in {"idle", "entries"}
    /\ todo \in Seq([index : 1..CatalogCapacity, row : RowId])
    /\ \A relation \in Tables(work.catalog) : \A r \in FullScan(work, relation) :
         \A i \in DOMAIN relation.columns :
           \/ RowAt(work, r)[i].type = "null"
           \/ <<relation.columns[i].type, RowAt(work, r)[i].type>> \in
                {<<"INT", "int">>, <<"TEXT", "text">>, <<"DOUBLE", "double">>}

Queries(relation) == {relation.columns[i].name : i \in DOMAIN relation.columns} \X Literals

\* Between two statements SELECT gives the same rows whether candidate_rows takes the
\* index or scans: after any inserts, a backfill of rows that were there first, several
\* indexes, NULLs, coerced numbers and statements that failed half-way.
IndexAgreesWithScan ==
    pc = "idle" => \A relation \in Tables(committed.catalog) : \A q \in Queries(relation) :
        Selected(committed, relation, q[1], q[2]) =
            {r \in FullScan(committed, relation) :
                SqlEqual(RowAt(committed, r)[ColumnIndex(relation, q[1])], q[2])}

\* read_row and decode_row never report an error for a row that a query visits: an
\* index entry names a row of its own table, and a row has its table's columns.
QueriesNeverFail ==
    \A relation \in Tables(committed.catalog) :
        /\ \A r \in FullScan(committed, relation) :
             /\ DecodeRow(committed.heap[r.page][r.slot]).ok
             /\ Len(RowAt(committed, r)) = Len(relation.columns)
        /\ \A i \in DOMAIN IndexesOn(committed.catalog, relation.id) :
             LET index == IndexesOn(committed.catalog, relation.id)[i]
             IN  \A e \in committed.index[index.id].entries :
                   e.row \in FullScan(committed, relation)

PagesOf(state, relation) ==
    IF relation.kind = "table" THEN Range(relation.pages) ELSE state.index[relation.id].pages

\* Heap pages and index pages come from one counter, staged with the rest: no page
\* ever belongs to two relations, and the counter is past all of them.
PagesOwnedOnce ==
    \A r, q \in Range(committed.catalog.relations) :
        /\ r # q => PagesOf(committed, r) \cap PagesOf(committed, q) = {}
        /\ r # q => r.id # q.id /\ r.name # q.name
        /\ \A p \in PagesOf(committed, r) : p < committed.catalog.nextPage

\* A committed row stays where its address says, unchanged, whatever comes later.
RowsKept ==
    [][ \A relation \in Tables(committed.catalog) : \A r \in FullScan(committed, relation) :
            \E now \in Tables(committed'.catalog) :
                /\ now.id = relation.id
                /\ r \in FullScan(committed', now)
                /\ RowAt(committed', r) = RowAt(committed, r) ]_vars

\* The catalog that decode_catalog reads is the one that encode_catalog wrote, with every
\* page list, root and extension; a catalog of the time before extensions is read as one
\* without; and a record that lacks its end is refused.
CatalogReadsBack ==
    LET cat == committed.catalog
        record == EncodeCatalog(cat)
    IN  pc = "idle" =>
            /\ DecodeCatalog(record) = [ok |-> TRUE, catalog |-> cat]
            /\ DecodeCatalog(EncodeRelations(cat)) =
                 [ok |-> TRUE, catalog |-> [cat EXCEPT !.extensions = << >>]]
            /\ ~DecodeCatalog(Append(record, Field("u8", 0))).ok
            /\ cat.extensions # << >> => ~DecodeCatalog(Front(record)).ok

Registry == RegistryFrom(committed.catalog.extensions)
Arguments == Literals \cup {[type |-> "int", n |-> MinInt]}

\* execute_select_function rebuilds the registry from the catalog for every call, and this
\* never fails: every function of an installed extension can be called, and no other; what
\* it returns has the type that the result column reports, and abs is not negative even
\* where the integers end.
FunctionsCallable ==
    LET installed == {e.name : e \in Range(committed.catalog.extensions)}
    IN  pc = "idle" =>
        /\ Registry.ok /\ Registry.extensions = installed
        /\ \A f \in DOMAIN StdlibFunctions : \A v \in Arguments :
             LET args == IF StdlibFunctions[f].arity = 0 THEN << >> ELSE <<v>>
                 result == CallScalar(Registry, f, args)
             IN  /\ result.ok => /\ "stdlib" \in installed
                                 /\ result.value.n >= 0
                                 /\ \/ result.value.type = "null"
                                    \/ <<ResultType(f, result.value), result.value.type>> \in
                                         {<<"INT", "int">>, <<"TEXT", "text">>, <<"DOUBLE", "double">>}
                 /\ "stdlib" \in installed /\ v.type = "null" => result.ok
                 /\ ~CallScalar(Registry, f, Append(args, v)).ok
====
