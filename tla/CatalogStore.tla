---------------------------- MODULE CatalogStore ----------------------------
(***************************************************************************)
(* CatalogStore of crates/rdbms_catalog used directly, without a           *)
(* transaction or a log: create_table and insert_row write a heap page and *)
(* then the catalog page, over the page file of PageFile, under I/O errors *)
(* and process exits between any two system calls.                         *)
(***************************************************************************)
EXTENDS PageFile, FiniteSets

CONSTANTS
    Names,            \* table names
    PageCapacity,     \* rows that fit in a heap page
    CatalogCapacity,  \* tables and heap pages that fit in the catalog page
    MaxPage,          \* the last page id (a new one after it is the page id overflow)
    MaxRows,          \* bound: rows inserted
    MaxSessions       \* bound: times the store is opened

ASSUME StoreAssumption ==
    /\ {PageCapacity, CatalogCapacity, MaxPage, MaxRows, MaxSessions} \subseteq Nat
    /\ PageCapacity > 0

VARIABLES
    catalog,   \* CatalogStore.catalog
    pc,        \* where the program is
    call,      \* the arguments and locals of the call in progress
    inserted,  \* the number of insert_row calls; row n is that of the n-th
    erred,     \* history: this handle has returned an error
    acked,     \* history: the rows whose insert_row has returned Ok
    mixed,     \* history: a handle that had erred has saved the catalog
    sessions

storeVars == <<catalog, pc, call, inserted, erred, acked, mixed, sessions>>
vars == <<fileVars, storeVars>>

Opening == {"bootstrap", "load"}
Calls == {"tablePage", "tryPage", "rowPage", "newPage", "save"}

EmptyCatalog == [nextPage |-> 1, tables |-> << >>]

\* Mutant: the page counter is not written with the catalog.
CatalogPageWithoutCounter(c) ==
    [id |-> 0, type |-> "catalog", catalog |-> [c EXCEPT !.nextPage = 1], rows |-> << >>]

\* Page images: the catalog as page 0, and a heap page.
CatalogPage(c) == [id |-> 0, type |-> "catalog", catalog |-> c, rows |-> << >>]
HeapPage(p, rows) == [id |-> p, type |-> "heap", catalog |-> EmptyCatalog, rows |-> rows]

\* "large" is a row that fits in no page.
NoCall == [table |-> "", row |-> 0, large |-> FALSE, page |-> 0, tried |-> 0]

Init ==
    /\ FileInit
    /\ catalog = EmptyCatalog
    /\ pc = "closed" /\ call = NoCall
    /\ inserted = 0 /\ erred = FALSE /\ acked = {} /\ mixed = FALSE /\ sessions = 0

-----------------------------------------------------------------------------
(***************************************************************************)
(* Opening and closing.                                                    *)
(***************************************************************************)

\* CatalogStore::open, load_or_bootstrap: write the empty catalog to an empty file,
\* read page 0 of another.  A file shorter than a page is refused at once.
Open ==
    /\ pc = "closed" /\ sessions < MaxSessions
    /\ sessions' = sessions + 1
    /\ \/ /\ file = << >>
          /\ catalog' = EmptyCatalog
          /\ StartWrite(CatalogPage(EmptyCatalog))
          /\ pc' = "bootstrap"
       \/ /\ Len(file) >= BlocksPerPage
          /\ StartRead(0)
          /\ pc' = "load"
          /\ UNCHANGED catalog
    /\ UNCHANGED <<file, faults, cut, call, inserted, erred, acked, mixed>>

Bootstrapped ==
    /\ pc = "bootstrap" /\ Written
    /\ pc' = "idle" /\ io' = NoIo
    /\ UNCHANGED <<file, faults, cut, catalog, call, inserted, erred, acked, mixed, sessions>>

\* Page 0 has been read: it must be a catalog page.
Loaded ==
    /\ pc = "load" /\ HasRead
    /\ IF PageRead # Damaged /\ PageRead.type = "catalog"
       THEN catalog' = PageRead.catalog /\ pc' = "idle"
       ELSE catalog' = EmptyCatalog /\ pc' = "closed"
    /\ io' = NoIo
    /\ UNCHANGED <<file, faults, cut, call, inserted, erred, acked, mixed, sessions>>

OpenFails ==
    /\ pc \in Opening /\ io.op = "failed"
    /\ pc' = "closed" /\ io' = NoIo /\ catalog' = EmptyCatalog
    /\ UNCHANGED <<file, faults, cut, call, inserted, erred, acked, mixed, sessions>>

\* The process ends, between two calls or in the middle of a write.
Exit ==
    /\ pc # "closed"
    /\ pc' = "closed" /\ io' = NoIo /\ call' = NoCall
    /\ catalog' = EmptyCatalog /\ erred' = FALSE
    /\ cut' = cut \cup HalfWritten
    /\ UNCHANGED <<file, faults, inserted, acked, mixed, sessions>>

-----------------------------------------------------------------------------
(***************************************************************************)
(* The calls.                                                              *)
(***************************************************************************)

\* A call returns Ok, or an error.
Return ==
    /\ pc' = "idle" /\ io' = NoIo /\ call' = NoCall
    /\ UNCHANGED erred
Fail ==
    /\ pc' = "idle" /\ io' = NoIo /\ call' = NoCall
    /\ erred' = TRUE

\* The tables of a catalog, and its entry for one.
TableNames(c) == {c.tables[i].name : i \in DOMAIN c.tables}
TableOf(c, name) == CHOOSE t \in Range(c.tables) : t.name = name

\* Does the encoded catalog fit in page 0 (to_page)?
CatalogFits(c) ==
    Len(c.tables) + FoldLeft(LAMBDA n, t : n + Len(t.pages), 0, c.tables) <= CatalogCapacity

\* save: build the page, which fails if it is too large, and write it.
StartSave(c) ==
    \/ /\ CatalogFits(c)
       /\ StartWrite(CatalogPage(c))
       /\ pc' = "save"
       /\ mixed' = (mixed \/ erred)
       /\ UNCHANGED <<call, erred>>
    \/ /\ ~CatalogFits(c)
       /\ Fail
       /\ UNCHANGED mixed

\* Mutant: the catalog is saved before the table's page is written.
CreateTableCatalogFirst(name) ==
    /\ pc = "idle" /\ name \notin TableNames(catalog) /\ catalog.nextPage <= MaxPage
    /\ catalog' = [nextPage |-> catalog.nextPage + 1,
                   tables |-> Append(catalog.tables,
                                     [name |-> name, pages |-> <<catalog.nextPage>>])]
    /\ StartSave(catalog')
    /\ UNCHANGED <<file, faults, cut, inserted, acked, sessions>>

\* Mutant: the page id overflow is not noticed.
CreateTableUnchecked(name) ==
    /\ pc = "idle" /\ name \notin TableNames(catalog)
    /\ catalog' = [nextPage |-> catalog.nextPage + 1,
                   tables |-> Append(catalog.tables,
                                     [name |-> name, pages |-> <<catalog.nextPage>>])]
    /\ StartWrite(HeapPage(catalog.nextPage, << >>))
    /\ pc' = "tablePage"
    /\ UNCHANGED <<file, faults, cut, call, inserted, erred, acked, mixed, sessions>>

\* create_table: create_table_metadata changes the catalog in memory, then the first
\* heap page is written ...
CreateTable(name) ==
    /\ pc = "idle" /\ name \notin TableNames(catalog) /\ catalog.nextPage <= MaxPage
    /\ catalog' = [nextPage |-> catalog.nextPage + 1,
                   tables |-> Append(catalog.tables,
                                     [name |-> name, pages |-> <<catalog.nextPage>>])]
    /\ StartWrite(HeapPage(catalog.nextPage, << >>))
    /\ pc' = "tablePage"
    /\ UNCHANGED <<file, faults, cut, call, inserted, erred, acked, mixed, sessions>>

\* ... and then the catalog.
TablePageWritten ==
    /\ pc = "tablePage" /\ Written
    /\ StartSave(catalog)
    /\ UNCHANGED <<file, faults, cut, catalog, inserted, acked, sessions>>

\* insert_row: look for room in the pages of the table, from the first.
InsertRow(name, large) ==
    /\ pc = "idle" /\ name \in TableNames(catalog) /\ inserted < MaxRows
    /\ inserted' = inserted + 1
    /\ call' = [table |-> name, row |-> inserted + 1, large |-> large, page |-> 0, tried |-> 1]
    /\ StartRead(TableOf(catalog, name).pages[1])
    /\ pc' = "tryPage"
    /\ UNCHANGED <<file, faults, cut, catalog, erred, acked, mixed, sessions>>

\* Does the row go into the page that was read?
HasRoom(page) == ~call.large /\ Len(page.rows) < PageCapacity

\* A page of the table has been read.  If it has room the row goes there; if it has
\* none the next page is read.
TryPage ==
    /\ pc = "tryPage" /\ HasRead
    /\ LET pages == TableOf(catalog, call.table).pages
       IN  \/ /\ PageRead = Damaged
              /\ Fail
           \/ /\ PageRead # Damaged /\ HasRoom(PageRead)
              /\ StartWrite(HeapPage(PageRead.id, Append(PageRead.rows, call.row)))
              /\ pc' = "rowPage"
              /\ call' = [call EXCEPT !.page = PageRead.id]
              /\ UNCHANGED erred
           \/ /\ PageRead # Damaged /\ ~HasRoom(PageRead) /\ call.tried < Len(pages)
              /\ StartRead(pages[call.tried + 1])
              /\ call' = [call EXCEPT !.tried = @ + 1]
              /\ UNCHANGED <<pc, erred>>
    /\ UNCHANGED <<file, faults, cut, catalog, inserted, acked, mixed, sessions>>

\* No page has room: a page id is taken, if there is one left, and the row goes to the
\* new page; one that is larger than a page fails there, and the id stays taken.
TakePage ==
    /\ pc = "tryPage" /\ HasRead /\ PageRead # Damaged /\ ~HasRoom(PageRead)
    /\ call.tried = Len(TableOf(catalog, call.table).pages)
    /\ \/ /\ catalog.nextPage <= MaxPage
          /\ catalog' = [catalog EXCEPT !.nextPage = @ + 1]
          /\ \/ call.large /\ Fail
             \/ /\ ~call.large
                /\ StartWrite(HeapPage(catalog.nextPage, <<call.row>>))
                /\ pc' = "newPage"
                /\ call' = [call EXCEPT !.page = catalog.nextPage]
                /\ UNCHANGED erred
       \/ /\ catalog.nextPage > MaxPage
          /\ Fail
          /\ UNCHANGED catalog
    /\ UNCHANGED <<file, faults, cut, inserted, acked, mixed, sessions>>

\* insert_row returns the address of the row.
Acknowledge ==
    acked' = acked \cup {[table |-> call.table, row |-> call.row, page |-> call.page,
                          clean |-> ~erred]}

RowPageWritten ==
    /\ pc = "rowPage" /\ Written
    /\ Acknowledge
    /\ Return
    /\ UNCHANGED <<file, faults, cut, catalog, inserted, mixed, sessions>>

\* Mutant: the catalog is left for a later call to save.
NewPageWrittenUnsaved ==
    /\ pc = "newPage" /\ Written
    /\ catalog' = [catalog EXCEPT !.tables = [i \in DOMAIN @ |->
                     IF @[i].name = call.table
                     THEN [name |-> call.table, pages |-> Append(@[i].pages, call.page)]
                     ELSE @[i]]]
    /\ Acknowledge
    /\ Return
    /\ UNCHANGED <<file, faults, cut, inserted, mixed, sessions>>

\* The new page is written: append_heap_page, and save.
NewPageWritten ==
    /\ pc = "newPage" /\ Written
    /\ catalog' = [catalog EXCEPT !.tables = [i \in DOMAIN @ |->
                     IF @[i].name = call.table
                     THEN [name |-> call.table, pages |-> Append(@[i].pages, call.page)]
                     ELSE @[i]]]
    /\ StartSave(catalog')
    /\ UNCHANGED <<file, faults, cut, inserted, acked, sessions>>

\* The catalog is saved: create_table or insert_row returns.
Saved ==
    /\ pc = "save" /\ Written
    /\ IF call.row # 0 THEN Acknowledge ELSE UNCHANGED acked
    /\ Return
    /\ UNCHANGED <<file, faults, cut, catalog, inserted, mixed, sessions>>

\* A read or a write fails: the call returns the error, with the catalog in memory as
\* the call has left it.
CallFails ==
    /\ pc \in Calls /\ io.op = "failed"
    /\ Fail
    /\ UNCHANGED <<file, faults, cut, catalog, inserted, acked, mixed, sessions>>

-----------------------------------------------------------------------------
\* What the program does inside a call.
Step ==
    \/ IoStep /\ UNCHANGED storeVars
    \/ Bootstrapped \/ Loaded \/ OpenFails
    \/ TablePageWritten \/ TryPage \/ TakePage \/ RowPageWritten \/ NewPageWritten \/ Saved \/ CallFails

Next ==
    \/ Step
    \/ Open \/ Exit
    \/ \E name \in Names : CreateTable(name) \/ \E large \in BOOLEAN : InsertRow(name, large)
    \/ IoFails /\ UNCHANGED storeVars

\* A thread inside a call keeps running, and a system call that is interrupted by a
\* signal is not interrupted for ever.
Spec == Init /\ [][Next]_vars /\ WF_vars(Step)

-----------------------------------------------------------------------------
(***************************************************************************)
(* Properties.                                                             *)
(***************************************************************************)

\* Every variable has a value of its kind.
TypeOK ==
    /\ io.op \in {"none", "read", "write", "failed"} /\ io.done \in 0..BlocksPerPage
    /\ faults \in 0..MaxFaults /\ cut \subseteq 0..MaxPage
    /\ pc \in {"closed", "idle"} \cup Opening \cup Calls
    /\ catalog.nextPage \in 1..(MaxPage + 1)
    /\ inserted \in 0..MaxRows /\ sessions \in 0..MaxSessions
    /\ acked \subseteq [table : Names, row : 1..MaxRows, page : 1..MaxPage, clean : BOOLEAN]
    /\ {erred, mixed} \subseteq BOOLEAN

\* A page as read_page would return it, if every read succeeded.
PageIn(f, p) ==
    IF Len(f) < PageOffset(p) + BlocksPerPage THEN Damaged
    ELSE LET page == FromBlocks(SubSeq(f, PageOffset(p) + 1, PageOffset(p) + BlocksPerPage))
         IN  IF page = Damaged \/ page.id # p THEN Damaged ELSE page
OnFile(p) == PageIn(file, p)

\* The pages of a table, as the store lists them when it is opened again.
ListedPages(name) ==
    LET c == OnFile(0).catalog
    IN  IF OnFile(0) = Damaged \/ name \notin TableNames(c) THEN {}
        ELSE Range(TableOf(c, name).pages)

\* full_scan of a table after the store is opened again: the rows of its listed pages,
\* and none of them if one of the pages cannot be read or is not a heap page.
FoundAfterReopen(name) ==
    IF \E p \in ListedPages(name) : OnFile(p) = Damaged \/ OnFile(p).type # "heap" THEN {}
    ELSE UNION {Range(OnFile(p).rows) : p \in ListedPages(name)}

\* A row that insert_row has acknowledged is found again after the process ends, however
\* the writes were split up, and also when another handle has gone on after an error and
\* has saved a catalog that lists a page nobody wrote: unless a write of the catalog or
\* of a page of the row's table was cut short (there is no log to mend that, and full_scan
\* fails as a whole), or the row's own handle had returned an error before, for then the
\* catalog in memory may list pages that the one on file does not.
AckedRowsFound ==
    pc \in {"idle", "closed"} =>
        \A a \in acked : a.clean /\ cut \cap ({0} \cup ListedPages(a.table)) = {} =>
            a.row \in FoundAfterReopen(a.table)

\* The catalog on file never runs ahead of the pages it lists: whenever the process ends,
\* each of them is a heap page, or one whose last write was cut short.
ListedPagesWritten ==
    ~mixed /\ OnFile(0) # Damaged =>
      \A t \in Range(OnFile(0).catalog.tables) : \A p \in Range(t.pages) :
          \/ OnFile(p) # Damaged /\ OnFile(p).type = "heap"
          \/ p \in cut \/ HalfWritten = {p}

\* No page is given to two tables, on any handle and after any errors: what is taken in
\* memory stays taken, and what is on file is never taken again.
PagesTakenOnce ==
    \A c \in {catalog} \cup (IF OnFile(0) = Damaged THEN {} ELSE {OnFile(0).catalog}) :
        \A i, j \in DOMAIN c.tables :
            /\ i # j => Range(c.tables[i].pages) \cap Range(c.tables[j].pages) = {}
            /\ \A p \in Range(c.tables[i].pages) : p < c.nextPage

\* A database whose catalog page was never cut short can be opened: load_or_bootstrap does
\* not find the file too short, nor page 0 damaged or of another type.
OpensUnlessCut ==
    /\ pc = "load" /\ HasRead /\ 0 \notin cut => PageRead # Damaged /\ PageRead.type = "catalog"
    /\ pc = "closed" /\ file # << >> /\ 0 \notin cut => Len(file) >= BlocksPerPage

\* Every call returns or the process ends.
StoreCallsReturn == pc \in Opening \cup Calls ~> pc \in {"idle", "closed"}
=============================================================================
