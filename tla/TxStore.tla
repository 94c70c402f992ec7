------------------------------ MODULE TxStore ------------------------------
(***************************************************************************)
(* One database: a data file of pages and a log file, the transactional    *)
(* store that writes them (crates/rdbms_tx over rdbms_catalog, rdbms_wal   *)
(* and rdbms_vfs), and the recovery pass that repairs the data file        *)
(* (crates/rdbms_recovery), under I/O errors, process exits and power      *)
(* losses between any two file operations.                                 *)
(*                                                                         *)
(* A page image is abstracted to the set of transactions whose changes it  *)
(* contains, so that a lost update, a half-applied transaction and a       *)
(* change that was never committed are all visible in it.  The catalog     *)
(* page also keeps next_page_id: the heap and index pages it knows are     *)
(* 1 .. next - 1.  Transactions are numbered 1, 2, ... in the order they   *)
(* begin (the index in "hist"); that number is not the TxId, which         *)
(* starts again at 1 each time a store is opened.                          *)
(***************************************************************************)
EXTENDS Wal, FiniteSets

CONSTANTS
    MaxPage,          \* pages 0 .. MaxPage of the data file, page 0 the catalog
    CatalogCapacity,  \* the largest next_page_id whose catalog fits in page 0
    MaxTx,            \* bound: transactions that begin
    MaxSessions,      \* bound: times a TransactionalStore is opened
    MaxCrashes,       \* bound: power losses
    MaxFaults,        \* bound: I/O errors returned by write_all_at or sync_data
    UseAfterError,    \* may a caller go on with a transaction or a handle that returned an error?
    RecoverFirst,     \* does a caller run open_database before it opens a store?
    RecoverCachedLog  \* may recovery read log bytes that only the OS cache holds?

Pages == 0..MaxPage
TxNumbers == 1..MaxTx

\* A page image; "next" is 0 in every page but the catalog.
Image == [next : 0..(MaxPage + 1), txs : SUBSET TxNumbers]

ASSUME BoundsAssumption ==
    /\ MaxPage \in Nat
    /\ CatalogCapacity \in Nat
    /\ {MaxTx, MaxSessions, MaxCrashes, MaxFaults} \subseteq Nat
    /\ {UseAfterError, RecoverFirst, RecoverCachedLog} \subseteq BOOLEAN

ASSUME ImagesDiffer == Blank \notin Image /\ Torn \notin Image /\ Blank # Torn

\* Catalog::empty, the catalog that load_or_bootstrap writes to an empty file.
EmptyCatalog == [next |-> 1, txs |-> {}]

NothingDirty == [p \in Pages |-> Blank]

VARIABLES
    wal,          \* the log file, as a reader of it sees it
    walDurable,   \* the length of the prefix that survives a power loss
    nextLsn,      \* LsnAllocator.next of the open store
    data,         \* the data file, as a reader of it sees it
    survive,      \* for each page, what a power loss may leave of it
    phase,        \* where the program is
    catalog,      \* CatalogStore.catalog
    nextTx,       \* TransactionalStore.next_tx_id
    activeWriter, \* TransactionalStore.active_writer
    work,         \* Transaction.working_catalog
    dirty,        \* Transaction.dirty_pages, Blank for a page not in the map
    todo,         \* dirty pages the current loop of commit has still to write
    spoiled,      \* history: a staging call of this transaction has returned an error
    redoPos,      \* the record the redo pass looks at next
    erred,        \* history: this handle has returned an I/O error, or has been made to
                  \* commit a spoiled transaction
    hist,         \* history: the transactions begun, their id, outcome and pages
    sessions, crashes, faults

logVars == <<wal, walDurable, nextLsn>>
dataVars == <<data, survive>>
storeVars == <<catalog, nextTx, activeWriter>>
txVars == <<work, dirty, todo, spoiled>>
bounds == <<sessions, crashes, faults>>
vars == <<logVars, dataVars, storeVars, txVars, phase, redoPos, erred, hist, bounds>>

\* "logged": the log sync of its commit succeeded, and commit has not returned Ok.
Outcomes == {"active", "logged", "acked", "failed", "rolledback", "dropped"}
Closed == {"closed", "refused"}
Committing == {"images", "walSync", "write"}
InTx == {"active", "abortSync"} \cup Committing
Phases == Closed \cup {"redo", "recovered", "idle"} \cup InTx

LogRecord == [kind : RecordKinds \cup {"garbage"}, tx : Nat, page : Pages,
              image : Image \cup {Blank}, by : Nat]
PageValue == Image \cup {Blank, Torn}
HistEntry == [id : Nat, outcome : Outcomes, pages : SUBSET Pages]

\* Every variable has a value of its kind; in particular the allocator is always
\* past the end of the log, so that no append overwrites a record.
TypeOK ==
    /\ wal \in Seq(LogRecord)
    /\ walDurable \in 0..Len(wal)
    /\ nextLsn \in Nat /\ nextLsn > Len(wal)
    /\ data \in [Pages -> PageValue]
    /\ survive \in [Pages -> SUBSET PageValue]
    /\ phase \in Phases
    /\ catalog \in Image /\ work \in Image
    /\ nextTx \in Nat \ {0}
    /\ activeWriter \in BOOLEAN /\ erred \in BOOLEAN /\ spoiled \in BOOLEAN
    /\ dirty \in [Pages -> Image \cup {Blank}]
    /\ todo \subseteq Pages
    /\ redoPos \in 1..(Len(wal) + 1)
    /\ hist \in Seq(HistEntry)
    /\ Len(hist) <= MaxTx
    /\ sessions \in 0..MaxSessions
    /\ crashes \in 0..MaxCrashes
    /\ faults \in 0..MaxFaults

Init ==
    /\ wal = << >> /\ walDurable = 0 /\ nextLsn = 1
    /\ data = [p \in Pages |-> Blank]
    /\ survive = [p \in Pages |-> {Blank}]
    /\ phase = "closed"
    /\ catalog = EmptyCatalog /\ nextTx = 1 /\ activeWriter = FALSE
    /\ work = EmptyCatalog /\ dirty = NothingDirty /\ todo = {} /\ spoiled = FALSE
    /\ redoPos = 1
    /\ erred = FALSE
    /\ hist = << >>
    /\ sessions = 0 /\ crashes = 0 /\ faults = 0

-----------------------------------------------------------------------------
(***************************************************************************)
(* The two files.                                                          *)
(***************************************************************************)

\* A page that read_page returns: neither missing nor failing validation.
Valid(image) == image \in Image

DirtyPages == {p \in Pages : dirty[p] # Blank}

\* The transaction in progress: its number and its id.
Current == Len(hist)
TxId == hist[Current].id

\* The entry of the current transaction with another outcome.
WithOutcome(o) ==
    [hist EXCEPT ![Current] = [id |-> TxId, outcome |-> o, pages |-> hist[Current].pages]]

\* BTreeMap iteration order.
Least(S) == CHOOSE p \in S : \A q \in S : p <= q

\* Mutant: the allocator does not advance.
AppendWithoutAllocating(rec) ==
    /\ wal' = WriteAt(wal, nextLsn, rec)
    /\ UNCHANGED <<walDurable, nextLsn>>

\* WalWriter::append whose write succeeds.
Append_(rec) ==
    /\ wal' = WriteAt(wal, nextLsn, rec)
    /\ nextLsn' = nextLsn + 1
    /\ UNCHANGED walDurable

\* WalWriter::append whose write fails: the allocator has moved on, and the file
\* holds nothing of the record or a part of it.
AppendFails ==
    /\ faults < MaxFaults
    /\ faults' = faults + 1
    /\ wal' \in {wal, WriteAt(wal, nextLsn, Garbage)}
    /\ nextLsn' = nextLsn + 1
    /\ UNCHANGED <<walDurable, sessions, crashes>>

\* PageFile::write_page.  Until the next sync_data a power loss may leave the
\* page as it was, as it is now, or torn.
WritePageTo(p, image) ==
    /\ data' = [data EXCEPT ![p] = image]
    /\ survive' = [survive EXCEPT ![p] = @ \cup {image, Torn}]

\* PageFile::write_page that fails after writing nothing or a part of the page.
WritePageFails(p) ==
    /\ faults < MaxFaults
    /\ faults' = faults + 1
    /\ data' \in {data, [data EXCEPT ![p] = Torn]}
    /\ survive' = [survive EXCEPT ![p] = @ \cup {Torn}]
    /\ UNCHANGED <<sessions, crashes>>

\* sync_data on the data file.
SyncData ==
    /\ survive' = [p \in Pages |-> {data[p]}]
    /\ UNCHANGED data

\* sync_data that fails: nothing more is known to be durable.
SyncFails ==
    /\ faults < MaxFaults
    /\ faults' = faults + 1
    /\ UNCHANGED <<sessions, crashes>>

-----------------------------------------------------------------------------
(***************************************************************************)
(* Opening and leaving the store.                                          *)
(***************************************************************************)

\* What is in memory is gone; a transaction in progress never reports its outcome.
ForgetMemory ==
    /\ catalog' = EmptyCatalog /\ nextTx' = 1 /\ activeWriter' = FALSE
    /\ work' = EmptyCatalog /\ dirty' = NothingDirty /\ todo' = {} /\ spoiled' = FALSE
    /\ redoPos' = 1
    /\ erred' = FALSE
    /\ hist' = IF phase \in InTx \ {"write"}
               THEN WithOutcome("failed") ELSE hist

\* A caller may open the store: nothing else has the files open, or it goes on
\* from the page file that open_database returned.
MayOpenStore ==
    /\ phase \in Closed \cup {"recovered"}
    /\ RecoverFirst => phase \in {"recovered", "refused"}
    /\ sessions < MaxSessions

\* The part of opening that does not depend on the catalog: WalWriter::new starts
\* at the end of the log file, and TransactionalStore::new starts the ids again.
\* Opening the store does not recover it.
StartSession ==
    /\ MayOpenStore
    /\ phase' = "idle"
    /\ sessions' = sessions + 1
    /\ nextLsn' = Len(wal) + 1
    /\ nextTx' = 1 /\ activeWriter' = FALSE
    /\ UNCHANGED <<wal, walDurable, txVars, redoPos, erred, hist, crashes, faults>>

\* open_transactional_store on a file that has a catalog page.  A page 0 that
\* does not validate makes the call fail and leaves everything as it was.
OpenStore ==
    /\ StartSession
    /\ Valid(data[0])
    /\ catalog' = data[0]
    /\ UNCHANGED dataVars

\* open_transactional_store on an empty file: the empty catalog is written, and
\* not synced.
BootstrapStore ==
    /\ StartSession
    /\ data = [p \in Pages |-> Blank]
    /\ WritePageTo(0, EmptyCatalog)
    /\ catalog' = EmptyCatalog

\* The bootstrap write fails, and with it the call.
BootstrapFails ==
    /\ MayOpenStore
    /\ data = [p \in Pages |-> Blank]
    /\ WritePageFails(0)
    /\ phase' = "closed"
    /\ UNCHANGED <<logVars, storeVars, txVars, redoPos, erred, hist>>

\* The process ends, between any two file operations or after its last call.
\* The operating system still holds every byte it wrote.
Exit ==
    /\ phase \notin Closed
    /\ phase' = "closed"
    /\ ForgetMemory
    /\ nextLsn' = Len(wal) + 1
    /\ UNCHANGED <<wal, walDurable, dataVars, bounds>>

\* The operating system writes the log back on its own account.
Writeback ==
    /\ walDurable < Len(wal)
    /\ walDurable' = Len(wal)
    /\ UNCHANGED <<wal, nextLsn, dataVars, storeVars, txVars, phase, redoPos, erred, hist, bounds>>

\* What a power loss may leave of the log: the durable prefix, any part of what
\* follows it, and perhaps a record that was only partly stored.
SurvivingLogs ==
    {SubSeq(wal, 1, k) : k \in walDurable..Len(wal)}
        \cup {Append(SubSeq(wal, 1, k), Garbage) : k \in walDurable..(Len(wal) - 1)}

\* The machine loses power, in any phase.
PowerLoss ==
    /\ crashes < MaxCrashes
    /\ crashes' = crashes + 1
    /\ wal' \in SurvivingLogs
    /\ walDurable' = Len(wal')
    /\ nextLsn' = Len(wal') + 1
    /\ data' \in [Pages -> UNION {survive[p] : p \in Pages}]
    /\ \A p \in Pages : data'[p] \in survive[p]
    /\ survive' = [p \in Pages |-> {data'[p]}]
    /\ phase' = "closed"
    /\ ForgetMemory
    /\ UNCHANGED <<sessions, faults>>

-----------------------------------------------------------------------------
(***************************************************************************)
(* open_database: scan the log, replay it, sync the data file.             *)
(***************************************************************************)

\* WalReader::read_all over the whole log.  A damaged log ends the call.
OpenDatabase ==
    /\ phase \in Closed
    /\ RecoverCachedLog \/ walDurable = Len(wal)
    /\ phase' = IF ReadAllOk(wal) THEN "redo" ELSE "refused"
    /\ redoPos' = 1
    /\ UNCHANGED <<logVars, dataVars, storeVars, txVars, erred, hist, bounds>>

\* Mutant: a page that validates is taken to be up to date.
RedoRecordSkippingValid ==
    /\ phase = "redo"
    /\ redoPos <= Len(wal)
    /\ IF Redone(wal, redoPos) /\ ~Valid(data[wal[redoPos].page])
       THEN WritePageTo(wal[redoPos].page, wal[redoPos].image)
       ELSE UNCHANGED dataVars
    /\ redoPos' = redoPos + 1
    /\ UNCHANGED <<logVars, storeVars, txVars, phase, erred, hist, bounds>>

\* Mutant: the loop does not move past a record it does not replay.
RedoRecordStuck ==
    /\ phase = "redo"
    /\ redoPos <= Len(wal)
    /\ Redone(wal, redoPos)
    /\ WritePageTo(wal[redoPos].page, wal[redoPos].image)
    /\ redoPos' = redoPos + 1
    /\ UNCHANGED <<logVars, storeVars, txVars, phase, erred, hist, bounds>>

\* One turn of the redo loop: write the image of a committed record, pass over
\* any other.
RedoRecord ==
    /\ phase = "redo"
    /\ redoPos <= Len(wal)
    /\ IF Redone(wal, redoPos)
       THEN WritePageTo(wal[redoPos].page, wal[redoPos].image)
       ELSE UNCHANGED dataVars
    /\ redoPos' = redoPos + 1
    /\ UNCHANGED <<logVars, storeVars, txVars, phase, erred, hist, bounds>>

\* Every record replayed and the data file synced: open_database returns.
RedoDone ==
    /\ phase = "redo"
    /\ redoPos > Len(wal)
    /\ SyncData
    /\ phase' = "recovered"
    /\ redoPos' = 1
    /\ UNCHANGED <<logVars, storeVars, txVars, erred, hist, bounds>>

\* A page write or the final sync fails: open_database returns the error.
RedoFails ==
    /\ phase = "redo"
    /\ \/ /\ redoPos <= Len(wal) /\ Redone(wal, redoPos)
          /\ WritePageFails(wal[redoPos].page)
       \/ /\ redoPos > Len(wal)
          /\ SyncFails
          /\ UNCHANGED dataVars
    /\ phase' = "closed"
    /\ redoPos' = 1
    /\ UNCHANGED <<logVars, storeVars, txVars, erred, hist>>

-----------------------------------------------------------------------------
(***************************************************************************)
(* A write transaction: begin and staging.                                 *)
(***************************************************************************)

\* The conditions of TransactionalStore::begin, and its allocate_tx_id.
BeginAllowed ==
    /\ phase = "idle"
    /\ ~activeWriter
    /\ erred => UseAfterError
    /\ Len(hist) < MaxTx
    /\ nextTx' = nextTx + 1

\* TransactionalStore::begin.  The BeginTx record is not synced.
Begin ==
    /\ BeginAllowed
    /\ activeWriter' = TRUE
    /\ Append_(BeginTx(nextTx, Len(hist) + 1))
    /\ work' = catalog /\ dirty' = NothingDirty /\ todo' = {} /\ spoiled' = FALSE
    /\ hist' = Append(hist, [id |-> nextTx, outcome |-> "active", pages |-> {}])
    /\ phase' = "active"
    /\ UNCHANGED <<dataVars, catalog, redoPos, erred, bounds>>

\* The BeginTx record cannot be written: the flag is cleared, the id is spent.
BeginFails ==
    /\ BeginAllowed
    /\ AppendFails
    /\ activeWriter' = FALSE
    /\ erred' = TRUE
    /\ UNCHANGED <<dataVars, catalog, txVars, phase, redoPos, hist>>

\* Transaction::load_page: the staged version if there is one.
LoadPage(p) == IF dirty[p] # Blank THEN dirty[p] ELSE data[p]

\* A change of this transaction to an image.
Touch(image) == [image EXCEPT !.txs = @ \cup {Current}]

\* Catalog::allocate_page_id: the working catalog with page id next handed out.
NextPageTaken == [next |-> work.next + 1, txs |-> work.txs \cup {Current}]

\* A page that this transaction starts.
NewPage == [next |-> 0, txs |-> {Current}]

\* A live transaction takes any call, also after one of its calls has failed:
\* whether the caller goes on then is the caller's choice.
MayUseTx == phase = "active" /\ (spoiled => UseAfterError)

\* mark_catalog_dirty after the working catalog has become c: to_page fails when
\* the record is too large for page 0, and leaves the staged page as it was.
MarkCatalogDirty(c, staged) ==
    /\ work' = c
    /\ dirty' = IF c.next <= CatalogCapacity THEN [staged EXCEPT ![0] = c] ELSE staged
    /\ spoiled' = (spoiled \/ c.next > CatalogCapacity)

\* Transaction::insert_row, into a page of the table that has room for it.
InsertRow(p) ==
    /\ MayUseTx
    /\ p \in 1..(work.next - 1)
    /\ Valid(LoadPage(p))
    /\ dirty' = [dirty EXCEPT ![p] = Touch(LoadPage(p))]
    /\ UNCHANGED <<logVars, dataVars, storeVars, work, todo, spoiled, phase, redoPos, erred, hist, bounds>>

\* Transaction::insert_row of a row that is larger than an empty page, into a table
\* that owns page p: the page id has been taken when insert_record fails.
InsertRowFails(p) ==
    /\ MayUseTx
    /\ p \in 1..(work.next - 1)
    /\ Valid(LoadPage(p))
    /\ work.next <= MaxPage
    /\ work' = NextPageTaken
    /\ spoiled' = TRUE
    /\ UNCHANGED <<logVars, dataVars, storeVars, dirty, todo, phase, redoPos, erred, hist, bounds>>

\* Transaction::insert_index_entry without a split: an index page changes and
\* the catalog page is staged again.
InsertIndexEntry(p) ==
    /\ MayUseTx
    /\ p \in 1..(work.next - 1)
    /\ Valid(LoadPage(p))
    /\ MarkCatalogDirty(Touch(work), [dirty EXCEPT ![p] = Touch(LoadPage(p))])
    /\ UNCHANGED <<logVars, dataVars, storeVars, todo, phase, redoPos, erred, hist, bounds>>

\* Transaction::insert_index_entry that fails in the split of page p: the id of the
\* right half has been taken, neither half, the left or both have been staged, and
\* the catalog has not.  A failure higher up in the tree is several of these in a row.
InsertIndexEntryFails(p) ==
    /\ MayUseTx
    /\ p \in 1..(work.next - 1)
    /\ Valid(LoadPage(p))
    /\ work.next <= MaxPage
    /\ work' = NextPageTaken
    /\ LET left == [dirty EXCEPT ![p] = Touch(LoadPage(p))]
       IN  dirty' \in {dirty, left, [left EXCEPT ![work.next] = NewPage]}
    /\ spoiled' = TRUE
    /\ UNCHANGED <<logVars, dataVars, storeVars, todo, phase, redoPos, erred, hist, bounds>>

\* Transaction::register_extension of a new extension.
RegisterExtension ==
    /\ MayUseTx
    /\ MarkCatalogDirty(Touch(work), dirty)
    /\ UNCHANGED <<logVars, dataVars, storeVars, todo, phase, redoPos, erred, hist, bounds>>

\* Transaction::create_table, create_index, and insert_row when no page has
\* room: a page is allocated from the working catalog and starts empty.
AllocatePage ==
    /\ MayUseTx
    /\ work.next <= MaxPage
    /\ MarkCatalogDirty(NextPageTaken, [dirty EXCEPT ![work.next] = NewPage])
    /\ UNCHANGED <<logVars, dataVars, storeVars, todo, phase, redoPos, erred, hist, bounds>>

-----------------------------------------------------------------------------
(***************************************************************************)
(* A write transaction: commit, rollback, drop.                            *)
(***************************************************************************)

\* The Transaction value is gone and Drop, or the call itself, has released the
\* writer.
EndTx(outcome) ==
    /\ phase' = "idle"
    /\ activeWriter' = FALSE
    /\ work' = EmptyCatalog /\ dirty' = NothingDirty /\ todo' = {} /\ spoiled' = FALSE
    /\ hist' = WithOutcome(outcome)

\* Transaction::commit starts: its first loop is over the dirty pages.
Commit ==
    /\ MayUseTx
    /\ phase' = "images"
    /\ todo' = DirtyPages
    /\ hist' = [hist EXCEPT ![Current] =
                   [id |-> TxId, outcome |-> "active", pages |-> DirtyPages]]
    /\ erred' = (erred \/ spoiled)
    /\ UNCHANGED <<logVars, dataVars, storeVars, work, dirty, spoiled, redoPos, bounds>>

\* One turn of the first loop: append the image of the next dirty page.
AppendImage ==
    /\ phase = "images" /\ todo # {}
    /\ LET p == Least(todo)
       IN  /\ Append_(PageImage(TxId, p, dirty[p], Current))
           /\ todo' = todo \ {p}
    /\ UNCHANGED <<dataVars, storeVars, work, dirty, spoiled, phase, redoPos, erred, hist, bounds>>

\* All images are appended; append the commit marker.
AppendCommit ==
    /\ phase = "images" /\ todo = {}
    /\ Append_(CommitTx(TxId, Current))
    /\ phase' = "walSync"
    /\ UNCHANGED <<dataVars, storeVars, txVars, redoPos, erred, hist, bounds>>

\* Mutant: commit goes on to the data file without syncing the log.
WalSyncMissing ==
    /\ phase = "walSync"
    /\ phase' = "write"
    /\ todo' = DirtyPages
    /\ hist' = WithOutcome("logged")
    /\ UNCHANGED <<logVars, dataVars, storeVars, work, dirty, spoiled, redoPos, erred, bounds>>

\* Mutant: the second loop leaves out the catalog page.
WalSyncHeapOnly ==
    /\ phase = "walSync"
    /\ walDurable' = Len(wal)
    /\ phase' = "write"
    /\ todo' = DirtyPages \ {0}
    /\ hist' = WithOutcome("logged")
    /\ UNCHANGED <<wal, nextLsn, dataVars, storeVars, work, dirty, spoiled, redoPos, erred, bounds>>

\* Sync the log; the second loop of commit is over the dirty pages again.
WalSync ==
    /\ phase = "walSync"
    /\ walDurable' = Len(wal)
    /\ phase' = "write"
    /\ todo' = DirtyPages
    /\ hist' = WithOutcome("logged")
    /\ UNCHANGED <<wal, nextLsn, dataVars, storeVars, work, dirty, spoiled, redoPos, erred, bounds>>

\* One turn of the second loop: write the next dirty page to the data file.
WritePage ==
    /\ phase = "write" /\ todo # {}
    /\ WritePageTo(Least(todo), dirty[Least(todo)])
    /\ todo' = todo \ {Least(todo)}
    /\ UNCHANGED <<logVars, storeVars, work, dirty, spoiled, phase, redoPos, erred, hist, bounds>>

\* Mutant: commit returns without syncing the data file.
DataSyncMissing ==
    /\ phase = "write" /\ todo = {}
    /\ catalog' = work
    /\ EndTx("acked")
    /\ UNCHANGED <<logVars, dataVars, nextTx, redoPos, erred, bounds>>

\* Mutant: commit forgets replace_catalog.
DataSyncStaleCatalog ==
    /\ phase = "write" /\ todo = {}
    /\ SyncData
    /\ EndTx("acked")
    /\ UNCHANGED <<logVars, catalog, nextTx, redoPos, erred, bounds>>

\* Sync the data file, install the working catalog in memory and return Ok.
DataSync ==
    /\ phase = "write" /\ todo = {}
    /\ SyncData
    /\ catalog' = work
    /\ EndTx("acked")
    /\ UNCHANGED <<logVars, nextTx, redoPos, erred, bounds>>

\* An append, a page write or a sync of commit fails: commit returns the error,
\* and dropping the transaction releases the writer.  The catalog in memory is
\* still the one from before the transaction.
CommitFails ==
    /\ \/ phase = "images" /\ AppendFails /\ UNCHANGED dataVars
       \/ phase = "walSync" /\ SyncFails /\ UNCHANGED <<logVars, dataVars>>
       \/ phase = "write" /\ todo # {} /\ WritePageFails(Least(todo)) /\ UNCHANGED logVars
       \/ phase = "write" /\ todo = {} /\ SyncFails /\ UNCHANGED <<logVars, dataVars>>
    /\ EndTx(IF phase = "write" THEN "logged" ELSE "failed")
    /\ erred' = TRUE
    /\ UNCHANGED <<catalog, nextTx, redoPos>>

\* Transaction::rollback appends the abort marker ...
Rollback ==
    /\ phase = "active"
    /\ Append_(AbortTx(TxId, Current))
    /\ phase' = "abortSync"
    /\ UNCHANGED <<dataVars, storeVars, txVars, redoPos, erred, hist, bounds>>

\* ... and syncs the log.
RollbackSync ==
    /\ phase = "abortSync"
    /\ walDurable' = Len(wal)
    /\ EndTx("rolledback")
    /\ UNCHANGED <<wal, nextLsn, dataVars, catalog, nextTx, redoPos, erred, bounds>>

\* Either of them fails: the transaction ends all the same, with the error.
RollbackFails ==
    /\ \/ phase = "active" /\ AppendFails
       \/ phase = "abortSync" /\ SyncFails /\ UNCHANGED logVars
    /\ EndTx("rolledback")
    /\ erred' = TRUE
    /\ UNCHANGED <<dataVars, catalog, nextTx, redoPos>>

\* Mutant: Drop does not release the writer.
DropTxKeepingFlag ==
    /\ phase = "active"
    /\ phase' = "idle"
    /\ work' = EmptyCatalog /\ dirty' = NothingDirty /\ todo' = {} /\ spoiled' = FALSE
    /\ hist' = WithOutcome("dropped")
    /\ UNCHANGED <<logVars, dataVars, storeVars, redoPos, erred, bounds>>

\* The caller drops an active transaction: nothing is logged.
DropTx ==
    /\ phase = "active"
    /\ EndTx("dropped")
    /\ UNCHANGED <<logVars, dataVars, catalog, nextTx, redoPos, erred, bounds>>

\* TransactionalStore::sync_data: the data file first, then the log.
SyncStore ==
    /\ phase = "idle"
    /\ SyncData
    /\ walDurable' = Len(wal)
    /\ UNCHANGED <<wal, nextLsn, storeVars, txVars, phase, redoPos, erred, hist, bounds>>

\* One of its two syncs fails.
SyncStoreFails ==
    /\ phase = "idle"
    /\ SyncFails
    /\ SyncData \/ UNCHANGED dataVars
    /\ erred' = TRUE
    /\ UNCHANGED <<logVars, storeVars, txVars, phase, redoPos, hist>>

-----------------------------------------------------------------------------
\* The program's own steps inside a call that has begun.
Step ==
    \/ RedoRecord \/ RedoDone
    \/ AppendImage \/ AppendCommit \/ WalSync \/ WritePage \/ DataSync
    \/ RollbackSync

\* The calls that change what a transaction has staged.
Staging ==
    \/ RegisterExtension \/ AllocatePage
    \/ \E p \in Pages : \/ InsertRow(p) \/ InsertIndexEntry(p)
                       \/ InsertRowFails(p) \/ InsertIndexEntryFails(p)

\* The calls of the user of the library.
Call ==
    \/ OpenStore \/ BootstrapStore \/ OpenDatabase
    \/ Begin \/ Commit \/ Rollback \/ DropTx \/ SyncStore
    \/ Staging

\* What the environment does to it.
Failure ==
    \/ BootstrapFails \/ RedoFails \/ BeginFails \/ CommitFails \/ RollbackFails
    \/ SyncStoreFails
    \/ Exit \/ Writeback \/ PowerLoss

Next == Step \/ Call \/ Failure

Spec == Init /\ [][Next]_vars

\* A thread that is inside a call keeps running until the process exits.
FairSpec == Spec /\ WF_vars(Step)

-----------------------------------------------------------------------------
(***************************************************************************)
(* What a reader finds at the next open, if the machine stops now with its *)
(* files as they are: the data file after redo, or the data file itself    *)
(* when recovery refuses the log.                                          *)
(***************************************************************************)

View(p) == IF ReadAllOk(wal) THEN AfterRedo(wal, p, data[p]) ELSE data[p]

\* Page p shows the changes of transaction i.
Shows(i, p) == LET image == View(p) IN Valid(image) /\ i \in image.txs

\* A commit marker that transaction i itself wrote is in the log.
HasCommitMarker(i) == \E k \in DOMAIN wal : wal[k].kind = "commit" /\ wal[k].by = i

\* A transaction is there to stay once the log sync of its commit has succeeded,
\* before commit returns Ok: every page it changed shows it and the catalog still
\* leads to that page (Transaction::commit, open_database).
Durability ==
    \A i \in DOMAIN hist : hist[i].outcome \in {"logged", "acked"} =>
        \A p \in hist[i].pages : Shows(i, p) /\ p < View(0).next

\* No transaction is half there: when one of the pages it committed shows it, all
\* of them do (the log makes the page writes of Transaction::commit atomic).
Atomicity ==
    \A i \in DOMAIN hist : \A p, q \in hist[i].pages : Shows(i, p) => Shows(i, q)

\* A change is only visible if its own transaction reached its commit marker
\* (redo_committed_page_images, and the order of the steps of commit).
NoUncommittedVisible ==
    \A i \in DOMAIN hist : \A p \in Pages : Shows(i, p) => HasCommitMarker(i)

\* Recovery may refuse a damaged log, but not at the price of a transaction whose
\* commit was synced to it: that one is then already in the data file.
CommitsSurviveRefusal ==
    phase = "refused" =>
        \A i \in DOMAIN hist : hist[i].outcome \in {"logged", "acked"} =>
            \A p \in hist[i].pages : Valid(data[p]) /\ i \in data[p].txs

\* A commit that returned an error has not succeeded: the open store goes on with
\* its old catalog, and no page that this catalog leads to shows the changes
\* (Transaction::commit, every early return of it; the reads of TransactionalStore
\* and of the next transaction start from the catalog in memory).
FailedCommitNotVisible ==
    phase = "idle" =>
        \A i \in DOMAIN hist : hist[i].outcome \in {"logged", "failed"} =>
            \A p \in 1..(catalog.next - 1) : ~(Valid(data[p]) /\ i \in data[p].txs)

\* As long as the handle has met no I/O error and committed no transaction after an
\* error of one of its calls, the open store reads from the data file exactly what
\* recovery would produce.
LiveReadsMatchRecovery ==
    phase \in {"idle", "active"} /\ ~erred => \A p \in Pages : data[p] = View(p)

\* Under the same condition the catalog in memory is the one in page 0, whatever
\* calls have failed in transactions that were then dropped or rolled back:
\* replace_catalog follows the durable write of the catalog page.
CatalogInstalled ==
    phase \in {"idle", "active"} /\ ~erred => catalog = data[0]

\* What the comment on replace_catalog says of every commit that returns Ok: the
\* catalog page has been durably installed.  No I/O error is needed to break it.
InstalledCatalogIsDurable ==
    phase = "idle" /\ faults = 0 => catalog = data[0]

\* The first n records of the log hold the commit marker of the current
\* transaction and, before it, the image of each of its dirty pages.
Logged(n) ==
    \E m \in 1..n :
        /\ wal[m] = CommitTx(TxId, Current)
        /\ \A p \in DirtyPages :
               \E k \in 1..(m - 1) : wal[k] = PageImage(TxId, p, dirty[p], Current)

\* When commit writes pages to the data file, the images of all its pages and,
\* after them, its commit marker are in the durable part of the log.
WalBeforeData == phase = "write" => Logged(walDurable)

\* When open_database returns, running it again would change nothing, and a power
\* loss cannot undo it.
RecoveryIsComplete ==
    phase = "recovered" =>
        \A p \in Pages : /\ data[p] = AfterRedo(wal, p, data[p])
                         /\ survive[p] = {data[p]}

\* The writer flag is set exactly while a transaction is alive, whichever way the
\* last one ended: otherwise begin would answer Retryable for ever.
WriterFlagMatches == activeWriter <=> phase \in InTx

\* A step that acknowledges transaction i leaves its pages with nothing to lose.
AcksSynced ==
    \A i \in DOMAIN hist :
        hist'[i].outcome = "acked" /\ hist[i].outcome # "acked" =>
            \A p \in hist[i].pages : survive'[p] = {dirty[p]}

\* Commit returns Ok only when a power loss can no longer take away any page of
\* the transaction.
AckIsSynced == [][AcksSynced]_vars

\* Every call that does I/O in several steps returns, or the process ends.
CallsReturn ==
    phase \in Committing \cup {"redo", "abortSync"}
        ~> phase \in Closed \cup {"idle", "recovered"}
=============================================================================
