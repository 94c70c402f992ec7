# A TLA+ verification of the RDBMS

This directory holds TLA+ models of the database in `src/crates`, the TLC
configurations that check them on small instances, and machine-checked proofs
(TLAPS) of all their safety properties, for every size: of the transactional core, the
slotted page, the B+Tree, the catalog store, the SQL executor with its codecs and the SQL
parser. Every definition of the models is a translation of Rust code; `PROJECT.json`
("map") names the lines.

## 1. The system

The database is a library of small crates, one on top of the other. It is
single-threaded: what is hard about it is not concurrency but *where it can be
interrupted*, namely by an I/O error, the end of the process or a power loss between
any two file operations, and by a caller who goes on after an error.

| Crate | State | Operations | Used by |
|---|---|---|---|
| `rdbms_vfs` | two files: pages, log | `read_page`, `write_page`, `write_all_at`, `sync_data` | everything below |
| `rdbms_page` | one slotted page: header, slot directory, free area, records | `insert_record`, `read_record`, `delete_record`, `compact`, `validate` | catalog, heap, index |
| `rdbms_wal` | log file, next LSN | `append`, `sync_data`, `read_all`, `redo_committed_page_images` | tx, recovery |
| `rdbms_recovery` | none of its own | `open_database` (scan, redo, sync) | the program at start |
| `rdbms_catalog` | page 0: relations, heap page lists, index roots, extensions, `next_page_id` | create table/index metadata, allocate ids, append heap page, encode and decode; `CatalogStore`: `create_table`, `insert_row`, `full_scan`, `read_row` | tx, sql |
| `rdbms_index` | B+Tree nodes in pages | `initialize_root`, `insert`, `lookup` | tx |
| `rdbms_tx` | `next_tx_id`, `active_writer`; per transaction the working catalog and the dirty pages | `begin`, staging operations, `commit`, `rollback`, drop, `sync_data` | sql |
| `rdbms_sql` | none (a session owns a store) | CREATE TABLE, INSERT, CREATE INDEX, SELECT, LOAD EXTENSION, scalar calls | the user |
| `rdbms_extension`, `rdbms_ext_abi` | a registry rebuilt from the catalog for every call | `load`, `call_scalar` | sql |
| `rdbms_core`, `rdbms_cli`, `rdbms_android` | none | types, a stub, JNI smoke functions | - |

How they interact: a statement begins a transaction, stages pages and a working
catalog in memory, and commits. Commit appends one full page image per dirty page
and a commit marker to the log, syncs the log, writes the pages to the data file,
syncs it, and replaces the catalog in memory. `open_database` replays the images of
committed transactions. Opening a store does *not* run it: a caller has to.

What makes each part correct:

* **tx, wal, recovery, vfs**: a transaction whose commit returned is there after any
  failure, all of it; one that did not commit leaves nothing; data pages are written
  only behind the durable log; recovery is complete and may be interrupted; the writer
  flag is released on every way out.
* **page**: records do not share bytes, read back as inserted under the slot id that
  was handed out, and a page always validates.
* **index**: a lookup returns exactly the rows inserted under its key, although equal
  keys spread over several leaves; nothing is lost by a split, or by a failed insert.
* **vfs, catalog store**: without a log, what a handle that met no error has
  acknowledged is found again; the catalog on file never lists a page that was not
  written; calls return however the system splits reads and writes.
* **catalog, sql**: an equality query has the same answer through an index and through
  a scan; a page belongs to one relation; a failed statement leaves no trace; the
  encoded catalog and rows are read back as they were written.
* **parser**: exactly the documented statements are accepted, although no keyword is
  reserved, and a statement keeps the words of its text in their places.
* **extension**: every function of a loaded extension can be called, in later sessions
  too.

`PROJECT.json` ("hazards") lists where in the code each of these could go wrong.

## 2. The modules

| Module | Models | About |
|---|---|---|
| `Wal` | `rdbms_wal` | the log as a sequence of records, LSN = position; the scan that accepts or refuses the whole log; which images redo applies |
| `TxStore` (extends `Wal`) | `rdbms_tx`, `rdbms_recovery`, `rdbms_vfs`, catalog page | one database under I/O errors, exits and power losses |
| `AtomicStore` | what `rdbms_tx` with its log promises | committed transactions in order, with commit, sync, acknowledgement and crash as single steps |
| `TxStoreRefinement` (extends `TxStore`) | - | the refinement mapping: `TxStore` as an `AtomicStore` |
| `TxStoreProofs` (extends `TxStoreRefinement`) | - | theorems about `TxStore` without restrictions; then the hypotheses of the documented use (`FailStop`), the invariant of the files, and from it durability, atomicity and the refinement of `AtomicStore` |
| `AtomicStoreProofs` | - | what `AtomicStore` promises |
| `SlottedPage`, `SlottedPageProofs` | `rdbms_page` | one page, byte by byte; theorems |
| `BPlusTree`, `BPlusTreeProofs` | `rdbms_index`, index part of `rdbms_tx` | insert and lookup one page access at a time; theorems |
| `PageFile` | `rdbms_vfs` | one page read or write as a loop over system calls |
| `CatalogStore` (extends `PageFile`), `CatalogStoreProofs` | `CatalogStore` of `rdbms_catalog` | tables and rows without a transaction; theorems |
| `RecordFields`, `CatalogCodec`, `RowCodec` | encoders and decoders of `rdbms_catalog` and `rdbms_sql` | records as sequences of fields |
| `Extensions` | `rdbms_extension`, `rdbms_ext_abi` | the registry and the scalar functions |
| `SqlTables` (extends the codecs and `Extensions`) | `rdbms_sql` executor, catalog relations, heap | statements over tables and indexes |
| `SqlTablesProofs`, `FoldProofs` | - | theorems about the codecs and the statements; what the decoders' loops keep |
| `SqlParser`, `SqlParserProofs` | the parser of `rdbms_sql` | one statement, one token at a time; theorems |
| `MC*` | - | constants for TLC |

Operators marked "Mutant" in a module are deliberately wrong variants of the
definition that follows them. Replacing the definition by its mutant must make TLC
report the property that `PROJECT.json` ("mutants") pairs with it; it shows that the
property can see such a bug. They are not part of any specification.

### TxStore and Wal

A page image is the set of transactions whose changes it contains (and, for page 0,
`next_page_id`). This is enough to tell a lost update, a half-applied transaction and
an uncommitted change apart, and it leaves out the bytes. A log record carries the
number of the transaction that wrote it (`by`, history) besides the `TxId` the code
writes: the two differ because ids start again at 1 in each session.

* `data` and `wal` are the files as a reader sees them; `survive[p]` is the set of
  contents a power loss may leave of page `p` (after `write_page`: old, new or `Torn`;
  after a successful sync: what is there), and `walDurable` the durable prefix of the
  log. A power loss keeps a prefix of the log that includes it, perhaps followed by a
  damaged record (`Garbage`). A page or record that is half-written is assumed to fail
  its checksum. A failed write leaves the old or torn contents; a failed sync
  guarantees nothing new and takes nothing away.
* `phase` is the program counter. Commit goes `images` → `walSync` → `write` → `idle`
  with one action per file operation (`AppendImage`, `AppendCommit`, `WalSync`,
  `WritePage`, `DataSync`), in the order of the `BTreeMap`; `CommitFails` is the `?`
  on each of them. Recovery goes `redo` → `recovered`, one action per log record.
* `Exit`, `Writeback` and `PowerLoss` may come between any two of them.
* The three Boolean constants say what callers and environment may do:
  `UseAfterError` (use a handle that returned an I/O error, or a transaction one of whose
  calls returned an error), `RecoverFirst` (callers run
  `open_database` before opening a store), `RecoverCachedLog` (recovery may read log
  bytes that are not durable yet).
* The staged operations are `InsertRow`, `InsertIndexEntry`, `AllocatePage` (create
  table, create index, a row or an entry that needs a new page) and `RegisterExtension`.
  Three of them can fail half-way and leave a transaction that is still usable:
  `mark_catalog_dirty` when the catalog no longer fits (`MarkCatalogDirty`), `insert_row` of
  a row larger than a page, which has taken a page id by then (`InsertRowFails`), and
  `insert_index_entry` in a split (`InsertIndexEntryFails`). `spoiled` (history) remembers it
  until the transaction ends.

### AtomicStore and the refinement

`AtomicStore` has no log and no files. `history` is the sequence of committed
transactions with the pages each changed; `store[p]` is what a reader finds on page `p`;
a crash cuts `history` at any place behind the first `durable` ones; the user is told of a
commit only when it is durable. The mapping in `TxStoreRefinement`: `history` is the
commit markers of the log in the order of their positions (`MarkerAt` is the position of
the j-th one), `durable` the number of them in its durable prefix, `store` what recovery
would make of the two files, `acked` the transactions whose `commit` has returned Ok. So
the append of the marker is the point at which a transaction takes effect; every other
step of commit, every data write, write-back and step of recovery has to be a stuttering
step or `AbsSync`/`AbsAck`, and a power loss an `AbsCrash`.

### SlottedPage

The page is a function from offsets to bytes with the header fields beside it. Each
change ends with `refresh_checksum`. Slot bytes are marked `Dir` so that a record overlapping
the directory is seen; what they hold is in `slots`, and `EntryBytes` writes an entry out as
its six bytes. The checksum is the sum of bytes of the code, taken over `PageBytes`: an
offset or a length adds its low and its high byte, not its value. `ByteBase` is the number
of values of a byte (256; a small page has a smaller one, so that its offsets need two bytes,
too). The sums in the checksum and in `compact` are partial sums (`SumTo`), a recursive
function of how far the loop has come.

`TornInsertsDetected` is about the assumption that all other models make of torn pages.
A sum of bytes can be fooled, but not by a torn write of one more record: the bytes of the
slot entry and of the record only add to the sum (a byte 0 changes nothing and tears
nothing), so that no proper part of them gives either of the two sums. Any of the changed
bytes may have reached the file, also some of the six bytes of an entry. It relies on the
header, which holds the checksum, reaching the disk as a whole (it lies within one sector).
It does not cover an insert that reuses a dead slot, which makes some bytes of the entry
smaller, nor pages that are rebuilt as a whole (index nodes, the catalog): for those
detection remains an assumption.

### BPlusTree

`insert_recursive` is an explicit stack: `Descend` to the leaf, `InsertInLeaf`, then
`InsertInParent` per level, `NewRoot` at the top. Every node store may fail because the
node does not fit in a page (`Fits`), which is how long text keys make a split stop
half-way, and every new page may find that `allocate_page_id` has none left
(`OutOfPages`). The root page is any that CREATE INDEX can have been given (`FirstRoots`).
Nodes are staged; `Commit` and `Discard` are the transaction's. Lookups go
one page at a time over the committed pages. `CommitAfterError` says whether a caller
may commit after an insert returned an error; SQL never does, as its statements drop the
transaction on the first error.

### SqlTables

`committed` and `work` are the state before and inside the statement's transaction.
An index is the set of its entries and pages here, as `BPlusTree` justifies (and
`LookupExact` there is what this module assumes of a lookup). INSERT and CREATE INDEX
add one entry per step, which may take any number of pages for splits and a new root, and
may fail between two of them (`FailStatement`); the
catalog's page counter is shared by heap pages, index roots and splits. Heap rows are
the records that `encode_row` makes (`RowCodec`), and every read decodes them. Integers
and doubles are compared exactly: that `as f64` rounds integers from 2^53 on is left out. `Reopen`
replaces the catalog by what `decode_catalog` makes of the record that `encode_catalog`
wrote (`CatalogCodec`). In both a field has the width with which it is written, so that a
reader that takes fields in another order, or one too many, fails or reads another value;
an integer and a double have the same width, and only the tag tells them apart. LOAD
EXTENSION records the extension; the registry of a function call is rebuilt from the
catalog (`Registry`), as `execute_select_function` does.

### PageFile and CatalogStore

The file is a sequence of blocks; a block is a numbered part of a page image, or `Zero`
where a write behind the end of the file has left a hole. Blocks that are not all the parts
of one image, in order, read as `Damaged`. `WriteSome` and `ReadSome` are one turn of the loops in
`write_all_at` and `read_exact_at` and transfer any number of the blocks that are left;
`IoFails` is a system call that fails, which after a part of a write leaves the page
mixed. `CatalogStore` has the calls of the struct of that name, which write a heap page,
then the catalog, with nothing to mend a half-finished call. `Exit` ends the process
between any two system calls; what was written stays (power losses are `TxStore`'s
subject).

The properties exclude what the code cannot deliver, by history variables: pages whose
last write was cut (`cut`), rows acknowledged by a handle that had returned an error
before (`clean`), and, in `ListedPagesWritten` only, catalogs that such a handle saved
(`mixed`). `full_scan` fails as a whole on a page it cannot read, so that one page whose
write was cut hides all rows of its table (`FoundAfterReopen`): an acknowledged row is
found if neither the catalog nor any page of its table was cut. Without these
exclusions TLC finds the reason: `create_table` changes the catalog in memory before the
write that fails, and the next successful call saves that catalog, with a page that was never
written. `AckedRowsFound` holds in spite of such catalogs: the page that was never written is
the only one of its table, where no row was ever acknowledged. Transactions work on a copy of the catalog and do not have this problem.

### SqlParser

`at` is the place in the `parse_` functions, `offset` the parser's. Tokens are chosen when
the parser first looks at them, so that inputs with a common refused beginning are one
behaviour. Every word, keywords included, may be any identifier. The reference is
`Grammar`: for each documented form of a statement, the tokens that may stand at each
place. Where `docs/sql.md` writes `(literal, ...)` the list may be empty, as in the code.

## 3. What TLC checks

All passing runs are exhaustive for their bounds. The deadlock check is off in `parser`
(a parse ends) and `catalog_store` (the bounds on sessions and rows end every behaviour),
and on everywhere else.

| Run | Bounds | Properties |
|---|---|---|
| `failstop` | 2 pages + catalog, 2 transactions, 1 session, 2 power losses, 1 I/O error, one handle that is given up after an error | `Durability`, `Atomicity`, `NoUncommittedVisible`, `CommitsSurviveRefusal`, `LiveReadsMatchRecovery`, `CatalogInstalled`, `ImplementsAtomicStore` |
| `anything` | 1 page + catalog, 2 transactions, 2 sessions, 1 I/O error (which may tear a page or a record), no power loss; processes that end anywhere, handles used after errors, opens without recovery, cached logs, a full catalog | `WalBeforeData`, `RecoveryIsComplete`, `WriterFlagMatches`, `AckIsSynced`, `CallsReturn` |
| `page` | 20-byte page (header of 1, entries of 6 bytes), bytes to the base 5, records of 0 to 2 bytes of the values 0 and 3 | `WellFormed` (the page validates, `RecordsDisjoint`), `ReadsBack`, `SlotIdsStable`, `CompactReclaims`, `TornInsertsDetected` |
| `tree` | 3 keys of three lengths, 6 rows, MaxKeys 2, a root on page 1 or 2, 7 page ids, 1 failing read | `TreeShape` (`SeparatorsBound`, `LeavesAtOneLevel`), `ChainHoldsEntries`, `LookupExact`, `CallsReturn` |
| `sql_statements` | 3 names (up to symmetry), 2 schemas, 5 literals, 3 rows, 5 pages | `IndexAgreesWithScan`, `QueriesNeverFail`, `PagesOwnedOnce`, `CatalogReadsBack`, `FunctionsCallable`, `RowsKept` |
| `parser` | 9 tokens, 4 keywords among them | `AcceptsTheGrammar`, `StatementKeepsWords`, `ParserReturns` |
| `catalog_store` | 2 blocks to a page, 2 rows to a page, 4 pages, 2 tables, 4 rows, 2 sessions, 1 failing system call | `AckedRowsFound`, `ListedPagesWritten`, `PagesTakenOnce`, `OpensUnlessCut`, `StoreCallsReturn` |

(`failstop`, `page`, `tree`, `sql_statements` and `catalog_store` also check their module's
`TypeOK`.)

Why these bounds are enough to be interesting: two pages besides the catalog give a
transaction three page writes, so that a crash can fall before, between and after them;
the second transaction overwrites pages of the first, so that redo has to order images;
two power losses let the second fall into the recovery from the first. The page of 20
bytes fills up, reuses slots and is compacted with slots out of offset order; to the base 5
its offsets have a low and a high byte. MaxKeys 2
splits a node with the same parity as the code's `MAX_KEYS = 4` (an odd overfull node, a
middle separator); six rows over three keys make duplicates span several leaves and split
the root twice; with the root on page 2 the page ids run out; and with one key that fits in no node and one that fits only alone a
split can fail at each of its stores. In `sql_statements` rows spill over to a second heap
page, a key fits in a row and not in an index, and the catalog page becomes full. Nine
tokens hold every statement form with its shortest lists, and lists of two in the shorter
forms; four keywords let a statement use one or two of them as names. Two blocks
to a page are enough for a write that stops half-way and for a short read; two rows to a
page let a later insert cut a page that holds acknowledged rows, in a table of several pages. `anything`
opens the store twice and leaves the power losses to `failstop`, whose bounds have two; the
theorems of section 4 hold its safety properties for any number of sessions, errors and
power losses at once.

### Fairness

The fair specifications ask for weak fairness of the program's own steps only (`Step`, and
the parser's `Next`): a thread that is inside a call of the library keeps running. In
`CatalogStore` this includes that a system call is not interrupted by signals for ever. No fairness is asked of callers, of
failures, or of the operating system's write-back. `CallsReturn` (the loops over the log,
the dirty pages, the tree levels and the leaf chain end), `StoreCallsReturn` (the loops of
the VFS) and `ParserReturns` need no more.

### Where the code and its documents disagree

Five runs state what a document or comment says, and TLC finds a behaviour of the code
that violates it. `PROJECT.json` ("findings") quotes the lines.

* `reused_id`: ids start again at 1 in each session while redo collects committed ids over
  the whole log; images of an uncommitted transaction are replayed if an earlier session
  committed the same id, even though recovery ran before every open.
* `torn_tail`: a session appends behind a damaged record at the end of the log, and
  recovery then refuses the whole log with the commit that follows.
* `failed_commit`: a commit that fails while writing pages leaves them in the data file. The
  handle keeps its old catalog, and where that leads to such a page (of an earlier
  transaction, which the failed one has changed) the handle reads it. The run has two
  transactions for it.
* `overflow`: a commit after a call that failed half-way ("the catalog does not fit", a row
  larger than a page) returns Ok and installs in memory a catalog that was never staged. No
  I/O error is needed.
* `tree_failed_insert`: a split stores the left half before it knows that the right half
  fits; a caller that commits after the error loses entries.

Two more are seen by changing the constants of `failstop`. With `UseAfterError = TRUE`,
`CommitsSurviveRefusal` fails: a failed append advances the LSN allocator, the next one
leaves a hole, and recovery refuses the log from there on. With `RecoverCachedLog = TRUE`,
`NoUncommittedVisible` fails: recovery replays a commit that only the OS cache holds and
syncs the pages but not the log.

These are the reasons for the restrictions of `failstop`: one session (ids are not
reused, no append behind a damaged tail), handles given up after an I/O error and
transactions after an error of one of their calls, and a log that is durable when recovery
reads it. The calls may fail all the same and, in the theorems, the
catalog may become full. Within them the store is durable
and atomic, and implements `AtomicStore`: `failstop` checks it for its bounds, and the
theorems that assume `FailStop` (section 4) prove it for all. `anything` and the other
theorems are without the restrictions.

## 4. What is proved

Each theorem holds for every value of the constants that satisfies the named assumptions of
the module (the bounds are naturals, `Blank` and `Torn` are not page images, a page has at
least one block and holds at least one row, the header fits in the page, a tree node holds
at least two keys, a schema is a list of columns, the number of a NULL literal is 0 and that
of a text is its length). Where an invariant had to be strengthened to be inductive, the stronger one was first checked with
TLC on the bounds of the run.

### The transactional store without restrictions

For all values of the three Boolean constants and every catalog capacity:

| Theorem | Statement |
|---|---|
| `TypeCorrect` | `Spec => []TypeOK`; in particular the LSN allocator is past the end of the log, so no append overwrites a record |
| `WalBeforeDataHolds` | while commit writes data pages, all its images and then its marker are in the durable log |
| `RecoveryCompletes` | when `open_database` returns, replaying the log again changes nothing, and a power loss cannot undo it |
| `WriterFlagCorrect` | `active_writer` is set exactly while a transaction is alive |
| `AckIsSyncedHolds` | commit returns Ok only when every page of it is durable in the data file |

The argument. `TypeOK` alone is not inductive: a step of commit reads the current
entry of `hist`, so `TypeInv` adds that a live transaction has one (`TxAlive`). It is
proved one part of the state at a time (`LogOK`, `DataOK`, `StoreOK`, ...), since each
action disturbs few of them. The other theorems come from `StoreInv`, which says how far
a call has come:

* `CommitProgress`: in `images`, the pages no longer in `todo` have their image in the log;
  in `walSync`, all have, and the marker follows; in `write`, this holds of the durable
  prefix. `WalBeforeData` is its last conjunct, and not inductive without the first two.
* `WriteProgress`: in `write`, the pages no longer in `todo` are in the data file as staged;
  with the data sync this gives `AckIsSynced`.
* `RedoProgress`: each page either has no redoable record before `redoPos`, or holds the
  image of the last one. At the end of the log this is `RecoveryIsComplete`.

The lemmas `CommittingSteps` and `RecoverySteps` say once which actions can lead into
these phases, so that each progress lemma treats a handful of actions. `AckStep` has
one case per action.

### The transactional store as documented

These assume `FailStop`: at most one session, no use of a handle after an I/O error nor of a
transaction after an error of one of its calls (`~UseAfterError`), and recovery that reads a
durable log. No part of it can be dropped. More sessions refute them by `reused_id` and `torn_tail`, use after an
error by `overflow` and by the hole in the LSNs, a cached log by the replay of a commit that is not durable (section 3). The numbers of pages,
transactions, I/O errors and power losses remain arbitrary, and so do the interruptions of
recovery by either.

| Theorem | Statement |
|---|---|
| `FailStopInvHolds` | the inductive invariant below |
| `DurabilityHolds` | a transaction whose commit had its log sync is found on every page it changed, by a catalog that leads there |
| `AtomicityHolds` | when one page of a committed transaction shows it, all do |
| `NoUncommittedVisibleHolds` | no reader finds a change of a transaction without a commit marker |
| `CommitsSurviveRefusalHolds` | when recovery refuses a damaged log, all that was synced is in the data file already |
| `LiveReadsMatchRecoveryHolds` | until an I/O error, the open store reads what recovery would produce |
| `CatalogInstalledHolds` | until an I/O error, the catalog in memory is the one in page 0, whatever calls failed in transactions that were given up |
| `AtomicStorePromises` | `AbsSpec => [](AckedStay /\ AllOrNothing)`: acknowledged transactions survive, and what is found is whole |
| `StoreImplementsAtomicStore` | `Spec => ImplementsAtomicStore`, under the mapping of section 2 |

The argument. None of the properties is inductive: they speak of what recovery would find,
and a step can change the log and the data file in ways that only together keep it. The
invariant `FilesInv` says that the files are safe in one of two ways. `SafeInData`: every
page in the data file, and everything a power loss may make of it, is the last image that a
kept transaction logged of it; this holds between transactions and until the log sync.
`SafeInLog`: the log is durable and undamaged, and the data file may hold anything on the
pages that redo writes; this holds from the log sync to the data sync and in recovery. The
log sync changes from the first to the second, the data sync back. `RightLog` says what the
last images are worth: they hold the changes of exactly the transactions that touched the
page, and the last catalog knows all their pages. `Records` and `Markers` say that log
records come in the order of their transactions and that a marker whose log sync has not
succeeded is the last record, so that a power loss or a damaged tail removes nothing that is
kept. `Numbering` is where one session matters: transactions and their ids are numbered
alike. `Staged` relates the pages of the transaction in progress to the images they were
read from, unless it is spoiled: then it cannot commit any more, and nothing needs to be known. There is one lemma per action; most are frame steps over `SameImages` (records
that are not images of kept transactions may come and go).

The refinement adds the counting of markers: a log that grows by a record that is no marker,
or loses only such records, has the same history (`MarkerPrefix`, `PrefixHistory`). `AppendCommit`
is then `AbsCommit`, the `DataSync` that ends a commit is `AbsAck`, `PowerLoss` is
`AbsCrash`, and every other action is a stuttering step, or `AbsSync` where it makes markers
durable (`QuietSteps`). `AtomicStorePromises` rests on `AbsInv` (what is acknowledged is in the durable
part of the history, and the store is what the history says); with the refinement it holds
of `TxStore`.

### The slotted page

From `PageAssumption`, for every size of the page and of its header, every set of byte values
and every base of the bytes in which a page offset has two:

| Theorem | Statement |
|---|---|
| `PageInvHolds` | the inductive invariant below |
| `PageTypeCorrect` | no offset, length or bound leaves the page |
| `WellFormedHolds` | `from_bytes` accepts every page the code has made, and records share no byte |
| `ReadsBackHolds` | `read_record` returns what was inserted under the slot id |
| `SlotIdsStableHolds` | a slot id stands for its record until that record is deleted |
| `CompactReclaimsHolds` | `compact` leaves free all that header, directory and live records do not use |
| `TornInsertsDetectedHolds` | the checksum finds every torn write of an insert into a new slot |

`PageInv` adds to `RecordsDisjoint` that the live records lie above the free area
(`Layout`), hold the bytes of their records (`Held`), and fit above it by the sum of their
lengths (`Fits`). Without `Fits` `compact`, which lays them out anew from the end of the page
downwards, could run into the directory; it is not a consequence of their being apart that
the provers could find, and every operation keeps it. `Directory` and `FreeZero` (the free
area is zero) are what `TornInsertsDetected` needs: every byte that a new slot entry and
record change was zero (`NewSlotBytes`), so that the sum of a torn page lies between the two
sums, byte by byte, and equals one of them only if the bytes do (`SumCompare`). Facts about sums
(`SumFacts`, `SumMonotone`, `SumChange`) are proved once for `SumTo`, by the least
counterexample: the set of the numbers up to which a fact holds is closed under successor
(`UpTo`). That needs no induction theorem with an operator parameter.

### The catalog store and its page file

From `PageFileAssumption` and `StoreAssumption`, for every number of blocks in a page, of
pages, tables, rows, sessions and failing system calls:

| Theorem | Statement |
|---|---|
| `CatalogInvHolds` | the inductive invariant below |
| `StoreTypeCorrect` | the page counter and all addresses stay in range |
| `PagesTakenOnceHolds` | no page is given to two tables, in memory or on file |
| `ListedPagesWrittenHolds` | every page that the catalog on file lists is a heap page, unless its last write was cut or a handle went on after an error |
| `OpensUnlessCutHolds` | a database whose catalog page was not cut opens |
| `TablesSoundHolds` | a page that a catalog lists and nobody wrote is the only page of its table |
| `AckedRowsFoundHolds` | a row acknowledged by a handle without errors is found, unless the catalog or a page of its table was cut |

`CatalogInv` has four parts. `Types` includes that every catalog, in memory or in a block on
file, gives no page and no name twice. `Transfer` says how far the read or write in progress
has come: the blocks done are those in the file. `Places` says what each place in the
program knows of its call. `Disk` relates the file to the catalog in memory, for pages that
are on file or in doubt (`InDoubt`: cut, or being written): what a catalog lists is there
(`ListedReady`), acknowledged rows are listed and on their pages (`AckedListed`,
`AckedKept`), and between two changes a handle without errors has the catalog on file
(`CatalogCurrent`). `TablesSound` is a second invariant, of catalogs saved after an error:
`create_table` may leave a table behind whose only page was never written, and `insert_row`
fails on such a table before it can add a page, so that a table with an acknowledged row has
none of these pages. `WriteSome` is the one action that changes the file; it leaves the page
being written `Damaged` or equal to its new image and all others alone (`WriteFacts`). All
the other actions are frame steps for `Disk` (`DiskKept`).

### The B+Tree

From `TreeAssumption`, for every set of keys and rows, every `MaxKeys` of at least 2, every
node capacity and key length, and trees of every height. `IndexTypes` is without
restriction. The others assume `CommitAfterError = FALSE`, which is what SQL does;
`tree_failed_insert` refutes them without it.

| Theorem | Statement |
|---|---|
| `IndexTypes` | every node is well made and every page id in range, even after failed inserts that were committed |
| `LookupsExact` | a finished lookup has returned each committed row with its key once, and no other |
| `ShapeKept` | separators bound the keys below them, and all leaves are at one level |
| `ChainKept` | the leaf chain holds exactly the entries inserted, each once, in order |

The type invariant needs the way an insert has come: `WalkInv` says that the frames of
`path` lead from the root to the page in hand (`Trail`), that stored nodes refer to stored
nodes only, and that all ways down from a page are equally long (`Levels`). The latter is why
the right half of a split can hang beside its left half.

The other three come from `IndexInv`. The properties are recursive over the tree, and the
invariant is not. It names a *layout*: the `m` leaves stand in a row, leaf `j` in page
`L[j]`, with a fence `K[j]` between neighbours, and below page `p` are the leaves
`lo[p]..hi[p]`. Then order is a matter of fences, the chain is "the next of `L[j]` is
`L[j + 1]`", and a separator is the fence at the end of the child on its left. While a split
rises, one place in the row has no parent yet (`Open`): each `InsertInParent` closes the gap
or moves it one level up, and `NewRoot` closes it. A lookup in progress has the rows with its
key in the leaves before the one it reads (`Passed`), which is where equal keys across
several leaves could be lost or read twice. The committed tree has a layout of its own, as
lookups go over it while an insert is staged. Each way in which pages change has a lemma that
constructs the new layout from the old (entry added, leaf cut, separator filled in, internal node
cut, new root). The recursive definitions of `TreeShape` and `ChainHoldsEntries` are then
unrolled level by level along the layout, by `UpTo`.

### The SQL executor and the codecs

From `SqlAssumption` and `MinIntAssumption`, for every set of names, schemas and literals,
every capacity of the heap page, the index key and the catalog page, and any number of rows
and pages:

| Theorem | Statement |
|---|---|
| `RowReadsBack` | `decode_row` returns the values that `encode_row` was given |
| `CatalogRoundTrip` | `decode_catalog` returns the catalog that `encode_catalog` was given |
| `Invariance` | the inductive invariant below |
| `SqlTypes` | all state is of its type, and every value in a row has the type of its column or is NULL |
| `SqlPages` | no page belongs to two relations, no name or number is given twice, the page counter is past all pages |
| `SqlQueries` | no row that a query visits, by scan or by index, fails to be read |
| `SqlCatalog` | the catalog on file is read back, in the format without extensions too, and a record that is cut or too long is refused |
| `SqlIndexes` | an equality query has the same answer through an index and through a scan |
| `SqlRows` | `Spec => RowsKept`: a committed row stays under its address, unchanged |
| `SqlFunctions` | the functions of a loaded extension can be called and return the type they report |

The codecs. A decoder is a fold over the fields or parts that are announced, and what a fold
computes is not a fact the provers can find by induction over a formula. `FoldProofs` states
once, for any operator and any property of its turns, that a property that holds before the
first turn and is kept by each holds after the last (`FoldKeeps`). It is instantiated once per loop (`ReadGroup`,
`DecodeValue`, `DecodeRelation`, the sizes, the registry). `Holds` says that a record has
given fields behind an offset, and `Placed` where the parts of a flattened sequence begin, so
that each turn is a lemma about one part. That a record lacking its end is refused is the
converse: a cursor that has not failed has moved over as many fields as it was asked for
(`Reads`, `Advanced`), and a shorter record has not so many.

The statements. `SqlInv` says of both `committed` and `work` that relations are numbered in
order under different names (`Numbered`), indexes are on INT or TEXT columns of tables
(`IndexesKeyed`), pages are apart, below the counter, and empty when not in use
(`PagesApart`), heap records are what `encode_row` makes of rows of the table's columns
(`RowsTyped`), and an index has exactly the entries of the rows with a key, except those
still in `todo` (`EntriesMatch`). `work` extends `committed` (`Extends`), from which `RowsKept`
follows at commit. `IndexAgreesWithScan` is not inductive because it speaks of the
committed state only, and of answers rather than entries: between two steps of CREATE INDEX
the index lacks entries, and the property holds because nobody can commit before `todo` is
empty. There is one lemma per kind of change (a relation, a heap page, a row or an index
entry more); each statement is one or two of them, and `Reopen` is `CatalogRoundTrip`.

`SqlTables` takes an index as the set of its entries. What it assumes of lookups, splits and
failed inserts is what `LookupsExact` and `ChainKept` prove of `BPlusTree`; there is no
refinement mapping between the two modules.

### The parser

From `ParserAssumption` (the words are strings), for every set of words and their
spellings and every `MaxTokens` and `MaxKeywords`:

| Theorem | Statement |
|---|---|
| `ParserInvariant` | the inductive invariant below |
| `ParserGrammar` | what is accepted is a whole sentence of the grammar, and an error means that no continuation of the input is one |
| `ParserWords` | the statement, written out again, is a prefix of the text that was parsed |

Neither property is inductive: both speak of the end of a parse. `ParserInv` says what the
parser knows at each of its places, in both directions. *Behind* it: the tokens consumed are
those of a sentence so far, and each part of the statement that is filled in is the word at
its place, for lists the i-th item at a place that is linear in i (`Behind`). *Ahead* of it: every form of the grammar that
the input may still have goes on, behind `offset`, with what this place of the parser looks
for (`Ahead`). An expected token that is missing then excludes every form, which is the
error half of `AcceptsTheGrammar`; after SELECT it is `peek_is_function_call` that tells the
two kinds of forms apart (`LookaheadTells`). When the end is accepted, what is behind is a
form of the grammar (`AcceptedForm`) and has the words of `Written` (`SaidSpelled`).

`Ahead` and `Behind` have a lemma per parse_ function that says what each token does to them,
as facts about sequences without the parser's state; `ConsumeStep`, `PassStep`, `RefuseStep`
and `ExpectStep` turn them into steps of the invariant, once for all 37 places. The lists of
the grammar and of `Written` are flattened sequences; `SingleList` and `PairList` say which
item stands at which place, by `UpTo` over the partial results of `FlattenSeq`. The
theorems are about the grammar as `Grammar` has it: all forms of up to `MaxTokens + 8`
places, for any `MaxTokens`.

### What is only model-checked

All liveness (`CallsReturn`, `StoreCallsReturn`, `ParserReturns`): the prover does not
treat fairness. Every safety invariant and action property of the passing runs is stated by
a theorem. The five violation runs are counterexamples, which is TLC's part.

## 5. What is not modelled

* The lexer: it makes tokens of characters, and the parser is checked for all sequences
  of tokens. Value formatting, the letters of texts (`lower`, `upper`) and the bytes inside
  a field. The encodings of index nodes and log records are represented by what can fail
  about them: does it fit, does it validate.
* `SqlSession::store_mut` lets a caller write rows past the SQL layer, without index
  entries; the models take statements as the only writers of SQL tables.
* Two processes on one database; nothing in the code prevents them, and the documents
  describe one writer in one process.
* That the additive checksum detects a torn write of an index or catalog page is assumed
  (for heap pages see `TornInsertsDetected`).
* `rdbms_core`, `rdbms_cli`, `rdbms_android`, the scripts under `tools` and the legacy
  prototype under `docs/legacy` have no behaviour of this kind.

## 6. Plan

Done, in this order: `Wal` and `TxStore` with their runs and unrestricted theorems;
`SlottedPage`; `BPlusTree`; `SqlTables`; `AtomicStore` and the refinement mapping; torn
pages; `PageFile` and `CatalogStore`; the codecs, `Extensions` and `SqlParser`; the fail-stop
theorems and the proof of the refinement; the theorems of `SlottedPage`, of `CatalogStore`,
of `BPlusTree`, of the codecs, of `SqlTables` and of `SqlParser`. Left: a refinement mapping
from `BPlusTree` to the index of `SqlTables`, in place of the remark at the end of the
subsection on the SQL executor in section 4.
