--------------------------- MODULE TxStoreProofs ---------------------------
(***************************************************************************)
(* Type correctness and the safety of commit and of recovery in TxStore,   *)
(* for every number of pages, transactions, sessions, crashes and faults,  *)
(* and however the caller behaves: ids used again, handles used after an   *)
(* error, stores opened without recovery, recovery from a log that is only *)
(* cached.                                                                 *)
(*                                                                         *)
(* First TypeOK: the inductive invariant is TypeOK together with TxAlive,  *)
(* proved part by part, one step per action.  Then StoreInv, from which    *)
(* the properties of commit and recovery follow.  Last, the store          *)
(* implements AtomicStore.                                                 *)
(***************************************************************************)
EXTENDS TxStoreRefinement, TLAPS, SequenceTheorems, FiniteSetTheorems, WellFoundedInduction

-----------------------------------------------------------------------------
(* The log. *)

\* WalWriter::append extends the log to the LSN it was given and leaves every
\* earlier record as it was.
LEMMA WriteAtFacts ==
    ASSUME NEW S, NEW log \in Seq(S), NEW lsn \in Nat, lsn > Len(log),
           NEW rec \in S, Garbage \in S
    PROVE  /\ WriteAt(log, lsn, rec) \in Seq(S)
           /\ Len(WriteAt(log, lsn, rec)) = lsn
           /\ WriteAt(log, lsn, rec)[lsn] = rec
           /\ \A k \in 1..Len(log) : WriteAt(log, lsn, rec)[k] = log[k]
<1> DEFINE w == WriteAt(log, lsn, rec)
<1>0. Len(log) \in Nat /\ \A k \in 1..Len(log) : log[k] \in S
  OBVIOUS
<1>1. w \in [1..lsn -> S]
  BY <1>0 DEF WriteAt
<1>2. w \in Seq(S) /\ Len(w) = lsn
  BY <1>1
<1>3. w[lsn] = rec /\ \A k \in 1..Len(log) : w[k] = log[k]
  BY <1>0 DEF WriteAt
<1> QED BY <1>2, <1>3

\* The records the program appends, and the page that follows an empty file.
LEMMA RecordFacts ==
    ASSUME NEW tx \in Nat, NEW by \in Nat, NEW p \in Pages,
           NEW image \in Image \cup {Blank}
    PROVE  /\ Garbage \in LogRecord
           /\ BeginTx(tx, by) \in LogRecord
           /\ CommitTx(tx, by) \in LogRecord
           /\ AbortTx(tx, by) \in LogRecord
           /\ PageImage(tx, p, image, by) \in LogRecord
  BY BoundsAssumption DEF LogRecord, Garbage, BeginTx, CommitTx, AbortTx, PageImage, Record,
       RecordKinds, Pages

LEMMA EmptyFacts == EmptyCatalog \in Image /\ NothingDirty \in [Pages -> Image \cup {Blank}]
                    /\ 0 \in Pages
  BY BoundsAssumption DEF EmptyCatalog, NothingDirty, Image, Pages

\* A power loss leaves a log of well-formed extents that is not longer than the
\* log was.
LEMMA SurvivingFacts ==
    ASSUME TypeOK, NEW w \in SurvivingLogs
    PROVE  w \in Seq(LogRecord)
<1>1. wal \in Seq(LogRecord) /\ walDurable \in 0..Len(wal) /\ Len(wal) \in Nat
  BY DEF TypeOK
<1>2. \A k \in 0..Len(wal) : SubSeq(wal, 1, k) \in Seq(LogRecord)
  BY <1>1
<1>3. Garbage \in LogRecord
  BY RecordFacts, EmptyFacts
<1>4. \A s \in Seq(LogRecord) : Append(s, Garbage) \in Seq(LogRecord)
  BY <1>3
<1>5. CASE \E k \in walDurable..Len(wal) : w = SubSeq(wal, 1, k)
  BY <1>5, <1>1, <1>2
<1>6. CASE \E k \in walDurable..(Len(wal) - 1) : w = Append(SubSeq(wal, 1, k), Garbage)
  <2>1. PICK k \in walDurable..(Len(wal) - 1) : w = Append(SubSeq(wal, 1, k), Garbage)
    BY <1>6
  <2>2. k \in 0..Len(wal)
    BY <1>1
  <2> QED BY <2>1, <2>2, <1>2, <1>4
<1> QED BY <1>5, <1>6 DEF SurvivingLogs

-----------------------------------------------------------------------------
(* Types. *)

\* While a transaction is alive, hist has an entry for it.
TxAlive == phase \in InTx => Len(hist) >= 1

\* TypeOK by the parts of the state that change together.
LogOK == /\ wal \in Seq(LogRecord)
         /\ walDurable \in 0..Len(wal)
         /\ nextLsn \in Nat /\ nextLsn > Len(wal)
         /\ redoPos \in 1..(Len(wal) + 1)
DataOK == data \in [Pages -> PageValue] /\ survive \in [Pages -> SUBSET PageValue]
StoreOK == /\ catalog \in Image
           /\ nextTx \in Nat \ {0}
           /\ activeWriter \in BOOLEAN /\ erred \in BOOLEAN
StagedOK == /\ work \in Image /\ dirty \in [Pages -> Image \cup {Blank}] /\ todo \subseteq Pages
            /\ spoiled \in BOOLEAN
HistOK == /\ hist \in Seq(HistEntry) /\ Len(hist) <= MaxTx
          /\ phase \in Phases
          /\ TxAlive
BoundsOK == sessions \in 0..MaxSessions /\ crashes \in 0..MaxCrashes /\ faults \in 0..MaxFaults

TypeInv == TypeOK /\ TxAlive

LEMMA TypeParts ==
    TypeInv <=> LogOK /\ DataOK /\ StoreOK /\ StagedOK /\ HistOK /\ BoundsOK
  BY DEF TypeInv, TypeOK, LogOK, DataOK, StoreOK, StagedOK, HistOK, BoundsOK

LEMMA TypePartsNext ==
    TypeInv' <=> LogOK' /\ DataOK' /\ StoreOK' /\ StagedOK' /\ HistOK' /\ BoundsOK'
  BY DEF TypeInv, TypeOK, LogOK, DataOK, StoreOK, StagedOK, HistOK, BoundsOK

\* What a step leaves alone keeps its type.
LEMMA TypeFrame ==
    /\ LogOK /\ UNCHANGED <<wal, walDurable, nextLsn, redoPos>> => LogOK'
    /\ DataOK /\ UNCHANGED <<data, survive>> => DataOK'
    /\ StoreOK /\ UNCHANGED <<catalog, nextTx, activeWriter, erred>> => StoreOK'
    /\ StagedOK /\ UNCHANGED <<work, dirty, todo, spoiled>> => StagedOK'
    /\ HistOK /\ UNCHANGED <<hist, phase>> => HistOK'
    /\ BoundsOK /\ UNCHANGED <<sessions, crashes, faults>> => BoundsOK'
  BY DEF LogOK, DataOK, StoreOK, StagedOK, HistOK, TxAlive, BoundsOK

LEMMA TypeInit == Init => TypeInv
  BY BoundsAssumption, EmptyFacts
  DEF Init, TypeInv, TypeOK, TxAlive, InTx, Committing, Closed, Phases, NothingDirty, PageValue

\* Both outcomes of an append keep the log well formed.
LEMMA AppendTypes ==
    ASSUME TypeOK, NEW rec \in LogRecord, NEW w,
           w \in {wal, WriteAt(wal, nextLsn, rec)}
    PROVE  /\ w \in Seq(LogRecord)
           /\ Len(w) >= Len(wal)
           /\ nextLsn + 1 > Len(w) /\ nextLsn + 1 \in Nat
           /\ walDurable \in 0..Len(w)
           /\ redoPos \in 1..(Len(w) + 1)
<1>1. wal \in Seq(LogRecord) /\ nextLsn \in Nat /\ nextLsn > Len(wal) /\ Garbage \in LogRecord
  BY RecordFacts, EmptyFacts DEF TypeOK
<1>2. w \in Seq(LogRecord) /\ Len(w) \in {Len(wal), nextLsn}
  BY <1>1, WriteAtFacts
<1>3. Len(wal) \in Nat
  BY <1>1
<1> QED BY <1>1, <1>2, <1>3 DEF TypeOK

\* Replacing the entry of the current transaction.
LEMMA HistTypes ==
    ASSUME TypeInv, phase \in InTx
    PROVE  /\ Current \in 1..Len(hist) /\ Current \in TxNumbers /\ TxId \in Nat
           /\ hist[Current].pages \in SUBSET Pages
           /\ \A e \in HistEntry : /\ [hist EXCEPT ![Current] = e] \in Seq(HistEntry)
                                    /\ Len([hist EXCEPT ![Current] = e]) = Len(hist)
           /\ \A o \in Outcomes : /\ WithOutcome(o) \in Seq(HistEntry)
                                   /\ Len(WithOutcome(o)) = Len(hist)
<1>1. hist \in Seq(HistEntry) /\ Len(hist) \in Nat /\ Len(hist) >= 1 /\ Len(hist) <= MaxTx
  BY DEF TypeInv, TypeOK, TxAlive
<1>2. Current \in 1..Len(hist)
  BY <1>1 DEF Current
<1>3. hist[Current] \in HistEntry
  BY <1>1, <1>2
<1>4. ASSUME NEW e \in HistEntry
      PROVE  [hist EXCEPT ![Current] = e] \in Seq(HistEntry)
             /\ Len([hist EXCEPT ![Current] = e]) = Len(hist)
  BY <1>1, <1>2
<1>5. TxId \in Nat /\ hist[Current].pages \in SUBSET Pages
  BY <1>3 DEF TxId, HistEntry
<1>6. Current \in TxNumbers
  BY <1>1, <1>2, BoundsAssumption DEF TxNumbers
<1>7. ASSUME NEW o \in Outcomes
      PROVE  [id |-> TxId, outcome |-> o, pages |-> hist[Current].pages] \in HistEntry
  BY <1>5 DEF HistEntry
<1> QED BY <1>2, <1>4, <1>5, <1>6, <1>7 DEF WithOutcome

\* A change made by a live transaction gives an image again.
LEMMA TouchTypes ==
    ASSUME TypeInv, phase \in InTx, NEW image \in Image
    PROVE  Touch(image) \in Image
<1>1. Current \in TxNumbers
  BY HistTypes
<1>2. image.next \in 0..(MaxPage + 1) /\ image.txs \in SUBSET TxNumbers
  BY DEF Image
<1>3. Touch(image) = [next |-> image.next, txs |-> image.txs \cup {Current}]
  BY DEF Touch, Image
<1> QED BY <1>1, <1>2, <1>3 DEF Image

\* Both outcomes of mark_catalog_dirty.
LEMMA MarkTypes ==
    ASSUME NEW c \in Image, NEW staged \in [Pages -> Image \cup {Blank}],
           spoiled \in BOOLEAN, MarkCatalogDirty(c, staged)
    PROVE  work' \in Image /\ dirty' \in [Pages -> Image \cup {Blank}] /\ spoiled' \in BOOLEAN
  BY EmptyFacts DEF MarkCatalogDirty

\* Staging changes nothing but what is staged.
LEMMA StagingSame ==
    ASSUME Staging
    PROVE  /\ phase = "active" /\ MayUseTx
           /\ UNCHANGED <<wal, walDurable, nextLsn, data, survive, catalog, nextTx, activeWriter>>
           /\ UNCHANGED <<todo, phase, redoPos, erred, hist, sessions, crashes, faults>>
<1> USE DEF MayUseTx, logVars, dataVars, storeVars, bounds
<1> DEFINE Same == /\ phase = "active" /\ MayUseTx
                   /\ UNCHANGED <<wal, walDurable, nextLsn, data, survive, catalog, nextTx, activeWriter>>
                   /\ UNCHANGED <<todo, phase, redoPos, erred, hist, sessions, crashes, faults>>
<1>1. CASE RegisterExtension \/ AllocatePage
  BY <1>1 DEF RegisterExtension, AllocatePage
<1>2. ASSUME NEW p \in Pages, InsertRow(p) \/ InsertIndexEntry(p) PROVE Same
  BY <1>2 DEF InsertRow, InsertIndexEntry
<1>3. ASSUME NEW p \in Pages, InsertRowFails(p) \/ InsertIndexEntryFails(p) PROVE Same
  BY <1>3 DEF InsertRowFails, InsertIndexEntryFails
<1> QED BY <1>1, <1>2, <1>3 DEF Staging

\* The pages and catalogs that staging starts, takes and changes.
LEMMA StagedTypes ==
    ASSUME TypeInv, phase = "active"
    PROVE  /\ NewPage \in Image
           /\ work.next <= MaxPage => NextPageTaken \in Image
           /\ Touch(work) \in Image
           /\ \A p \in Pages : Valid(LoadPage(p)) => Touch(LoadPage(p)) \in Image
<1>1. Current \in TxNumbers /\ phase \in InTx
  BY HistTypes DEF InTx
<1>2. work \in Image /\ work.next \in 0..(MaxPage + 1) /\ work.txs \in SUBSET TxNumbers
  BY DEF TypeInv, TypeOK, Image
<1>3. MaxPage \in Nat
  BY BoundsAssumption
<1>4. NewPage \in Image
  BY <1>1, <1>3 DEF NewPage, Image
<1>5. work.next <= MaxPage => NextPageTaken \in Image
  BY <1>1, <1>2, <1>3 DEF NextPageTaken, Image
<1> QED BY <1>1, <1>2, <1>4, <1>5, TouchTypes DEF Valid

\* The loops of commit take the least page that is left.
LEMMA LeastFacts ==
    ASSUME NEW S \in SUBSET Pages, S # {}
    PROVE  Least(S) \in S
<1> DEFINE R == OpToRel(<, Nat)
<1>1. S \subseteq Nat
  BY BoundsAssumption DEF Pages
<1>2. \E p \in S : \A q \in S : ~ (<<q, p>> \in R)
  <2> HIDE DEF R
  <2>1. IsWellFoundedOn(R, Nat)
    BY NatLessThanWellFounded DEF R
  <2> QED BY <2>1, <1>1, WFMin
<1>3. \A p, q \in Nat : ~ (<<q, p>> \in R) => p <= q
  BY DEF OpToRel
<1>4. \E p \in S : \A q \in S : p <= q
  BY <1>1, <1>2, <1>3
<1> QED BY <1>4 DEF Least

\* Appending a record, or failing to.
LEMMA AppendStepTypes ==
    ASSUME TypeOK,
           \/ \E rec \in LogRecord : Append_(rec)
           \/ AppendFails
    PROVE  /\ wal' \in Seq(LogRecord)
           /\ walDurable' \in 0..Len(wal')
           /\ nextLsn' \in Nat /\ nextLsn' > Len(wal')
           /\ redoPos \in 1..(Len(wal') + 1)
<1>1. Garbage \in LogRecord
  BY RecordFacts, EmptyFacts
<1>2. \E rec \in LogRecord : wal' \in {wal, WriteAt(wal, nextLsn, rec)}
  BY <1>1 DEF Append_, AppendFails
<1>3. nextLsn' = nextLsn + 1 /\ walDurable' = walDurable
  BY DEF Append_, AppendFails
<1> QED BY <1>2, <1>3, AppendTypes

\* Writing a page, or failing to.
LEMMA WriteStepTypes ==
    ASSUME TypeOK, NEW p \in Pages,
           \/ \E image \in Image \cup {Blank} : WritePageTo(p, image)
           \/ WritePageFails(p)
    PROVE  data' \in [Pages -> PageValue] /\ survive' \in [Pages -> SUBSET PageValue]
  BY SMTT(30) DEF TypeOK, WritePageTo, WritePageFails, PageValue

\* The end of a transaction.
LEMMA EndTxTypes ==
    ASSUME TypeInv, phase \in InTx, NEW o \in Outcomes, EndTx(o)
    PROVE  /\ phase' = "idle" /\ activeWriter' = FALSE
           /\ work' \in Image /\ dirty' \in [Pages -> Image \cup {Blank}] /\ todo' = {}
           /\ spoiled' = FALSE
           /\ hist' \in Seq(HistEntry) /\ Len(hist') <= MaxTx
  BY HistTypes, EmptyFacts DEF EndTx, TypeInv, TypeOK

\* The process ends.
LEMMA ForgetTypes ==
    ASSUME TypeInv, ForgetMemory
    PROVE  /\ catalog' \in Image /\ nextTx' \in Nat \ {0} /\ activeWriter' \in BOOLEAN
           /\ work' \in Image /\ dirty' \in [Pages -> Image \cup {Blank}] /\ todo' = {}
           /\ spoiled' = FALSE
           /\ redoPos' = 1 /\ erred' \in BOOLEAN
           /\ hist' \in Seq(HistEntry) /\ Len(hist') <= MaxTx
<1>1. hist' \in Seq(HistEntry) /\ Len(hist') <= MaxTx
  <2>1. CASE phase \in InTx \ {"write"}
    BY <2>1, HistTypes DEF ForgetMemory, TypeInv, TypeOK, Outcomes
  <2>2. CASE phase \notin InTx \ {"write"}
    BY <2>2 DEF ForgetMemory, TypeInv, TypeOK, HistEntry
  <2> QED BY <2>1, <2>2
<1> QED BY <1>1, EmptyFacts DEF ForgetMemory

\* Every step keeps the types.
LEMMA TypeStep == TypeInv /\ [Next]_vars => TypeInv'
<1> SUFFICES ASSUME TypeInv, [Next]_vars PROVE TypeInv'
  OBVIOUS
<1> USE DEF logVars, dataVars, storeVars, txVars, bounds
<1>0. /\ Len(wal) \in Nat /\ Len(hist) \in Nat /\ 0 \in Pages
     /\ EmptyCatalog \in Image /\ Garbage \in LogRecord
     /\ {MaxPage, MaxTx, MaxSessions, MaxCrashes, MaxFaults} \subseteq Nat
  BY BoundsAssumption, EmptyFacts, RecordFacts DEF TypeInv, TypeOK
<1>a. LogOK /\ DataOK /\ StoreOK /\ StagedOK /\ HistOK /\ BoundsOK /\ TypeOK
  BY TypeParts DEF TypeInv
<1>1. CASE RedoRecord
  <2>1. LogOK'
    BY <1>1, <1>a, <1>0 DEF LogOK, RedoRecord
  <2>2. DataOK'
    <3>1. CASE Redone(wal, redoPos)
      <4>1. wal[redoPos] \in LogRecord
        BY <1>1, <1>a DEF LogOK, RedoRecord
      <4> QED BY <4>1, <3>1, <1>1, <1>a, WriteStepTypes DEF RedoRecord, LogRecord, DataOK
    <3>2. CASE ~Redone(wal, redoPos)
      BY <3>2, <1>1, <1>a, TypeFrame DEF RedoRecord
    <3> QED BY <3>1, <3>2
  <2> QED BY <2>1, <2>2, <1>1, <1>a, TypeFrame, TypePartsNext DEF RedoRecord
<1>2. CASE RedoDone
  <2>1. LogOK'
    BY <1>2, <1>a, <1>0 DEF LogOK, RedoDone
  <2>2. DataOK'
    BY <1>2, <1>a DEF DataOK, RedoDone, SyncData
  <2>3. HistOK'
    BY <1>2, <1>a DEF RedoDone, HistOK, TxAlive, Phases, InTx, Committing, Closed
  <2> QED BY <2>1, <2>2, <2>3, <1>2, <1>a, TypeFrame, TypePartsNext DEF RedoDone
<1>3. CASE AppendImage
  <2>1. PageImage(TxId, Least(todo), dirty[Least(todo)], Current) \in LogRecord /\ StagedOK'
    <3>1. Least(todo) \in Pages
      BY <1>3, <1>a, LeastFacts DEF AppendImage, StagedOK
    <3>2. TxId \in Nat /\ Current \in Nat
      BY <1>3, <1>0, HistTypes DEF AppendImage, InTx, Committing, Current
    <3> QED BY <3>1, <3>2, <1>3, <1>a, RecordFacts DEF AppendImage, StagedOK
  <2>2. LogOK'
    BY <1>3, <2>1, <1>a, AppendStepTypes DEF AppendImage, LogOK
  <2> QED BY <2>1, <2>2, <1>3, <1>a, TypeFrame, TypePartsNext DEF AppendImage
<1>4. CASE AppendCommit
  <2>1. CommitTx(TxId, Current) \in LogRecord
    BY <1>4, <1>0, HistTypes, RecordFacts, EmptyFacts DEF AppendCommit, InTx, Committing, Current
  <2>2. LogOK'
    BY <1>4, <2>1, <1>a, AppendStepTypes DEF AppendCommit, LogOK
  <2>3. HistOK'
    BY <1>4, <1>a DEF AppendCommit, HistOK, TxAlive, Phases, InTx, Committing, Closed
  <2> QED BY <2>1, <2>2, <2>3, <1>4, <1>a, TypeFrame, TypePartsNext DEF AppendCommit
<1>5. CASE WalSync
  <2>1. LogOK'
    BY <1>5, <1>a, <1>0 DEF LogOK, WalSync
  <2>2. StagedOK'
    BY <1>5, <1>a DEF StagedOK, WalSync, DirtyPages
  <2>3. HistOK'
    BY <1>5, <1>a, HistTypes DEF WalSync, Outcomes, HistOK, TxAlive, Phases, InTx, Committing, Closed
  <2> QED BY <2>1, <2>2, <2>3, <1>5, <1>a, TypeFrame, TypePartsNext DEF WalSync
<1>6. CASE WritePage
  <2>1. DataOK' /\ StagedOK'
    <3>1. Least(todo) \in Pages
      BY <1>6, <1>a, LeastFacts DEF WritePage, StagedOK
    <3> QED BY <3>1, <1>6, <1>a, WriteStepTypes DEF WritePage, StagedOK, DataOK
  <2> QED BY <2>1, <1>6, <1>a, TypeFrame, TypePartsNext DEF WritePage
<1>7. CASE DataSync
  <2>1. DataOK'
    BY <1>7, <1>a DEF DataOK, DataSync, SyncData
  <2>2. StagedOK' /\ HistOK' /\ activeWriter' = FALSE
    BY <1>7, <1>a, <1>0, EndTxTypes DEF DataSync, Outcomes, StagedOK, HistOK, TxAlive, Phases, InTx, Committing, Closed
  <2>3. StoreOK'
    BY <1>7, <1>a, <2>2 DEF StoreOK, StagedOK, DataSync
  <2> QED BY <2>1, <2>2, <2>3, <1>7, <1>a, TypeFrame, TypePartsNext DEF DataSync
<1>8. CASE RollbackSync
  <2>1. LogOK'
    BY <1>8, <1>a, <1>0 DEF LogOK, RollbackSync
  <2>2. StagedOK' /\ HistOK' /\ activeWriter' = FALSE
    BY <1>8, <1>a, <1>0, EndTxTypes DEF RollbackSync, Outcomes, StagedOK, HistOK, TxAlive, Phases, InTx, Committing, Closed
  <2>3. StoreOK'
    BY <1>8, <1>a, <2>2 DEF StoreOK, RollbackSync
  <2> QED BY <2>1, <2>2, <2>3, <1>8, <1>a, TypeFrame, TypePartsNext DEF RollbackSync
<1>9. CASE OpenStore
  <2>1. LogOK'
    BY <1>9, <1>a, <1>0 DEF LogOK, OpenStore, StartSession
  <2>2. HistOK'
    BY <1>9, <1>a DEF OpenStore, StartSession, MayOpenStore, HistOK, TxAlive, Phases, InTx, Committing, Closed
  <2>3. BoundsOK'
    BY <1>9, <1>a, <1>0 DEF BoundsOK, OpenStore, StartSession, MayOpenStore
  <2>4. StoreOK'
    <3>1. catalog' \in Image /\ nextTx' \in Nat \ {0}
      BY <1>9, <1>0 DEF OpenStore, StartSession, Valid
    <3>2. activeWriter' = FALSE /\ erred' = erred
      BY <1>9 DEF OpenStore, StartSession
    <3> QED BY <3>1, <3>2, <1>a DEF StoreOK
  <2> QED BY <2>1, <2>2, <2>3, <2>4, <1>9, <1>a, TypeFrame, TypePartsNext DEF OpenStore, StartSession
<1>10. CASE BootstrapStore
  <2>1. LogOK'
    BY <1>10, <1>a, <1>0 DEF LogOK, BootstrapStore, StartSession
  <2>2. HistOK'
    BY <1>10, <1>a DEF BootstrapStore, StartSession, MayOpenStore, HistOK, TxAlive, Phases, InTx, Committing, Closed
  <2>3. BoundsOK'
    BY <1>10, <1>a, <1>0 DEF BoundsOK, BootstrapStore, StartSession, MayOpenStore
  <2>4. StoreOK'
    <3>1. catalog' \in Image /\ nextTx' \in Nat \ {0}
      BY <1>10, <1>0 DEF BootstrapStore, StartSession
    <3>2. activeWriter' = FALSE /\ erred' = erred
      BY <1>10 DEF BootstrapStore, StartSession
    <3> QED BY <3>1, <3>2, <1>a DEF StoreOK
  <2>5. DataOK'
    BY <1>10, <1>a, <1>0, WriteStepTypes DEF BootstrapStore, DataOK
  <2> QED BY <2>1, <2>2, <2>3, <2>4, <2>5, <1>10, <1>a, TypeFrame, TypePartsNext DEF BootstrapStore, StartSession
<1>11. CASE OpenDatabase
  <2>1. LogOK'
    BY <1>11, <1>a, <1>0 DEF LogOK, OpenDatabase
  <2>2. HistOK'
    BY <1>11, <1>a DEF OpenDatabase, HistOK, TxAlive, Phases, InTx, Committing, Closed
  <2> QED BY <2>1, <2>2, <1>11, <1>a, TypeFrame, TypePartsNext DEF OpenDatabase
<1>12. CASE Begin
  <2>1. BeginTx(nextTx, Len(hist) + 1) \in LogRecord
    BY <1>12, <1>a, <1>0, RecordFacts, EmptyFacts DEF StoreOK
  <2>2. [id |-> nextTx, outcome |-> "active", pages |-> {}] \in HistEntry
    BY <1>12, <1>a DEF StoreOK, Outcomes, HistEntry
  <2>3. LogOK'
    BY <1>12, <2>1, <1>a, AppendStepTypes DEF Begin, LogOK
  <2>4. hist' \in Seq(HistEntry) /\ Len(hist') = Len(hist) + 1
    BY <1>12, <2>2, <1>a DEF Begin, HistOK
  <2>5. HistOK'
    BY <1>12, <2>4, <1>a, <1>0 DEF Begin, BeginAllowed, HistOK, TxAlive, Phases, InTx, Committing, Closed
  <2>6. StagedOK'
    BY <1>12, <1>a, EmptyFacts DEF Begin, StagedOK, StoreOK
  <2>7. StoreOK'
    BY <1>12, <1>a DEF Begin, BeginAllowed, StoreOK
  <2> QED BY <2>1, <2>2, <2>3, <2>4, <2>5, <2>6, <2>7, <1>12, <1>a, TypeFrame, TypePartsNext DEF Begin
<1>13. CASE Commit
  <2>1. [id |-> TxId, outcome |-> "active", pages |-> DirtyPages] \in HistEntry
    BY <1>13, HistTypes DEF Commit, MayUseTx, DirtyPages, Outcomes, InTx, HistEntry
  <2>2. HistOK'
    BY <1>13, <2>1, <1>a, HistTypes DEF Commit, MayUseTx, HistOK, TxAlive, Phases, InTx, Committing, Closed
  <2>3. StagedOK'
    BY <1>13, <1>a DEF StagedOK, Commit, MayUseTx, DirtyPages
  <2>4. StoreOK'
    BY <1>13, <1>a DEF StoreOK, StagedOK, Commit
  <2> QED BY <2>1, <2>2, <2>3, <2>4, <1>13, <1>a, TypeFrame, TypePartsNext DEF Commit
<1>14. CASE Rollback
  <2>1. AbortTx(TxId, Current) \in LogRecord
    BY <1>14, <1>0, HistTypes, RecordFacts, EmptyFacts DEF Rollback, InTx, Current
  <2>2. LogOK'
    BY <1>14, <2>1, <1>a, AppendStepTypes DEF Rollback, LogOK
  <2>3. HistOK'
    BY <1>14, <1>a DEF Rollback, HistOK, TxAlive, Phases, InTx, Committing, Closed
  <2> QED BY <2>1, <2>2, <2>3, <1>14, <1>a, TypeFrame, TypePartsNext DEF Rollback
<1>15. CASE DropTx
  <2>1. StagedOK' /\ HistOK' /\ activeWriter' = FALSE
    BY <1>15, <1>a, <1>0, EndTxTypes DEF DropTx, Outcomes, StagedOK, HistOK, TxAlive, Phases, InTx, Committing, Closed
  <2>2. StoreOK'
    BY <1>15, <1>a, <2>1 DEF StoreOK, DropTx
  <2> QED BY <2>1, <2>2, <1>15, <1>a, TypeFrame, TypePartsNext DEF DropTx
<1>16. CASE SyncStore
  <2>1. LogOK'
    BY <1>16, <1>a, <1>0 DEF LogOK, SyncStore
  <2>2. DataOK'
    BY <1>16, <1>a DEF DataOK, SyncStore, SyncData
  <2> QED BY <2>1, <2>2, <1>16, <1>a, TypeFrame, TypePartsNext DEF SyncStore
<1>17. CASE Staging
  <2>1. phase = "active" /\ TypeInv /\ dirty \in [Pages -> Image \cup {Blank}] /\ work \in Image
    BY <1>17, <1>a, StagingSame DEF StagedOK
  <2>2. StagedOK'
    <3>1. CASE RegisterExtension
      BY <3>1, <2>1, <1>a, MarkTypes, StagedTypes DEF RegisterExtension, StagedOK
    <3>2. CASE AllocatePage
      <4>1. [dirty EXCEPT ![work.next] = NewPage] \in [Pages -> Image \cup {Blank}]
            /\ NextPageTaken \in Image
        BY <3>2, <2>1, StagedTypes DEF AllocatePage
      <4> QED BY <3>2, <4>1, <1>a, MarkTypes DEF AllocatePage, StagedOK
    <3>3. ASSUME NEW p \in Pages, InsertRow(p) \/ InsertRowFails(p) PROVE StagedOK'
      BY <3>3, <2>1, <1>a, StagedTypes DEF InsertRow, InsertRowFails, StagedOK
    <3>4. ASSUME NEW p \in Pages, InsertIndexEntry(p) PROVE StagedOK'
      <4>1. Touch(work) \in Image
            /\ [dirty EXCEPT ![p] = Touch(LoadPage(p))] \in [Pages -> Image \cup {Blank}]
        BY <3>4, <2>1, StagedTypes DEF InsertIndexEntry
      <4> QED BY <3>4, <4>1, <1>a, MarkTypes DEF InsertIndexEntry, StagedOK
    <3>5. ASSUME NEW p \in Pages, InsertIndexEntryFails(p) PROVE StagedOK'
      <4> DEFINE left == [dirty EXCEPT ![p] = Touch(LoadPage(p))]
      <4>1. left \in [Pages -> Image \cup {Blank}] /\ NextPageTaken \in Image /\ NewPage \in Image
        BY <3>5, <2>1, StagedTypes DEF InsertIndexEntryFails
      <4>2. work' = NextPageTaken /\ spoiled' = TRUE /\ todo' = todo
            /\ dirty' \in {dirty, left, [left EXCEPT ![work.next] = NewPage]}
        BY <3>5 DEF InsertIndexEntryFails
      <4> HIDE DEF left
      <4> QED BY <4>1, <4>2, <2>1, <1>a DEF StagedOK
    <3> QED BY <1>17, <3>1, <3>2, <3>3, <3>4, <3>5 DEF Staging
  <2> QED BY <2>2, <1>17, <1>a, StagingSame, TypeFrame, TypePartsNext
<1>21. CASE BootstrapFails
  <2>1. DataOK'
    BY <1>21, <1>a, <1>0, WriteStepTypes DEF BootstrapFails, DataOK
  <2>2. HistOK'
    BY <1>21, <1>a DEF BootstrapFails, HistOK, TxAlive, Phases, InTx, Committing, Closed
  <2>3. BoundsOK'
    BY <1>21, <1>a, <1>0 DEF BoundsOK, BootstrapFails, WritePageFails
  <2> QED BY <2>1, <2>2, <2>3, <1>21, <1>a, TypeFrame, TypePartsNext DEF BootstrapFails
<1>22. CASE RedoFails
  <2>1. LogOK'
    BY <1>22, <1>a, <1>0 DEF LogOK, RedoFails
  <2>2. DataOK'
    <3>1. CASE UNCHANGED dataVars
      BY <3>1, <1>a, TypeFrame
    <3>2. CASE redoPos <= Len(wal) /\ WritePageFails(wal[redoPos].page)
      <4>1. wal[redoPos] \in LogRecord
        BY <3>2, <1>a DEF LogOK
      <4> QED BY <4>1, <3>2, <1>a, WriteStepTypes DEF LogRecord, DataOK
    <3> QED BY <3>1, <3>2, <1>22 DEF RedoFails
  <2>3. HistOK'
    BY <1>22, <1>a DEF RedoFails, HistOK, TxAlive, Phases, InTx, Committing, Closed
  <2>4. BoundsOK'
    BY <1>22, <1>a, <1>0 DEF BoundsOK, RedoFails, WritePageFails, SyncFails
  <2> QED BY <2>1, <2>2, <2>3, <2>4, <1>22, <1>a, TypeFrame, TypePartsNext DEF RedoFails
<1>23. CASE BeginFails
  <2>1. LogOK'
    BY <1>23, <1>a, AppendStepTypes DEF BeginFails, LogOK
  <2>2. StoreOK'
    <3>1. catalog' \in Image /\ nextTx' \in Nat \ {0}
      BY <1>23, <1>a DEF StoreOK, BeginFails, BeginAllowed
    <3>2. activeWriter' = FALSE /\ erred' = TRUE
      BY <1>23 DEF BeginFails
    <3> QED BY <3>1, <3>2 DEF StoreOK
  <2>3. BoundsOK'
    BY <1>23, <1>a, <1>0 DEF BoundsOK, BeginFails, AppendFails
  <2> QED BY <2>1, <2>2, <2>3, <1>23, <1>a, TypeFrame, TypePartsNext DEF BeginFails, AppendFails
<1>24. CASE CommitFails
  <2>1. (IF phase = "write" THEN "logged" ELSE "failed") \in Outcomes /\ phase \in InTx
    BY <1>24 DEF Outcomes, CommitFails, InTx, Committing
  <2>2. StagedOK' /\ HistOK' /\ activeWriter' = FALSE
    BY <1>24, <2>1, <1>a, EndTxTypes DEF CommitFails, StagedOK, HistOK, TxAlive, Phases, InTx, Committing, Closed
  <2>3. StoreOK'
    BY <1>24, <1>a, <2>2 DEF StoreOK, CommitFails
  <2>4. LogOK'
    <3>1. CASE AppendFails
      BY <3>1, <1>24, <1>a, AppendStepTypes DEF CommitFails, LogOK
    <3>2. CASE UNCHANGED logVars
      BY <3>2, <1>24, <1>a, TypeFrame DEF CommitFails
    <3> QED BY <3>1, <3>2, <1>24 DEF CommitFails
  <2>5. DataOK'
    <3>1. CASE UNCHANGED dataVars
      BY <3>1, <1>a, TypeFrame
    <3>2. CASE todo # {} /\ WritePageFails(Least(todo))
      BY <3>2, <1>a, LeastFacts, WriteStepTypes DEF StagedOK, DataOK
    <3> QED BY <3>1, <3>2, <1>24 DEF CommitFails
  <2>6. BoundsOK'
    BY <1>24, <1>a, <1>0 DEF BoundsOK, CommitFails, AppendFails, WritePageFails, SyncFails
  <2> QED BY <2>1, <2>2, <2>3, <2>4, <2>5, <2>6, <1>24, <1>a, TypeFrame, TypePartsNext DEF CommitFails, AppendFails, EndTx
<1>25. CASE RollbackFails
  <2>1. StagedOK' /\ HistOK' /\ activeWriter' = FALSE
    BY <1>25, <1>a, EndTxTypes DEF RollbackFails, Outcomes, StagedOK, HistOK, TxAlive, Phases, InTx, Committing, Closed
  <2>2. StoreOK'
    BY <1>25, <1>a, <2>1 DEF StoreOK, RollbackFails
  <2>3. LogOK'
    <3>1. CASE AppendFails
      BY <3>1, <1>25, <1>a, AppendStepTypes DEF RollbackFails, LogOK
    <3>2. CASE UNCHANGED logVars
      BY <3>2, <1>25, <1>a, TypeFrame DEF RollbackFails
    <3> QED BY <3>1, <3>2, <1>25 DEF RollbackFails
  <2>4. BoundsOK'
    BY <1>25, <1>a, <1>0 DEF BoundsOK, RollbackFails, AppendFails, SyncFails
  <2> QED BY <2>1, <2>2, <2>3, <2>4, <1>25, <1>a, TypeFrame, TypePartsNext DEF RollbackFails
<1>26. CASE SyncStoreFails
  <2>1. DataOK'
    BY <1>26, <1>a DEF DataOK, SyncStoreFails, SyncData
  <2>2. StoreOK'
    BY <1>26, <1>a DEF StoreOK, SyncStoreFails
  <2>3. BoundsOK'
    BY <1>26, <1>a, <1>0 DEF BoundsOK, SyncStoreFails, SyncFails
  <2> QED BY <2>1, <2>2, <2>3, <1>26, <1>a, TypeFrame, TypePartsNext DEF SyncStoreFails
<1>27. CASE Exit
  <2>1. LogOK'
    BY <1>27, <1>a, <1>0, ForgetTypes DEF LogOK, Exit
  <2>2. StoreOK' /\ StagedOK'
    BY <1>27, ForgetTypes DEF Exit, StoreOK, StagedOK
  <2>3. HistOK'
    BY <1>27, <1>a, ForgetTypes DEF Exit, HistOK, TxAlive, Phases, InTx, Committing, Closed
  <2> QED BY <2>1, <2>2, <2>3, <1>27, <1>a, TypeFrame, TypePartsNext DEF Exit
<1>28. CASE Writeback
  <2>1. LogOK'
    BY <1>28, <1>a, <1>0 DEF LogOK, Writeback
  <2> QED BY <2>1, <1>28, <1>a, TypeFrame, TypePartsNext DEF Writeback
<1>29. CASE PowerLoss
  <2>1. wal' \in Seq(LogRecord) /\ Len(wal') \in Nat
    BY <1>29, <1>a, SurvivingFacts DEF PowerLoss
  <2>2. LogOK'
    BY <1>29, <2>1, ForgetTypes DEF LogOK, PowerLoss
  <2>3. DataOK'
    BY <1>29, <1>a DEF DataOK, PowerLoss
  <2>4. StoreOK' /\ StagedOK'
    BY <1>29, ForgetTypes DEF PowerLoss, StoreOK, StagedOK
  <2>5. HistOK'
    BY <1>29, <1>a, ForgetTypes DEF PowerLoss, HistOK, TxAlive, Phases, InTx, Committing, Closed
  <2>6. BoundsOK'
    BY <1>29, <1>a, <1>0 DEF BoundsOK, PowerLoss
  <2> QED BY <2>1, <2>2, <2>3, <2>4, <2>5, <2>6, <1>29, <1>a, TypeFrame, TypePartsNext DEF PowerLoss
<1>30. CASE UNCHANGED vars
  BY <1>30, <1>a, TypeFrame, TypePartsNext DEF vars
<1> QED
  BY <1>1, <1>2, <1>3, <1>4, <1>5, <1>6, <1>7, <1>8, <1>9, <1>10, <1>11, <1>12, <1>13, <1>14, <1>15, 
     <1>16, <1>17, <1>21, <1>22, <1>23, <1>24, <1>25, <1>26, <1>27, <1>28, <1>29, <1>30
  DEF Next, Step, Call, Failure

\* TypeOK is an invariant of the store: every value stays in its range however
\* the caller, the disk and the power supply behave.
THEOREM TypeCorrect == Spec => []TypeOK
<1>1. Spec => []TypeInv
  BY TypeInit, TypeStep, PTL DEF Spec
<1>2. TypeInv => TypeOK
  BY DEF TypeInv
<1> QED BY <1>1, <1>2, PTL

-----------------------------------------------------------------------------
(***************************************************************************)
(* Commit and recovery.                                                    *)
(***************************************************************************)

\* How far commit has come, phase by phase.
CommitProgress ==
    /\ phase = "images" =>
          \A p \in DirtyPages \ todo :
              \E k \in 1..Len(wal) : wal[k] = PageImage(TxId, p, dirty[p], Current)
    /\ phase = "walSync" => Logged(Len(wal))
    /\ phase = "write" => Logged(walDurable)

\* The pages commit has written are in the data file, and hist knows its pages.
WriteProgress ==
    /\ phase \in Committing => hist[Current].pages = DirtyPages
    /\ phase = "write" => \A p \in DirtyPages \ todo : data[p] = dirty[p]

\* The redo pass has installed, for every page, the last image it has met.
RedoProgress ==
    phase = "redo" =>
        \A p \in Pages :
            \/ \A k \in RedoneOn(wal, p) : k >= redoPos
            \/ \E k \in RedoneOn(wal, p) :
                  /\ k < redoPos
                  /\ \A j \in RedoneOn(wal, p) : j < redoPos => j <= k
                  /\ data[p] = wal[k].image

StoreInv ==
    /\ TypeInv
    /\ CommitProgress
    /\ WriteProgress
    /\ RedoProgress
    /\ RecoveryIsComplete
    /\ WriterFlagMatches

-----------------------------------------------------------------------------
(* Which steps lead where. *)

\* The steps after which a commit is still in progress.
LEMMA CommittingSteps ==
    ASSUME [Next]_vars, phase' \in Committing
    PROVE  \/ Commit \/ AppendImage \/ AppendCommit \/ WalSync \/ WritePage
           \/ Writeback \/ UNCHANGED vars
<1> USE DEF Committing, Closed, InTx
<1>1. CASE RedoRecord \/ RedoDone \/ DataSync \/ RollbackSync
  BY <1>1 DEF RedoRecord, RedoDone, DataSync, RollbackSync, EndTx
<1>2. CASE OpenStore \/ BootstrapStore \/ OpenDatabase
  BY <1>2 DEF OpenStore, BootstrapStore, StartSession, OpenDatabase
<1>3. CASE Begin \/ Rollback \/ DropTx \/ SyncStore
  BY <1>3 DEF Begin, Rollback, DropTx, SyncStore, EndTx
<1>4. CASE Staging
  BY <1>4, StagingSame
<1>5. CASE BootstrapFails \/ RedoFails \/ BeginFails
  BY <1>5 DEF BootstrapFails, RedoFails, BeginFails, BeginAllowed
<1>6. CASE CommitFails \/ RollbackFails \/ SyncStoreFails
  BY <1>6 DEF CommitFails, RollbackFails, SyncStoreFails, EndTx
<1>7. CASE Exit \/ PowerLoss
  BY <1>7 DEF Exit, PowerLoss
<1> QED BY <1>1, <1>2, <1>3, <1>4, <1>5, <1>6, <1>7 DEF Next, Step, Call, Failure

\* The steps after which recovery is in progress or has just returned.
LEMMA RecoverySteps ==
    ASSUME [Next]_vars, phase' \in {"redo", "recovered"}
    PROVE  \/ OpenDatabase \/ RedoRecord \/ RedoDone \/ Writeback \/ UNCHANGED vars
<1> USE DEF Committing, Closed, InTx
<1>1. CASE AppendImage \/ AppendCommit \/ WalSync \/ WritePage \/ DataSync \/ RollbackSync
  BY <1>1 DEF AppendImage, AppendCommit, WalSync, WritePage, DataSync, RollbackSync, EndTx
<1>2. CASE OpenStore \/ BootstrapStore
  BY <1>2 DEF OpenStore, BootstrapStore, StartSession
<1>3. CASE Begin \/ Commit \/ Rollback \/ DropTx \/ SyncStore
  BY <1>3 DEF Begin, Commit, Rollback, DropTx, SyncStore, EndTx
<1>4. CASE Staging
  BY <1>4, StagingSame
<1>5. CASE BootstrapFails \/ RedoFails \/ BeginFails
  BY <1>5 DEF BootstrapFails, RedoFails, BeginFails, BeginAllowed
<1>6. CASE CommitFails \/ RollbackFails \/ SyncStoreFails
  BY <1>6 DEF CommitFails, RollbackFails, SyncStoreFails, EndTx
<1>7. CASE Exit \/ PowerLoss
  BY <1>7 DEF Exit, PowerLoss
<1> QED BY <1>1, <1>2, <1>3, <1>4, <1>5, <1>6, <1>7 DEF Next, Step, Call, Failure

\* An append adds one record and leaves the others where they are.
LEMMA AppendKeeps ==
    ASSUME TypeOK, NEW rec \in LogRecord, Append_(rec)
    PROVE  /\ Len(wal') = nextLsn /\ nextLsn \in Nat /\ Len(wal) \in Nat
           /\ nextLsn > Len(wal)
           /\ wal'[nextLsn] = rec
           /\ \A k \in 1..Len(wal) : wal'[k] = wal[k]
           /\ walDurable' = walDurable
<1>1. Garbage \in LogRecord
  BY RecordFacts, EmptyFacts
<1>2. wal \in Seq(LogRecord) /\ nextLsn \in Nat /\ nextLsn > Len(wal)
  BY DEF TypeOK
<1>3. /\ Len(WriteAt(wal, nextLsn, rec)) = nextLsn
      /\ WriteAt(wal, nextLsn, rec)[nextLsn] = rec
      /\ \A k \in 1..Len(wal) : WriteAt(wal, nextLsn, rec)[k] = wal[k]
  BY <1>1, <1>2, WriteAtFacts
<1> QED BY <1>2, <1>3 DEF Append_

-----------------------------------------------------------------------------
(* Commit. *)

LEMMA CommitStep ==
    ASSUME TypeInv, CommitProgress, [Next]_vars
    PROVE  CommitProgress'
<1> SUFFICES ASSUME phase' \in Committing PROVE CommitProgress'
  BY DEF CommitProgress, Committing
<1> USE DEF logVars, dataVars, storeVars, txVars, bounds
<1>a. TypeOK /\ Len(wal) \in Nat /\ walDurable \in 0..Len(wal) /\ todo \in SUBSET Pages
  BY DEF TypeInv, TypeOK
<1>1. CASE Commit
  <2>1. phase' = "images" /\ todo' = DirtyPages /\ dirty' = dirty
    BY <1>1 DEF Commit, MayUseTx
  <2> QED BY <2>1 DEF CommitProgress, DirtyPages
<1>2. CASE AppendImage
  <2> DEFINE q == Least(todo)
             rec == PageImage(TxId, q, dirty[q], Current)
  <2>1. q \in todo /\ q \in Pages
    BY <1>2, <1>a, LeastFacts DEF AppendImage
  <2>2. rec \in LogRecord
    <3>1. TxId \in Nat /\ Current \in Nat
      BY <1>2, HistTypes DEF AppendImage, InTx, Committing, Current
    <3> QED BY <3>1, <2>1, RecordFacts DEF TypeInv, TypeOK
  <2>3. Append_(rec) /\ todo' = todo \ {q} /\ phase = "images" /\ phase' = "images"
        /\ dirty' = dirty /\ hist' = hist
    BY <1>2 DEF AppendImage
  <2> HIDE DEF rec
  <2>4. /\ Len(wal') = nextLsn /\ nextLsn \in Nat /\ nextLsn > Len(wal)
        /\ wal'[nextLsn] = rec /\ \A k \in 1..Len(wal) : wal'[k] = wal[k]
    BY <2>2, <2>3, <1>a, AppendKeeps
  <2>5. ASSUME NEW p \in DirtyPages \ todo'
        PROVE  \E k \in 1..Len(wal') : wal'[k] = PageImage(TxId, p, dirty[p], Current)
    <3>1. CASE p = q
      BY <3>1, <2>4, <1>a DEF rec
    <3>2. CASE p # q
      <4>1. p \in DirtyPages \ todo
        BY <3>2, <2>3
      <4>2. PICK k \in 1..Len(wal) : wal[k] = PageImage(TxId, p, dirty[p], Current)
        BY <4>1, <2>3 DEF CommitProgress
      <4> QED BY <4>2, <2>4, <1>a
    <3> QED BY <3>1, <3>2
  <2> QED BY <2>3, <2>5 DEF CommitProgress, DirtyPages, TxId, Current
<1>3. CASE AppendCommit
  <2> DEFINE rec == CommitTx(TxId, Current)
  <2>1. rec \in LogRecord
    <3>1. TxId \in Nat /\ Current \in Nat
      BY <1>3, HistTypes DEF AppendCommit, InTx, Committing, Current
    <3> QED BY <3>1, RecordFacts, EmptyFacts
  <2>2. Append_(rec) /\ phase = "images" /\ todo = {} /\ phase' = "walSync"
        /\ dirty' = dirty /\ hist' = hist
    BY <1>3 DEF AppendCommit
  <2> HIDE DEF rec
  <2>3. /\ Len(wal') = nextLsn /\ nextLsn \in Nat /\ nextLsn > Len(wal)
        /\ wal'[nextLsn] = rec /\ \A k \in 1..Len(wal) : wal'[k] = wal[k]
    BY <2>1, <2>2, <1>a, AppendKeeps
  <2>4. \A p \in DirtyPages :
           \E k \in 1..(nextLsn - 1) : wal'[k] = PageImage(TxId, p, dirty[p], Current)
    BY <2>2, <2>3, <1>a DEF CommitProgress
  <2>5. nextLsn \in 1..Len(wal')
    BY <2>3, <1>a
  <2>6. Logged(Len(wal))'
    BY <2>2, <2>3, <2>4, <2>5 DEF Logged, DirtyPages, TxId, Current, rec
  <2> QED BY <2>2, <2>6 DEF CommitProgress
<1>4. CASE WalSync
  <2>1. phase = "walSync" /\ phase' = "write" /\ walDurable' = Len(wal)
        /\ wal' = wal /\ dirty' = dirty
    BY <1>4 DEF WalSync
  <2>2. Len(hist') = Len(hist) /\ hist'[Len(hist)].id = hist[Len(hist)].id
    <3>1. Current \in 1..Len(hist) /\ Len(WithOutcome("logged")) = Len(hist)
      BY <2>1, HistTypes DEF InTx, Committing, Outcomes
    <3>2. hist \in Seq(HistEntry)
      BY DEF TypeInv, TypeOK
    <3> QED BY <3>1, <3>2, <1>4 DEF WalSync, WithOutcome, TxId, Current
  <2>3. Logged(Len(wal))
    BY <2>1 DEF CommitProgress
  <2>4. Logged(walDurable)'
    BY <2>1, <2>2, <2>3 DEF Logged, DirtyPages, TxId, Current
  <2> QED BY <2>1, <2>4 DEF CommitProgress
<1>5. CASE WritePage
  BY <1>5 DEF WritePage, CommitProgress, Logged, DirtyPages, TxId, Current
<1>6. CASE Writeback
  <2>1. wal' = wal /\ phase' = phase /\ dirty' = dirty /\ todo' = todo /\ hist' = hist
        /\ walDurable' = Len(wal) /\ walDurable < Len(wal)
    BY <1>6 DEF Writeback
  <2>2. phase = "write" => Logged(Len(wal))
    BY <2>1, <1>a DEF CommitProgress, Logged
  <2> QED BY <2>1, <2>2 DEF CommitProgress, Logged, DirtyPages, TxId, Current
<1>7. CASE UNCHANGED vars
  BY <1>7 DEF vars, CommitProgress, Logged, DirtyPages, TxId, Current
<1> QED BY <1>1, <1>2, <1>3, <1>4, <1>5, <1>6, <1>7, CommittingSteps

LEMMA WriteStep ==
    ASSUME TypeInv, WriteProgress, [Next]_vars
    PROVE  WriteProgress'
<1> SUFFICES ASSUME phase' \in Committing PROVE WriteProgress'
  BY DEF WriteProgress, Committing
<1> USE DEF logVars, dataVars, storeVars, txVars, bounds
<1>a. TypeOK /\ todo \in SUBSET Pages /\ data \in [Pages -> PageValue] /\ hist \in Seq(HistEntry)
  BY DEF TypeInv, TypeOK
<1>1. CASE Commit
  <2>1. phase' = "images" /\ dirty' = dirty
    BY <1>1 DEF Commit, MayUseTx
  <2>2. Current \in 1..Len(hist)
    BY <1>1, HistTypes DEF Commit, MayUseTx, InTx
  <2>3. Len(hist') = Len(hist) /\ hist'[Current].pages = DirtyPages
    BY <1>1, <1>a, <2>2 DEF Commit, MayUseTx
  <2> QED BY <2>1, <2>3 DEF WriteProgress, DirtyPages, Current
<1>2. CASE AppendImage \/ AppendCommit
  BY <1>2 DEF AppendImage, AppendCommit, WriteProgress, DirtyPages, Current, Committing
<1>3. CASE WalSync
  <2>1. phase = "walSync" /\ dirty' = dirty /\ todo' = DirtyPages
    BY <1>3 DEF WalSync
  <2>2. Current \in 1..Len(hist)
    BY <2>1, HistTypes DEF InTx, Committing
  <2>3. Len(hist') = Len(hist) /\ hist'[Current].pages = hist[Current].pages
    BY <1>3, <1>a, <2>2 DEF WalSync, WithOutcome
  <2> QED BY <2>1, <2>3 DEF WriteProgress, DirtyPages, Current, Committing
<1>4. CASE WritePage
  <2>1. /\ Least(todo) \in todo /\ Least(todo) \in Pages
        /\ data' = [data EXCEPT ![Least(todo)] = dirty[Least(todo)]]
        /\ todo' = todo \ {Least(todo)}
        /\ phase = "write" /\ phase' = phase /\ dirty' = dirty /\ hist' = hist
    BY <1>4, <1>a, LeastFacts DEF WritePage, WritePageTo
  <2> QED BY <2>1, <1>a DEF WriteProgress, DirtyPages, Current, Committing
<1>5. CASE Writeback \/ UNCHANGED vars
  BY <1>5 DEF Writeback, vars, WriteProgress, DirtyPages, Current, Committing
<1> QED BY <1>1, <1>2, <1>3, <1>4, <1>5, CommittingSteps

-----------------------------------------------------------------------------
(* Recovery. *)

LEMMA RedoStep ==
    ASSUME TypeInv, RedoProgress, RecoveryIsComplete, [Next]_vars
    PROVE  RedoProgress' /\ RecoveryIsComplete'
<1> SUFFICES ASSUME phase' \in {"redo", "recovered"}
             PROVE  RedoProgress' /\ RecoveryIsComplete'
  BY DEF RedoProgress, RecoveryIsComplete
<1> USE DEF logVars, dataVars, storeVars, txVars, bounds
<1>a. /\ wal \in Seq(LogRecord) /\ redoPos \in 1..(Len(wal) + 1) /\ Len(wal) \in Nat
      /\ data \in [Pages -> PageValue] /\ DOMAIN wal = 1..Len(wal)
  BY DEF TypeInv, TypeOK
<1>b. \A p \in Pages : RedoneOn(wal, p) \subseteq 1..Len(wal)
  BY <1>a DEF RedoneOn
<1>1. CASE OpenDatabase
  <2>1. phase' \in {"redo", "refused"} /\ redoPos' = 1 /\ wal' = wal /\ data' = data
    BY <1>1 DEF OpenDatabase
  <2>2. \A p \in Pages : \A k \in RedoneOn(wal, p) : k >= 1
    BY <1>b, <1>a
  <2> QED BY <2>1, <2>2 DEF RedoProgress, RecoveryIsComplete
<1>2. CASE RedoRecord
  <2>1. /\ phase = "redo" /\ phase' = "redo" /\ wal' = wal
        /\ redoPos' = redoPos + 1 /\ redoPos \in 1..Len(wal)
    BY <1>2, <1>a DEF RedoRecord
  <2>2. SUFFICES ASSUME NEW p \in Pages
                 PROVE  \/ \A k \in RedoneOn(wal, p) : k >= redoPos + 1
                        \/ \E k \in RedoneOn(wal, p) :
                              /\ k < redoPos + 1
                              /\ \A j \in RedoneOn(wal, p) : j < redoPos + 1 => j <= k
                              /\ data'[p] = wal[k].image
    BY <2>1 DEF RedoProgress, RecoveryIsComplete
  <2>3. wal[redoPos] \in LogRecord
    BY <2>1, <1>a
  <2>4. CASE redoPos \in RedoneOn(wal, p)
    <3>1. data'[p] = wal[redoPos].image
      BY <2>4, <1>2, <1>a DEF RedoneOn, RedoRecord, WritePageTo
    <3>2. \A j \in RedoneOn(wal, p) : j < redoPos + 1 => j <= redoPos
      BY <1>b, <2>1, <1>a
    <3> QED BY <3>1, <3>2, <2>4, <2>1
  <2>5. CASE redoPos \notin RedoneOn(wal, p)
    <3>1. data'[p] = data[p]
      <4>1. CASE Redone(wal, redoPos)
        <5>1. wal[redoPos].page # p
          BY <4>1, <2>5, <2>1, <1>a DEF RedoneOn
        <5>2. wal[redoPos].page \in Pages
          BY <2>3 DEF LogRecord
        <5> QED BY <4>1, <5>1, <5>2, <1>2, <1>a DEF RedoRecord, WritePageTo
      <4>2. CASE ~Redone(wal, redoPos)
        BY <4>2, <1>2 DEF RedoRecord
      <4> QED BY <4>1, <4>2
    <3>2. \A k \in RedoneOn(wal, p) : k \in Nat /\ k # redoPos
      BY <2>5, <1>b, <1>a
    <3>3. \/ \A k \in RedoneOn(wal, p) : k >= redoPos
          \/ \E k \in RedoneOn(wal, p) :
                /\ k < redoPos
                /\ \A j \in RedoneOn(wal, p) : j < redoPos => j <= k
                /\ data[p] = wal[k].image
      BY <2>1 DEF RedoProgress
    <3> QED BY <3>1, <3>2, <3>3, <2>1
  <2> QED BY <2>4, <2>5
<1>3. CASE RedoDone
  <2>1. /\ phase = "redo" /\ phase' = "recovered" /\ redoPos > Len(wal) /\ wal' = wal
        /\ data' = data /\ survive' = [p \in Pages |-> {data[p]}]
    BY <1>3 DEF RedoDone, SyncData
  <2>2. ASSUME NEW p \in Pages PROVE data[p] = AfterRedo(wal, p, data[p])
    <3>1. CASE RedoneOn(wal, p) = {}
      BY <3>1 DEF AfterRedo
    <3>2. CASE RedoneOn(wal, p) # {}
      <4>1. \A k \in RedoneOn(wal, p) : k \in Nat /\ k < redoPos
        BY <1>b, <2>1, <1>a
      <4>2. PICK k \in RedoneOn(wal, p) :
               (\A j \in RedoneOn(wal, p) : j <= k) /\ data[p] = wal[k].image
        BY <3>2, <4>1, <2>1, <1>a DEF RedoProgress
      <4>3. \A m \in RedoneOn(wal, p) : (\A j \in RedoneOn(wal, p) : j <= m) => m = k
        BY <4>1, <4>2
      <4>4. (CHOOSE m \in RedoneOn(wal, p) : \A j \in RedoneOn(wal, p) : j <= m) = k
        BY <4>2, <4>3
      <4> QED BY <4>2, <4>4, <3>2 DEF AfterRedo
    <3> QED BY <3>1, <3>2
  <2> QED BY <2>1, <2>2 DEF RedoProgress, RecoveryIsComplete
<1>4. CASE Writeback \/ UNCHANGED vars
  BY <1>4 DEF Writeback, vars, RedoProgress, RecoveryIsComplete
<1> QED BY <1>1, <1>2, <1>3, <1>4, RecoverySteps

-----------------------------------------------------------------------------
(* The writer flag. *)

LEMMA WriterStep ==
    ASSUME WriterFlagMatches, [Next]_vars
    PROVE  WriterFlagMatches'
<1> USE DEF WriterFlagMatches, logVars, dataVars, storeVars, txVars, bounds,
            InTx, Committing, Closed
<1>1. CASE RedoRecord \/ RedoDone \/ AppendImage \/ AppendCommit \/ WalSync \/ WritePage
  BY <1>1 DEF RedoRecord, RedoDone, AppendImage, AppendCommit, WalSync, WritePage
<1>2. CASE DataSync \/ RollbackSync \/ CommitFails \/ RollbackFails \/ DropTx
  BY <1>2 DEF DataSync, RollbackSync, CommitFails, RollbackFails, DropTx, EndTx
<1>3. CASE OpenStore \/ BootstrapStore \/ OpenDatabase
  BY <1>3 DEF OpenStore, BootstrapStore, StartSession, OpenDatabase
<1>4. CASE Begin \/ Commit \/ Rollback \/ SyncStore
  BY <1>4 DEF Begin, Commit, MayUseTx, Rollback, SyncStore
<1>5. CASE Staging
  BY <1>5, StagingSame
<1>6. CASE BootstrapFails \/ RedoFails \/ BeginFails \/ SyncStoreFails
  BY <1>6 DEF BootstrapFails, MayOpenStore, RedoFails, BeginFails, BeginAllowed, SyncStoreFails
<1>7. CASE Exit \/ Writeback \/ PowerLoss
  BY <1>7 DEF Exit, Writeback, PowerLoss, ForgetMemory
<1>8. CASE UNCHANGED vars
  BY <1>8 DEF vars
<1> QED BY <1>1, <1>2, <1>3, <1>4, <1>5, <1>6, <1>7, <1>8 DEF Next, Step, Call, Failure

-----------------------------------------------------------------------------
LEMMA StoreInvInit == Init => StoreInv
  BY TypeInit DEF Init, StoreInv, CommitProgress, WriteProgress, RedoProgress,
     RecoveryIsComplete, WriterFlagMatches, InTx, Committing

LEMMA StoreInvStep == StoreInv /\ [Next]_vars => StoreInv'
  BY TypeStep, CommitStep, WriteStep, RedoStep, WriterStep DEF StoreInv

LEMMA StoreInvHolds == Spec => []StoreInv
  BY StoreInvInit, StoreInvStep, PTL DEF Spec

\* Write-ahead logging: Transaction::commit writes to the data file only pages
\* whose images, followed by their commit marker, are in the durable log.
THEOREM WalBeforeDataHolds == Spec => []WalBeforeData
<1>1. StoreInv => WalBeforeData
  BY DEF StoreInv, CommitProgress, WalBeforeData
<1> QED BY <1>1, StoreInvHolds, PTL

\* open_database is complete and idempotent: when it returns, the data file is
\* durably what replaying the whole log gives, and replaying it again is a no-op.
THEOREM RecoveryCompletes == Spec => []RecoveryIsComplete
<1>1. StoreInv => RecoveryIsComplete
  BY DEF StoreInv
<1> QED BY <1>1, StoreInvHolds, PTL

\* active_writer is set exactly while a transaction is alive, on every way out of
\* begin, commit, rollback and drop.
THEOREM WriterFlagCorrect == Spec => []WriterFlagMatches
<1>1. StoreInv => WriterFlagMatches
  BY DEF StoreInv
<1> QED BY <1>1, StoreInvHolds, PTL

-----------------------------------------------------------------------------
(* Acknowledgement. *)

\* Giving the current transaction an outcome other than "acked" acknowledges
\* nothing.
LEMMA NotAcked ==
    ASSUME TypeInv, phase \in InTx, NEW o \in Outcomes, o # "acked", hist' = WithOutcome(o)
    PROVE  AcksSynced
<1>1. hist \in Seq(HistEntry) /\ Current \in 1..Len(hist)
  BY HistTypes DEF TypeInv, TypeOK
<1>2. \A i \in DOMAIN hist : IF i = Current THEN hist'[i].outcome = o ELSE hist'[i] = hist[i]
  BY <1>1 DEF WithOutcome
<1> QED BY <1>2 DEF AcksSynced

LEMMA AckStep ==
    ASSUME StoreInv, [Next]_vars
    PROVE  [AcksSynced]_vars
<1> SUFFICES ASSUME Next PROVE AcksSynced
  OBVIOUS
<1> USE DEF logVars, dataVars, storeVars, txVars, bounds
<1>a. TypeInv /\ TypeOK /\ WriteProgress /\ hist \in Seq(HistEntry) /\ data \in [Pages -> PageValue]
  BY DEF StoreInv, TypeInv, TypeOK
<1>b. hist' = hist => AcksSynced
  BY DEF AcksSynced
<1>1. CASE DataSync
  <2>1. /\ phase = "write" /\ todo = {} /\ survive' = [p \in Pages |-> {data[p]}]
        /\ hist' = WithOutcome("acked")
    BY <1>1 DEF DataSync, SyncData, EndTx
  <2>2. Current \in 1..Len(hist)
    BY <2>1, <1>a, HistTypes DEF InTx, Committing
  <2>3. \A i \in DOMAIN hist : i # Current => hist'[i] = hist[i]
    BY <2>1, <2>2, <1>a DEF WithOutcome
  <2>4. hist[Current].pages = DirtyPages /\ \A p \in DirtyPages : data[p] = dirty[p]
    BY <2>1, <1>a DEF WriteProgress, Committing
  <2>5. \A p \in DirtyPages : survive'[p] = {dirty[p]}
    BY <2>1, <2>4 DEF DirtyPages
  <2> QED BY <2>3, <2>4, <2>5 DEF AcksSynced
<1>2. CASE RedoRecord \/ RedoDone \/ AppendImage \/ AppendCommit \/ WritePage
  BY <1>2, <1>b DEF RedoRecord, RedoDone, AppendImage, AppendCommit, WritePage
<1>3. CASE WalSync
  BY <1>3, <1>a, NotAcked DEF WalSync, InTx, Committing, Outcomes
<1>4. CASE RollbackSync \/ DropTx
  BY <1>4, <1>a, NotAcked DEF RollbackSync, DropTx, EndTx, InTx, Committing, Outcomes
<1>5. CASE OpenStore \/ BootstrapStore \/ OpenDatabase \/ Rollback \/ SyncStore
  BY <1>5, <1>b DEF OpenStore, BootstrapStore, StartSession, OpenDatabase, Rollback, SyncStore
<1>6. CASE Begin
  <2>1. \A i \in DOMAIN hist : hist'[i] = hist[i]
    BY <1>6, <1>a DEF Begin
  <2> QED BY <2>1 DEF AcksSynced
<1>7. CASE Commit
  <2>1. Current \in 1..Len(hist)
    BY <1>7, <1>a, HistTypes DEF Commit, MayUseTx, InTx
  <2>2. \A i \in DOMAIN hist : hist'[i] = hist[i] \/ hist'[i].outcome = "active"
    BY <1>7, <1>a, <2>1 DEF Commit, MayUseTx
  <2> QED BY <2>2 DEF AcksSynced
<1>8. CASE Staging
  BY <1>8, <1>b, StagingSame
<1>9. CASE BootstrapFails \/ RedoFails \/ BeginFails \/ SyncStoreFails \/ Writeback
  BY <1>9, <1>b DEF BootstrapFails, RedoFails, BeginFails, SyncStoreFails, Writeback
<1>10. CASE CommitFails
  <2>1. phase \in InTx /\ (IF phase = "write" THEN "logged" ELSE "failed") \in Outcomes \ {"acked"}
    BY <1>10 DEF CommitFails, InTx, Committing, Outcomes
  <2>2. hist' = WithOutcome(IF phase = "write" THEN "logged" ELSE "failed")
    BY <1>10 DEF CommitFails, EndTx
  <2> QED BY <2>1, <2>2, <1>a, NotAcked
<1>11. CASE RollbackFails
  BY <1>11, <1>a, NotAcked DEF RollbackFails, EndTx, InTx, Committing, Outcomes
<1>12. CASE Exit \/ PowerLoss
  <2>1. CASE phase \in InTx \ {"write"}
    BY <2>1, <1>12, <1>a, NotAcked DEF Exit, PowerLoss, ForgetMemory, Outcomes
  <2>2. CASE phase \notin InTx \ {"write"}
    BY <2>2, <1>12, <1>b DEF Exit, PowerLoss, ForgetMemory
  <2> QED BY <2>1, <2>2
<1> QED BY <1>1, <1>2, <1>3, <1>4, <1>5, <1>6, <1>7, <1>8, <1>9, <1>10, <1>11, <1>12
        DEF Next, Step, Call, Failure

\* Transaction::commit returns Ok only after every page of the transaction is
\* durable in the data file itself, whatever becomes of the log.
THEOREM AckIsSyncedHolds == Spec => AckIsSynced
  BY StoreInvHolds, AckStep, PTL DEF Spec, AckIsSynced

-----------------------------------------------------------------------------
(***************************************************************************)
(* The store used the way that its documents describe: one session that    *)
(* ends with the first I/O error, transactions that are given up with the  *)
(* first error of one of their calls, and recovery that reads a durable    *)
(* log.  The inductive invariant from which the durability and the         *)
(* atomicity of its transactions follow.                                   *)
(*                                                                         *)
(* There are two ways in which the files are safe.  Either every page in   *)
(* the data file, and all that a power loss may make of it, is what the    *)
(* kept transactions left (SafeInData: between transactions, and until     *)
(* the log sync of a commit); or the log is durable and free of damage,    *)
(* and the data file may hold anything that redo will overwrite            *)
(* (SafeInLog: from the log sync to the data sync, and in recovery).       *)
(*                                                                         *)
(* The invariant is inductive, and so the store is durable and atomic, for *)
(* every number of pages, transactions, power losses and I/O errors.       *)
(***************************************************************************)

\* The restrictions under which durability and atomicity hold.
FailStop ==
    /\ MaxSessions <= 1
    /\ ~UseAfterError
    /\ ~RecoverCachedLog

\* The transactions of history h whose commit has had its log sync.
KeptIn(h) == {i \in DOMAIN h : h[i].outcome \in {"logged", "acked"}}
Kept == KeptIn(hist)

\* The records of a log with an image of page p by a transaction of T, and the last one.
ImagesBy(log, T, p) ==
    {k \in DOMAIN log : log[k].kind = "image" /\ log[k].page = p /\ log[k].tx \in T}
IsLast(log, T, p, k) == k \in ImagesBy(log, T, p) /\ \A j \in ImagesBy(log, T, p) : j <= k

\* The transactions of T that changed page p.
TouchedBy(h, T, p) == {i \in T : p \in h[i].pages}

\* What a page is before any transaction has changed it.
Untouched(p) == {Blank, Torn} \cup (IF p = 0 THEN {EmptyCatalog} ELSE {})

\* Value v of page p is what the transactions of T have left of it.
Agrees(log, T, p, v) ==
    IF ImagesBy(log, T, p) = {} THEN v \in Untouched(p)
    ELSE \E k \in DOMAIN log : IsLast(log, T, p, k) /\ v = log[k].image

\* The last images of a log hold the changes of all of T and of nothing else, and the
\* last catalog knows the pages of T.
RightTxs(log, h, T) ==
    \A p \in Pages :
        /\ ImagesBy(log, T, p) = {} => TouchedBy(h, T, p) = {}
        /\ \A k \in DOMAIN log : IsLast(log, T, p, k) => log[k].image.txs = TouchedBy(h, T, p)
RightNext(log, h, T) ==
    \A i \in T : \A p \in h[i].pages :
        /\ ImagesBy(log, T, 0) # {}
        /\ \A k \in DOMAIN log : IsLast(log, T, 0, k) => p < log[k].image.next
Right(log, h, T) == RightTxs(log, h, T) /\ RightNext(log, h, T)

-----------------------------------------------------------------------------
(* The inductive invariant. *)

\* A store is open and none of its calls has failed.
Sound == phase \in {"idle"} \cup InTx /\ ~erred

\* There is one session, and its transactions and their ids are numbered alike.
Numbering ==
    /\ sessions = 0 => wal = << >> /\ hist = << >> /\ \A p \in Pages : survive[p] \subseteq {Blank, Torn}
    /\ phase \in {"idle"} \cup InTx => sessions = 1
    /\ phase \in InTx => ~erred
    /\ \A i \in DOMAIN hist : hist[i].id = i
    /\ Sound => nextTx = Len(hist) + 1 /\ nextLsn = Len(wal) + 1 /\ ReadAllOk(wal)

\* The records of the log, in the order of their transactions.
Records ==
    /\ \A k \in DOMAIN wal : wal[k].kind # "garbage" =>
          wal[k].tx = wal[k].by /\ wal[k].tx \in DOMAIN hist
    /\ \A j, k \in DOMAIN wal :
          j < k /\ wal[j].kind # "garbage" /\ wal[k].kind # "garbage" => wal[j].tx <= wal[k].tx
    /\ \A k \in DOMAIN wal : wal[k].kind = "image" => wal[k].image \in Image
    /\ Committed(wal) \cap Aborted(wal) = {}

\* The records of the transaction in progress.
CurrentRecords ==
    /\ phase \in {"active", "images"} => Current \notin Committed(wal) \cup Aborted(wal)
    /\ phase \in InTx => (Current \in Kept <=> phase = "write")
    /\ phase = "active" => \A k \in DOMAIN wal : wal[k].kind = "image" => wal[k].tx # Current
    /\ phase \in Committing => \A k \in DOMAIN wal :
          wal[k].kind = "image" /\ wal[k].tx = Current => dirty[wal[k].page] = wal[k].image

\* The log of a kept transaction is durable, and the only marker of another one is the
\* last record of an undamaged log, written by a commit whose log sync has not succeeded.
Markers ==
    /\ Kept \subseteq Committed(wal)
    /\ \A k \in DOMAIN wal : wal[k].kind \in {"image", "commit"} /\ wal[k].tx \in Kept =>
          k <= walDurable
    /\ \A k \in DOMAIN wal : wal[k].kind = "commit" /\ wal[k].tx \notin Kept =>
          k = Len(wal) /\ ReadAllOk(wal) /\ (Sound => phase = "walSync")

RightLog == Right(wal, hist, Kept) /\ Right(wal, hist, Committed(wal))

SafeInData == \A p \in Pages : \A v \in survive[p] : Agrees(wal, Kept, p, v)
SafeInLog ==
    /\ walDurable = Len(wal)
    /\ ReadAllOk(wal)
    /\ \A p \in Pages : ImagesBy(wal, Committed(wal), p) = {} => survive[p] \subseteq Untouched(p)

\* One way or the other; a commit leaves the pages it does not write as they were.
Safe ==
    /\ \A p \in Pages : data[p] \in survive[p]
    /\ SafeInData \/ SafeInLog
    /\ Sound /\ phase # "write" => SafeInData
    /\ phase \in {"write", "redo", "recovered"} => SafeInLog
    /\ phase = "write" => \A p \in Pages \ DirtyPages : Agrees(wal, Kept, p, data[p])
    /\ phase = "refused" => ~ReadAllOk(wal)

\* What the transaction in progress has staged, and the catalog it started from.
Staged ==
    /\ Sound /\ (phase = "write" => dirty[0] = Blank) => catalog = data[0]
    /\ Sound => catalog.next >= 1
    /\ phase \in Committing => todo \subseteq DirtyPages
    /\ phase \in Committing \/ (phase = "active" /\ ~spoiled) =>
          /\ work = IF dirty[0] = Blank THEN catalog ELSE dirty[0]
          /\ work.next >= catalog.next
          /\ \A p \in DirtyPages :
                /\ dirty[p].txs = TouchedBy(hist, Kept \ {Current}, p) \cup {Current}
                /\ p < work.next

FilesInv == Numbering /\ Records /\ CurrentRecords /\ Markers /\ RightLog /\ Safe /\ Staged

FailStopInv == StoreInv /\ FilesInv

-----------------------------------------------------------------------------
(* Logs. *)

\* Two logs have the same images of T.
SameImages(w, w2, T) ==
    \A p \in Pages : /\ ImagesBy(w2, T, p) = ImagesBy(w, T, p)
                     /\ \A k \in ImagesBy(w, T, p) : w2[k] = w[k]

\* A nonempty set of positions has a greatest one.
LEMMA GreatestExists ==
    ASSUME NEW n \in Nat, NEW S \in SUBSET (1..n), S # {}
    PROVE  \E k \in S : \A j \in S : j <= k
<1> DEFINE R == OpToRel(<, Nat)
           U == {n - k : k \in S}
<1>1. U \in SUBSET Nat /\ U # {}
  <2>1. \A k \in S : n - k \in Nat
    OBVIOUS
  <2>2. PICK s \in S : TRUE
    OBVIOUS
  <2>3. n - s \in U
    BY <2>2
  <2> QED BY <2>1, <2>3
<1>2. \E u \in U : \A v \in U : ~ (<<v, u>> \in R)
  <2> HIDE DEF R, U
  <2>1. IsWellFoundedOn(R, Nat)
    BY NatLessThanWellFounded DEF R
  <2> QED BY <2>1, <1>1, WFMin
<1>3. \A u, v \in Nat : ~ (<<v, u>> \in R) => u <= v
  BY DEF OpToRel
<1> HIDE DEF R
<1>4. PICK u \in U : \A v \in U : u <= v
  BY <1>1, <1>2, <1>3
<1>5. PICK k \in S : u = n - k
  BY <1>4
<1>6. \A j \in S : n - k <= n - j
  BY <1>4, <1>5
<1> QED BY <1>5, <1>6

\* Where a page has an image it has a last one, and only one.
LEMMA LastExists ==
    ASSUME NEW log \in Seq(LogRecord), NEW T, NEW p
    PROVE  /\ ImagesBy(log, T, p) # {} => \E k \in DOMAIN log : IsLast(log, T, p, k)
           /\ \A k, j \in DOMAIN log : IsLast(log, T, p, k) /\ IsLast(log, T, p, j) => k = j
<1>1. DOMAIN log = 1..Len(log) /\ Len(log) \in Nat
  OBVIOUS
<1>2. ImagesBy(log, T, p) \subseteq DOMAIN log
  BY DEF ImagesBy
<1>3. ASSUME ImagesBy(log, T, p) # {}
      PROVE  \E k \in DOMAIN log : IsLast(log, T, p, k)
  <2>1. \E k \in ImagesBy(log, T, p) : \A j \in ImagesBy(log, T, p) : j <= k
    BY <1>1, <1>2, <1>3, GreatestExists
  <2> QED BY <2>1, <1>2 DEF IsLast
<1>4. \A k, j \in DOMAIN log : IsLast(log, T, p, k) /\ IsLast(log, T, p, j) => k = j
  BY <1>1 DEF IsLast
<1> QED BY <1>3, <1>4

\* The redo pass writes the last image that a committed transaction logged.
LEMMA RedoFindsLast ==
    ASSUME NEW log \in Seq(LogRecord), Committed(log) \cap Aborted(log) = {},
           NEW p \in Pages, NEW old
    PROVE  /\ RedoneOn(log, p) = ImagesBy(log, Committed(log), p)
           /\ ImagesBy(log, Committed(log), p) = {} => AfterRedo(log, p, old) = old
           /\ \A k \in DOMAIN log : IsLast(log, Committed(log), p, k) =>
                 AfterRedo(log, p, old) = log[k].image
<1>1. RedoneOn(log, p) = ImagesBy(log, Committed(log), p)
  BY DEF RedoneOn, Redone, ImagesBy
<1>2. ImagesBy(log, Committed(log), p) = {} => AfterRedo(log, p, old) = old
  BY <1>1 DEF AfterRedo
<1>3. ASSUME NEW k \in DOMAIN log, IsLast(log, Committed(log), p, k)
      PROVE  AfterRedo(log, p, old) = log[k].image
  <2> DEFINE ks == ImagesBy(log, Committed(log), p)
  <2>1. k \in ks /\ \A j \in ks : j <= k
    BY <1>3 DEF IsLast
  <2>2. ks \subseteq Nat
    BY DEF ImagesBy
  <2>3. \A m \in ks : (\A j \in ks : j <= m) => m = k
    BY <2>1, <2>2
  <2>4. (CHOOSE m \in ks : \A j \in ks : j <= m) = k
    BY <2>1, <2>3
  <2> QED BY <1>1, <2>1, <2>4 DEF AfterRedo
<1> QED BY <1>1, <1>2, <1>3

\* Records that are not images of T may come and go.
LEMMA SameImagesFacts ==
    ASSUME NEW w, NEW w2, NEW T,
           \A j \in DOMAIN w2 : \/ j \in DOMAIN w /\ w2[j] = w[j]
                                \/ w2[j].kind # "image" \/ w2[j].tx \notin T,
           \A j \in DOMAIN w : w[j].kind = "image" /\ w[j].tx \in T =>
                                 j \in DOMAIN w2 /\ w2[j] = w[j]
    PROVE  SameImages(w, w2, T)
  BY DEF SameImages, ImagesBy

\* Agreement and rightness are about the images of T and the pages of T only.
LEMMA SameLast ==
    ASSUME NEW w, NEW w2, NEW T, SameImages(w, w2, T), NEW p \in Pages
    PROVE  /\ \A k : IsLast(w2, T, p, k) <=> IsLast(w, T, p, k)
           /\ \A k : IsLast(w, T, p, k) => k \in DOMAIN w /\ k \in DOMAIN w2 /\ w2[k] = w[k]
           /\ ImagesBy(w2, T, p) = ImagesBy(w, T, p)
  BY DEF SameImages, IsLast, ImagesBy

LEMMA AgreesFrame ==
    ASSUME NEW w, NEW w2, NEW T, SameImages(w, w2, T), NEW p \in Pages, NEW v
    PROVE  Agrees(w, T, p, v) <=> Agrees(w2, T, p, v)
  BY SameLast DEF Agrees

LEMMA RightFrame ==
    ASSUME NEW w, NEW w2, NEW h, NEW h2, NEW T, SameImages(w, w2, T),
           \A i \in T : h2[i].pages = h[i].pages,
           Right(w, h, T)
    PROVE  Right(w2, h2, T)
<1>1. \A p : TouchedBy(h2, T, p) = TouchedBy(h, T, p)
  BY DEF TouchedBy
<1>2. RightTxs(w2, h2, T)
  BY <1>1, SameLast DEF Right, RightTxs
<1>3. RightNext(w2, h2, T)
  BY SameLast, EmptyFacts DEF Right, RightNext
<1> QED BY <1>2, <1>3 DEF Right

-----------------------------------------------------------------------------
(* What the invariant says about a reader. *)

\* A page that agrees with T shows the changes of T to it, and nothing else.
LEMMA AgreeingPage ==
    ASSUME NEW log \in Seq(LogRecord), NEW h, NEW T, Right(log, h, T),
           \A k \in DOMAIN log : log[k].kind = "image" => log[k].image \in Image,
           NEW p \in Pages, NEW v, Agrees(log, T, p, v)
    PROVE  /\ \A i \in T : p \in h[i].pages => Valid(v)
           /\ Valid(v) => v.txs = TouchedBy(h, T, p)
<1>1. CASE ImagesBy(log, T, p) = {}
  <2>1. TouchedBy(h, T, p) = {}
    BY <1>1 DEF Right, RightTxs
  <2>2. v \in {Blank, Torn, EmptyCatalog}
    BY <1>1 DEF Agrees, Untouched
  <2>3. Valid(v) => v.txs = {}
    BY <2>2, ImagesDiffer DEF Valid, EmptyCatalog
  <2> QED BY <2>1, <2>3 DEF TouchedBy
<1>2. CASE ImagesBy(log, T, p) # {}
  <2>1. PICK k \in DOMAIN log : IsLast(log, T, p, k) /\ v = log[k].image
    BY <1>2 DEF Agrees
  <2>2. log[k].kind = "image"
    BY <2>1 DEF IsLast, ImagesBy
  <2> QED BY <2>1, <2>2 DEF Right, RightTxs, Valid
<1> QED BY <1>1, <1>2

\* A catalog page that agrees with T leads to every page of T.
LEMMA AgreeingCatalog ==
    ASSUME NEW log \in Seq(LogRecord), NEW h, NEW T, Right(log, h, T),
           NEW c, Agrees(log, T, 0, c)
    PROVE  \A i \in T : \A p \in h[i].pages : p < c.next
<1> SUFFICES ASSUME NEW i \in T, NEW p \in h[i].pages PROVE p < c.next
  OBVIOUS
<1>1. ImagesBy(log, T, 0) # {}
  BY DEF Right, RightNext
<1>2. PICK k \in DOMAIN log : IsLast(log, T, 0, k) /\ c = log[k].image
  BY <1>1 DEF Agrees
<1> QED BY <1>2 DEF Right, RightNext

\* The transactions that a reader of the files finds.
Found == IF ReadAllOk(wal) THEN Committed(wal) ELSE Kept

LEMMA ViewAgrees ==
    ASSUME FailStopInv, NEW p \in Pages
    PROVE  Agrees(wal, Found, p, View(p))
<1>0. wal \in Seq(LogRecord)
  BY DEF FailStopInv, FilesInv, StoreInv, TypeInv, TypeOK
<1>1. data[p] \in survive[p] /\ (SafeInData \/ SafeInLog)
  BY DEF FailStopInv, FilesInv, Safe
<1>2. CASE ~ReadAllOk(wal)
  <2>1. SafeInData
    BY <1>1, <1>2 DEF SafeInLog
  <2> QED BY <2>1, <1>1, <1>2 DEF SafeInData, Found, View
<1>3. CASE ReadAllOk(wal)
  <2>1. Found = Committed(wal) /\ View(p) = AfterRedo(wal, p, data[p])
    BY <1>3 DEF Found, View
  <2>2. Committed(wal) \cap Aborted(wal) = {} /\ Kept \subseteq Committed(wal)
    BY DEF FailStopInv, FilesInv, Records, Markers
  <2>3. CASE ImagesBy(wal, Committed(wal), p) = {}
    <3>1. View(p) = data[p]
      BY <1>0, <2>1, <2>2, <2>3, RedoFindsLast
    <3>2. ImagesBy(wal, Kept, p) = {}
      BY <2>2, <2>3 DEF ImagesBy
    <3>3. data[p] \in Untouched(p)
      BY <1>1, <2>3, <3>2 DEF SafeInData, SafeInLog, Agrees
    <3> QED BY <2>1, <2>3, <3>1, <3>3 DEF Agrees
  <2>4. CASE ImagesBy(wal, Committed(wal), p) # {}
    <3>1. PICK k \in DOMAIN wal : IsLast(wal, Committed(wal), p, k)
      BY <1>0, <2>4, LastExists
    <3>2. View(p) = wal[k].image
      BY <1>0, <2>1, <2>2, <3>1, RedoFindsLast
    <3> QED BY <2>1, <2>4, <3>1, <3>2 DEF Agrees
  <2> QED BY <2>3, <2>4
<1> QED BY <1>2, <1>3

\* A page shows exactly the found transactions that changed it.
LEMMA ViewShows ==
    ASSUME FailStopInv
    PROVE  /\ \A i \in DOMAIN hist, p \in Pages :
                 Shows(i, p) <=> i \in Found /\ p \in hist[i].pages
           /\ \A i \in Found : \A p \in hist[i].pages : p < View(0).next
           /\ Kept \subseteq Found /\ Found \subseteq Committed(wal)
<1>1. /\ wal \in Seq(LogRecord) /\ 0 \in Pages
      /\ \A k \in DOMAIN wal : wal[k].kind = "image" => wal[k].image \in Image
  BY EmptyFacts DEF FailStopInv, FilesInv, StoreInv, TypeInv, TypeOK, Records
<1>2. Right(wal, hist, Found)
  BY DEF FailStopInv, FilesInv, RightLog, Found
<1>3. ASSUME NEW i \in DOMAIN hist, NEW p \in Pages
      PROVE  Shows(i, p) <=> i \in Found /\ p \in hist[i].pages
  <2>1. Agrees(wal, Found, p, View(p))
    BY ViewAgrees
  <2>2. /\ \A j \in Found : p \in hist[j].pages => Valid(View(p))
        /\ Valid(View(p)) => View(p).txs = TouchedBy(hist, Found, p)
    BY <1>1, <1>2, <2>1, AgreeingPage
  <2> QED BY <2>2 DEF Shows, TouchedBy
<1>4. \A i \in Found : \A p \in hist[i].pages : p < View(0).next
  BY <1>1, <1>2, ViewAgrees, AgreeingCatalog
<1>5. Kept \subseteq Found /\ Found \subseteq Committed(wal)
  BY DEF FailStopInv, FilesInv, Markers, Found
<1> QED BY <1>3, <1>4, <1>5

LEMMA InvImpliesReads == FailStopInv => Durability /\ Atomicity /\ NoUncommittedVisible
<1> SUFFICES ASSUME FailStopInv PROVE Durability /\ Atomicity /\ NoUncommittedVisible
  OBVIOUS
<1>1. \A i \in DOMAIN hist : hist[i].pages \subseteq Pages
  <2>1. hist \in Seq(HistEntry)
    BY DEF FailStopInv, FilesInv, StoreInv, TypeInv, TypeOK
  <2>2. \A i \in DOMAIN hist : hist[i] \in HistEntry
    BY <2>1
  <2> QED BY <2>2 DEF HistEntry
<1>2. Durability
  <2>1. \A i \in DOMAIN hist : hist[i].outcome \in {"logged", "acked"} => i \in Found
    BY ViewShows DEF Kept, KeptIn
  <2> QED BY <1>1, <2>1, ViewShows DEF Durability
<1>3. Atomicity
  BY <1>1, ViewShows DEF Atomicity
<1>4. NoUncommittedVisible
  <2> SUFFICES ASSUME NEW i \in DOMAIN hist, NEW p \in Pages, Shows(i, p) PROVE HasCommitMarker(i)
    BY DEF NoUncommittedVisible
  <2>1. i \in Committed(wal)
    BY ViewShows
  <2>2. PICK k \in DOMAIN wal : wal[k].kind = "commit" /\ wal[k].tx = i
    BY <2>1 DEF Committed
  <2>3. wal[k].by = i
    BY <2>2 DEF FailStopInv, FilesInv, Records
  <2> QED BY <2>2, <2>3 DEF HasCommitMarker
<1> QED BY <1>2, <1>3, <1>4

LEMMA InvImpliesLive ==
    FailStopInv => CommitsSurviveRefusal /\ LiveReadsMatchRecovery /\ CatalogInstalled
<1> SUFFICES ASSUME FailStopInv
             PROVE  CommitsSurviveRefusal /\ LiveReadsMatchRecovery /\ CatalogInstalled
  OBVIOUS
<1>0. /\ wal \in Seq(LogRecord) /\ hist \in Seq(HistEntry)
      /\ \A k \in DOMAIN wal : wal[k].kind = "image" => wal[k].image \in Image
      /\ \A p \in Pages : data[p] \in survive[p]
  BY DEF FailStopInv, FilesInv, StoreInv, TypeInv, TypeOK, Records, Safe
<1>1. CommitsSurviveRefusal
  <2> SUFFICES ASSUME phase = "refused", NEW i \in DOMAIN hist,
                      hist[i].outcome \in {"logged", "acked"}, NEW p \in hist[i].pages
               PROVE  Valid(data[p]) /\ i \in data[p].txs
    BY DEF CommitsSurviveRefusal
  <2>1. SafeInData
    BY DEF FailStopInv, FilesInv, Safe, SafeInLog
  <2>2. p \in Pages /\ i \in Kept
    <3>1. hist[i] \in HistEntry
      BY <1>0
    <3> QED BY <3>1 DEF HistEntry, Kept, KeptIn
  <2>3. Agrees(wal, Kept, p, data[p]) /\ Right(wal, hist, Kept)
    BY <1>0, <2>1, <2>2 DEF SafeInData, FailStopInv, FilesInv, RightLog
  <2>4. Valid(data[p]) /\ data[p].txs = TouchedBy(hist, Kept, p)
    BY <1>0, <2>2, <2>3, AgreeingPage
  <2> QED BY <2>2, <2>4 DEF TouchedBy
<1>2. LiveReadsMatchRecovery
  <2> SUFFICES ASSUME phase \in {"idle", "active"}, ~erred, NEW p \in Pages
               PROVE  data[p] = View(p)
    BY DEF LiveReadsMatchRecovery
  <2>1. Sound /\ SafeInData /\ ReadAllOk(wal) /\ phase \notin {"walSync", "write"}
    BY DEF FailStopInv, FilesInv, Safe, Sound, InTx, Committing, Numbering
  <2>2. Committed(wal) = Kept
    BY <2>1 DEF FailStopInv, FilesInv, Markers, Committed
  <2>3. Agrees(wal, Committed(wal), p, data[p])
    BY <1>0, <2>1, <2>2 DEF SafeInData
  <2>4. View(p) = AfterRedo(wal, p, data[p]) /\ Committed(wal) \cap Aborted(wal) = {}
    BY <2>1 DEF View, FailStopInv, FilesInv, Records
  <2> QED BY <1>0, <2>3, <2>4, RedoFindsLast DEF Agrees
<1>3. CatalogInstalled
  BY DEF CatalogInstalled, FailStopInv, FilesInv, Staged, Sound, InTx, Committing
<1> QED BY <1>1, <1>2, <1>3

-----------------------------------------------------------------------------
(* Facts that every step needs. *)

LEMMA InvTypes ==
    ASSUME FailStopInv
    PROVE  /\ TypeInv /\ TypeOK
           /\ wal \in Seq(LogRecord) /\ Len(wal) \in Nat /\ DOMAIN wal = 1..Len(wal)
           /\ walDurable \in 0..Len(wal)
           /\ hist \in Seq(HistEntry) /\ Len(hist) \in Nat /\ DOMAIN hist = 1..Len(hist)
           /\ \A i \in DOMAIN hist : hist[i] \in HistEntry
           /\ data \in [Pages -> PageValue] /\ survive \in [Pages -> SUBSET PageValue]
           /\ 0 \in Pages
  BY EmptyFacts DEF FailStopInv, StoreInv, TypeInv, TypeOK

\* A transaction in progress: its number is its id, and no call has failed.
LEMMA CurrentFacts ==
    ASSUME FailStopInv, phase \in InTx
    PROVE  /\ Current = Len(hist) /\ Current \in DOMAIN hist /\ Current \in Nat
           /\ TxId = Current /\ Sound
<1>1. Current \in 1..Len(hist)
  BY InvTypes, HistTypes
<1> QED BY <1>1, InvTypes DEF Current, TxId, Sound, FailStopInv, FilesInv, Numbering

\* The kept transactions are the same ones, and what is committed keeps its pages.
HistKeeps ==
    /\ DOMAIN hist' = DOMAIN hist
    /\ Kept' = Kept
    /\ \A i \in DOMAIN hist : /\ hist'[i].id = hist[i].id
                              /\ i \in Committed(wal) => hist'[i].pages = hist[i].pages

\* Giving the current transaction an outcome that does not change whether it is kept.
LEMMA OutcomeKeeps ==
    ASSUME FailStopInv, phase \in InTx, NEW o \in Outcomes, hist' = WithOutcome(o),
           o \in {"logged", "acked"} <=> Current \in Kept
    PROVE  HistKeeps /\ Len(hist') = Len(hist)
<1>1. Current \in DOMAIN hist
  BY CurrentFacts
<1>2. hist \in Seq(HistEntry)
  BY InvTypes
<1>3. DOMAIN hist' = DOMAIN hist /\ Len(hist') = Len(hist)
  BY <1>1, <1>2 DEF WithOutcome
<1>4. \A i \in DOMAIN hist : i # Current => hist'[i] = hist[i]
  BY <1>1, <1>2 DEF WithOutcome
<1>5. hist'[Current] = [id |-> TxId, outcome |-> o, pages |-> hist[Current].pages]
  BY <1>1, <1>2 DEF WithOutcome
<1>6. \A i \in DOMAIN hist : hist'[i].id = hist[i].id /\ hist'[i].pages = hist[i].pages
  BY <1>4, <1>5 DEF TxId
<1>7. Kept' = Kept
  BY <1>3, <1>4, <1>5 DEF Kept, KeptIn
<1> QED BY <1>3, <1>6, <1>7 DEF HistKeeps

LEMMA SameHistKeeps == hist' = hist => HistKeeps
  BY DEF HistKeeps, Kept, KeptIn

\* A step that leaves the log alone.
LEMMA LogFrame ==
    ASSUME FailStopInv, wal' = wal, HistKeeps
    PROVE  /\ Records' /\ RightLog'
           /\ \A p, v : Agrees(wal, Kept, p, v) => Agrees(wal, Kept, p, v)'
           /\ \A i \in DOMAIN hist' : hist'[i].id = i
<1>1. Kept \subseteq Committed(wal) /\ Committed(wal) \subseteq DOMAIN hist
  BY DEF FailStopInv, FilesInv, Markers, Records, Committed
<1>2. Records'
  BY DEF FailStopInv, FilesInv, Records, HistKeeps
<1>3. SameImages(wal, wal, Kept) /\ SameImages(wal, wal, Committed(wal))
  BY DEF SameImages
<1>4. Right(wal, hist', Kept) /\ Right(wal, hist', Committed(wal))
  BY <1>1, <1>3, RightFrame DEF FailStopInv, FilesInv, RightLog, HistKeeps
<1>5. RightLog'
  BY <1>4 DEF RightLog, HistKeeps
<1>6. \A p, v : Agrees(wal, Kept, p, v) => Agrees(wal, Kept, p, v)'
  BY DEF HistKeeps
<1> QED BY <1>2, <1>5, <1>6 DEF HistKeeps, FailStopInv, FilesInv, Numbering

\* An append by an open store adds one record at the end.
LEMMA GrowFacts ==
    ASSUME FailStopInv, Sound, NEW rec \in LogRecord, Append_(rec)
    PROVE  /\ wal' \in Seq(LogRecord) /\ Len(wal') = Len(wal) + 1 /\ DOMAIN wal' = 1..(Len(wal) + 1)
           /\ wal'[Len(wal) + 1] = rec
           /\ \A k \in DOMAIN wal : k \in DOMAIN wal' /\ wal'[k] = wal[k]
           /\ \A k \in DOMAIN wal' : k \in DOMAIN wal \/ k = Len(wal) + 1
           /\ walDurable' = walDurable /\ nextLsn' = Len(wal') + 1
<1>1. nextLsn = Len(wal) + 1
  BY DEF FailStopInv, FilesInv, Numbering
<1>2. /\ Len(wal') = nextLsn /\ wal'[nextLsn] = rec /\ walDurable' = walDurable
      /\ \A k \in 1..Len(wal) : wal'[k] = wal[k]
  BY InvTypes, AppendKeeps
<1>3. wal' \in Seq(LogRecord)
  BY InvTypes, AppendStepTypes
<1>4. nextLsn' = nextLsn + 1
  BY DEF Append_
<1>5. DOMAIN wal' = 1..Len(wal')
  BY <1>3
<1> QED BY <1>1, <1>2, <1>3, <1>4, <1>5, InvTypes

\* What the new record adds to the committed, to the aborted and to the images.
LEMMA GrowMeaning ==
    ASSUME FailStopInv, Sound, NEW rec \in LogRecord, Append_(rec)
    PROVE  /\ Committed(wal') = Committed(wal) \cup (IF rec.kind = "commit" THEN {rec.tx} ELSE {})
           /\ Aborted(wal') = Aborted(wal) \cup (IF rec.kind = "abort" THEN {rec.tx} ELSE {})
           /\ rec.kind # "garbage" => ReadAllOk(wal')
           /\ \A T : rec.kind # "image" \/ rec.tx \notin T => SameImages(wal, wal', T)
<1>1. /\ wal'[Len(wal) + 1] = rec /\ Len(wal) + 1 \in DOMAIN wal'
      /\ \A k \in DOMAIN wal : k \in DOMAIN wal' /\ wal'[k] = wal[k]
      /\ \A k \in DOMAIN wal' : k \in DOMAIN wal \/ k = Len(wal) + 1
  BY GrowFacts, InvTypes
<1>2. Committed(wal') = Committed(wal) \cup (IF rec.kind = "commit" THEN {rec.tx} ELSE {})
  BY <1>1 DEF Committed
<1>3. Aborted(wal') = Aborted(wal) \cup (IF rec.kind = "abort" THEN {rec.tx} ELSE {})
  BY <1>1 DEF Aborted
<1>4. rec.kind # "garbage" => ReadAllOk(wal')
  BY <1>1 DEF ReadAllOk, FailStopInv, FilesInv, Numbering
<1>5. ASSUME NEW T, rec.kind # "image" \/ rec.tx \notin T PROVE SameImages(wal, wal', T)
  BY <1>1, <1>5, SameImagesFacts
<1> QED BY <1>2, <1>3, <1>4, <1>5

\* The records stay in order when the last transaction adds one.
LEMMA GrowRecords ==
    ASSUME FailStopInv, Sound, NEW rec \in LogRecord, Append_(rec),
           rec.kind # "garbage", rec.tx = rec.by, rec.tx = Len(hist'),
           rec.tx \in DOMAIN hist', DOMAIN hist \subseteq DOMAIN hist',
           rec.kind = "image" => rec.image \in Image,
           rec.kind = "commit" => rec.tx \notin Aborted(wal),
           rec.kind = "abort" => rec.tx \notin Committed(wal),
           DOMAIN hist' = 1..Len(hist')
    PROVE  Records'
<1>1. /\ wal'[Len(wal) + 1] = rec /\ Len(wal) + 1 \in DOMAIN wal'
      /\ \A k \in DOMAIN wal : k \in DOMAIN wal' /\ wal'[k] = wal[k] /\ k <= Len(wal) /\ k \in Nat
      /\ \A k \in DOMAIN wal' : k \in DOMAIN wal \/ k = Len(wal) + 1
  BY GrowFacts, InvTypes
<1>2. \A k \in DOMAIN wal' : wal'[k].kind # "garbage" =>
         wal'[k].tx = wal'[k].by /\ wal'[k].tx \in DOMAIN hist'
  BY <1>1 DEF FailStopInv, FilesInv, Records
<1>3. ASSUME NEW j \in DOMAIN wal', NEW k \in DOMAIN wal',
             j < k, wal'[j].kind # "garbage", wal'[k].kind # "garbage"
      PROVE  wal'[j].tx <= wal'[k].tx
  <2>1. CASE k \in DOMAIN wal
    <3>1. j \in DOMAIN wal
      BY <1>1, <1>3, <2>1, InvTypes
    <3> QED BY <1>1, <1>3, <2>1, <3>1 DEF FailStopInv, FilesInv, Records
  <2>2. CASE k = Len(wal) + 1
    BY <1>1, <1>2, <1>3, <2>2
  <2> QED BY <1>1, <2>1, <2>2
<1>4. \A k \in DOMAIN wal' : wal'[k].kind = "image" => wal'[k].image \in Image
  BY <1>1 DEF FailStopInv, FilesInv, Records
<1>5. Committed(wal') \cap Aborted(wal') = {}
  BY GrowMeaning DEF FailStopInv, FilesInv, Records
<1> QED BY <1>2, <1>3, <1>4, <1>5 DEF Records

\* A log that has lost records, or holds a damaged one, says less.
LEMMA ShrinkRecords ==
    ASSUME FailStopInv, DOMAIN hist \subseteq DOMAIN hist',
           \A k \in DOMAIN wal' : wal'[k].kind # "garbage" => k \in DOMAIN wal /\ wal'[k] = wal[k]
    PROVE  /\ Records'
           /\ Committed(wal') \subseteq Committed(wal) /\ Aborted(wal') \subseteq Aborted(wal)
<1>1. Committed(wal') \subseteq Committed(wal) /\ Aborted(wal') \subseteq Aborted(wal)
  BY DEF Committed, Aborted
<1>2. Records'
  BY <1>1 DEF FailStopInv, FilesInv, Records
<1> QED BY <1>1, <1>2

-----------------------------------------------------------------------------
(* Staging. *)

\* Before its log sync, a transaction works on pages that agree with the kept ones.
LEMMA PagesRead ==
    ASSUME FailStopInv, Sound, phase # "write"
    PROVE  /\ \A p \in Pages : Agrees(wal, Kept, p, data[p])
           /\ \A p \in Pages : Valid(data[p]) => data[p].txs = TouchedBy(hist, Kept, p)
           /\ catalog = data[0] /\ catalog \in Image
           /\ \A i \in Kept : \A p \in hist[i].pages : p < catalog.next
<1>1. \A p \in Pages : Agrees(wal, Kept, p, data[p])
  BY DEF FailStopInv, FilesInv, Safe, SafeInData
<1>2. Right(wal, hist, Kept) /\ \A k \in DOMAIN wal : wal[k].kind = "image" => wal[k].image \in Image
  BY DEF FailStopInv, FilesInv, RightLog, Records
<1>3. \A p \in Pages : Valid(data[p]) => data[p].txs = TouchedBy(hist, Kept, p)
  BY <1>1, <1>2, InvTypes, AgreeingPage
<1>4. catalog = data[0] /\ catalog \in Image
  BY InvTypes DEF FailStopInv, FilesInv, Staged, TypeOK
<1>5. \A i \in Kept : \A p \in hist[i].pages : p < catalog.next
  BY <1>1, <1>2, <1>4, InvTypes, AgreeingCatalog
<1> QED BY <1>1, <1>3, <1>4, <1>5

LEMMA StagingFacts ==
    ASSUME FailStop, FailStopInv, phase = "active", ~spoiled
    PROVE  /\ Sound /\ Current \notin Kept /\ Current \in TxNumbers
           /\ \A p \in Pages : Valid(LoadPage(p)) =>
                 /\ Touch(LoadPage(p)) \in Image
                 /\ Touch(LoadPage(p)).txs = TouchedBy(hist, Kept, p) \cup {Current}
           /\ work \in Image /\ Touch(work) \in Image /\ Touch(work).next = work.next
           /\ work.txs \cup {Current} = TouchedBy(hist, Kept, 0) \cup {Current}
           /\ Touch(work).txs = work.txs \cup {Current}
           /\ TouchedBy(hist, Kept, work.next) = {}
           /\ work.next \in 1..(MaxPage + 1)
           /\ dirty \in [Pages -> Image \cup {Blank}]
<1>1. Sound /\ phase \in InTx /\ phase # "write" /\ Current \in DOMAIN hist /\ Current \in TxNumbers
  BY CurrentFacts, HistTypes, InvTypes DEF InTx
<1>2. Current \notin Kept
  BY <1>1 DEF FailStopInv, FilesInv, CurrentRecords
<1>3. /\ work \in Image /\ dirty \in [Pages -> Image \cup {Blank}] /\ Blank \notin Image
      /\ MaxPage \in Nat
  BY InvTypes, ImagesDiffer, BoundsAssumption DEF TypeOK
<1>4. /\ work = IF dirty[0] = Blank THEN catalog ELSE dirty[0]
      /\ work.next >= catalog.next /\ catalog.next >= 1
      /\ \A p \in DirtyPages : dirty[p].txs = TouchedBy(hist, Kept, p) \cup {Current}
  BY <1>1, <1>2 DEF FailStopInv, FilesInv, Staged
<1>5. ASSUME NEW image \in Image
      PROVE  Touch(image) \in Image /\ Touch(image).next = image.next
             /\ Touch(image).txs = image.txs \cup {Current}
  BY <1>1, InvTypes, TouchTypes DEF Touch, Image
<1>6. ASSUME NEW p \in Pages, Valid(LoadPage(p))
      PROVE  /\ Touch(LoadPage(p)) \in Image
             /\ Touch(LoadPage(p)).txs = TouchedBy(hist, Kept, p) \cup {Current}
  <2>1. LoadPage(p).txs \cup {Current} = TouchedBy(hist, Kept, p) \cup {Current}
    <3>1. CASE dirty[p] # Blank
      BY <3>1, <1>4 DEF LoadPage, DirtyPages
    <3>2. CASE dirty[p] = Blank
      BY <3>2, <1>1, <1>6, PagesRead DEF LoadPage
    <3> QED BY <3>1, <3>2
  <2> QED BY <2>1, <1>5, <1>6 DEF Valid
<1>7. work.txs \cup {Current} = TouchedBy(hist, Kept, 0) \cup {Current}
  <2>1. CASE dirty[0] # Blank
    BY <2>1, <1>4, InvTypes DEF DirtyPages
  <2>2. CASE dirty[0] = Blank
    BY <2>2, <1>1, <1>4, PagesRead, InvTypes DEF Valid
  <2> QED BY <2>1, <2>2
<1>8. work.next \in 1..(MaxPage + 1) /\ catalog.next \in Nat
  <2>1. work.next \in 0..(MaxPage + 1) /\ catalog.next \in 0..(MaxPage + 1)
    BY <1>1, <1>3, PagesRead DEF Image
  <2> QED BY <2>1, <1>3, <1>4
<1>9. TouchedBy(hist, Kept, work.next) = {}
  <2> SUFFICES ASSUME NEW i \in Kept, work.next \in hist[i].pages PROVE FALSE
    BY DEF TouchedBy
  <2>1. work.next < catalog.next
    BY <1>1, PagesRead
  <2> QED BY <2>1, <1>4, <1>8, <1>3
<1> QED BY <1>1, <1>2, <1>3, <1>5, <1>6, <1>7, <1>8, <1>9

\* Staging changes neither the files nor what is known of the transactions.
LEMMA StagingFrame ==
    ASSUME FailStopInv, phase = "active",
           UNCHANGED <<wal, walDurable, nextLsn, data, survive, catalog, nextTx, phase, erred,
                       hist, sessions>>
    PROVE  Numbering' /\ Records' /\ CurrentRecords' /\ Markers' /\ RightLog' /\ Safe'
<1>1. HistKeeps /\ Kept' = Kept /\ Sound' = Sound /\ Current' = Current
  BY SameHistKeeps DEF Kept, KeptIn, Sound, Current
<1>2. Records' /\ RightLog'
  BY <1>1, LogFrame
<1>3. Numbering' /\ Markers'
  BY <1>1 DEF FailStopInv, FilesInv, Numbering, Markers
<1>4. CurrentRecords'
  BY <1>1 DEF FailStopInv, FilesInv, CurrentRecords, Committing, InTx
<1>5. SafeInData' = SafeInData /\ SafeInLog' = SafeInLog
  BY <1>1 DEF SafeInData, SafeInLog
<1>6. Safe'
  BY <1>1, <1>5 DEF FailStopInv, FilesInv, Safe
<1> QED BY <1>2, <1>3, <1>4, <1>6

LEMMA StagingKeeps ==
    ASSUME FailStop, FailStopInv,
           Staging
    PROVE  FilesInv'
<1> USE DEF logVars, dataVars, storeVars, txVars, bounds
<1>1. /\ phase = "active" /\ ~spoiled
      /\ UNCHANGED <<wal, walDurable, nextLsn, data, survive, catalog, nextTx, phase, erred,
                     hist, sessions>>
  BY StagingSame DEF MayUseTx, FailStop
<1>2. Numbering' /\ Records' /\ CurrentRecords' /\ Markers' /\ RightLog' /\ Safe'
  BY <1>1, StagingFrame
<1>3. Kept' = Kept /\ Current' = Current /\ Kept \ {Current} = Kept /\ Sound /\ Sound' = Sound
  BY <1>1, StagingFacts DEF Kept, KeptIn, Current, Sound
<1>4. /\ catalog = data[0] /\ catalog.next >= 1
      /\ work = IF dirty[0] = Blank THEN catalog ELSE dirty[0]
      /\ work.next >= catalog.next
      /\ \A p \in DirtyPages : /\ dirty[p].txs = TouchedBy(hist, Kept, p) \cup {Current}
                               /\ p < work.next
  BY <1>1, <1>3 DEF FailStopInv, FilesInv, Staged
<1>n. catalog.next \in Nat /\ MaxPage \in Nat /\ Blank \notin Image /\ 0 \in Pages /\ Pages \subseteq Nat
  BY <1>1, <1>3, PagesRead, BoundsAssumption, ImagesDiffer, InvTypes DEF Image, Pages
<1>f. CASE spoiled'
  <2>1. Staged'
    BY <1>1, <1>3, <1>4, <1>f DEF Staged, Committing
  <2> QED BY <2>1, <1>2 DEF FilesInv
<1> DEFINE Good == /\ work' = IF dirty'[0] = Blank THEN catalog ELSE dirty'[0]
                   /\ work'.next >= catalog.next
                   /\ \A p \in Pages : dirty'[p] # Blank =>
                         /\ dirty'[p].txs = TouchedBy(hist, Kept, p) \cup {Current}
                         /\ p < work'.next
<1>5. SUFFICES ASSUME ~spoiled' PROVE Good
  <2>1. Staged'
    BY <1>1, <1>3, <1>4, <1>5 DEF Staged, DirtyPages, Committing
  <2> QED BY <2>1, <1>2, <1>f DEF FilesInv
<1>c. ASSUME NEW c \in Image, NEW staged, MarkCatalogDirty(c, staged)
      PROVE  work' = c /\ dirty' = [staged EXCEPT ![0] = c]
  <2>1. c.next \in Nat /\ CatalogCapacity \in Nat
    BY <1>n, BoundsAssumption DEF Image
  <2>2. ~(c.next > CatalogCapacity)
    BY <1>c, <1>5, Zenon DEF MarkCatalogDirty
  <2> QED BY <1>c, <2>1, <2>2 DEF MarkCatalogDirty
<1>6. CASE RegisterExtension
  <2>1. work' = Touch(work) /\ dirty' = [dirty EXCEPT ![0] = Touch(work)]
    BY <1>6, <1>1, <1>c, StagingFacts DEF RegisterExtension
  <2> QED BY <2>1, <1>1, <1>4, <1>n, StagingFacts DEF DirtyPages
<1>7. CASE AllocatePage
  <2> DEFINE c == [next |-> work.next + 1, txs |-> work.txs \cup {Current}]
             fresh == [next |-> 0, txs |-> {Current}]
  <2>1. /\ work.next <= MaxPage /\ work.next \in Pages /\ work.next \in Nat /\ work.next # 0
    BY <1>7, <1>1, <1>n, StagingFacts, BoundsAssumption DEF AllocatePage, Pages
  <2>2. c \in Image /\ fresh \in Image
    <3>1. work.txs \in SUBSET TxNumbers /\ Current \in TxNumbers
      BY <1>1, StagingFacts DEF Image
    <3> QED BY <3>1, <2>1, <1>n DEF Image
  <2>3. work' = c /\ dirty' = [[dirty EXCEPT ![work.next] = fresh] EXCEPT ![0] = c]
    <3>1. MarkCatalogDirty(c, [dirty EXCEPT ![work.next] = fresh])
      BY <1>7 DEF AllocatePage, NextPageTaken, NewPage
    <3> QED BY <3>1, <2>2, <1>c
  <2>4. dirty'[0] = c /\ dirty'[work.next] = fresh
        /\ \A p \in Pages : p # 0 /\ p # work.next => dirty'[p] = dirty[p]
    BY <2>1, <2>3, <1>1, <1>n, StagingFacts
  <2>5. c.next = work.next + 1 /\ c.txs = TouchedBy(hist, Kept, 0) \cup {Current}
        /\ fresh.txs = TouchedBy(hist, Kept, work.next) \cup {Current}
    BY <1>1, StagingFacts
  <2> HIDE DEF c, fresh
  <2>6. work' = IF dirty'[0] = Blank THEN catalog ELSE dirty'[0]
    BY <2>2, <2>3, <2>4, <1>n
  <2>7. work'.next = work.next + 1 /\ work'.next >= catalog.next
    BY <2>1, <2>3, <2>5, <1>4, <1>n
  <2>8. ASSUME NEW p \in Pages, dirty'[p] # Blank
        PROVE  /\ dirty'[p].txs = TouchedBy(hist, Kept, p) \cup {Current}
               /\ p < work'.next
    <3>1. CASE p = 0 \/ p = work.next
      BY <3>1, <2>1, <2>4, <2>5, <2>7
    <3>2. CASE p # 0 /\ p # work.next
      <4>1. p \in DirtyPages /\ dirty'[p] = dirty[p]
        BY <3>2, <2>4, <2>8 DEF DirtyPages
      <4> QED BY <4>1, <2>1, <2>7, <1>4, <1>n
    <3> QED BY <3>1, <3>2
  <2> QED BY <2>6, <2>7, <2>8
<1>8. ASSUME NEW p \in Pages, InsertRow(p)
      PROVE  Good
  <2>1. work' = work /\ dirty' = [dirty EXCEPT ![p] = Touch(LoadPage(p))] /\ Valid(LoadPage(p))
        /\ p \in 1..(work.next - 1)
    BY <1>8 DEF InsertRow
  <2>2. p # 0 /\ p < work.next
    BY <2>1, <1>1, StagingFacts
  <2> QED BY <2>1, <2>2, <1>1, <1>4, <1>n, StagingFacts DEF DirtyPages
<1>9. ASSUME NEW p \in Pages, InsertIndexEntry(p)
      PROVE  Good
  <2>1. /\ Valid(LoadPage(p)) /\ p \in 1..(work.next - 1)
        /\ MarkCatalogDirty(Touch(work), [dirty EXCEPT ![p] = Touch(LoadPage(p))])
    BY <1>9 DEF InsertIndexEntry
  <2>2. p # 0 /\ p < work.next
    BY <2>1, <1>1, StagingFacts
  <2>3. /\ work' = Touch(work)
        /\ dirty' = [[dirty EXCEPT ![p] = Touch(LoadPage(p))] EXCEPT ![0] = Touch(work)]
    BY <2>1, <1>1, <1>c, StagingFacts
  <2> QED BY <2>1, <2>2, <2>3, <1>1, <1>4, <1>n, StagingFacts DEF DirtyPages
<1>10. ASSUME NEW p \in Pages, InsertRowFails(p) \/ InsertIndexEntryFails(p)
       PROVE  FALSE
  BY <1>10, <1>5 DEF InsertRowFails, InsertIndexEntryFails
<1> QED BY <1>6, <1>7, <1>8, <1>9, <1>10 DEF Staging

-----------------------------------------------------------------------------
(* Appending to the log. *)

\* A record that commits nothing, appended while the data file is safe.
LEMMA GrowFrame ==
    ASSUME FailStopInv, Sound, phase \notin {"walSync", "write"},
           NEW rec \in LogRecord, Append_(rec),
           rec.kind \notin {"garbage", "commit"},
           rec.kind = "image" => rec.tx \notin Kept,
           Kept' = Kept, \A i \in Kept : hist'[i].pages = hist[i].pages,
           data' = data, survive' = survive
    PROVE  /\ Committed(wal) = Kept /\ Committed(wal') = Kept
           /\ Markers' /\ RightLog' /\ SafeInData'
<1>1. Committed(wal) = Kept
  BY DEF FailStopInv, FilesInv, Markers, Committed
<1>2. Committed(wal') = Kept /\ SameImages(wal, wal', Kept)
  BY <1>1, GrowMeaning
<1>3. RightLog'
  <2>1. Right(wal', hist', Kept)
    BY <1>2, RightFrame DEF FailStopInv, FilesInv, RightLog
  <2> QED BY <2>1, <1>2 DEF RightLog
<1>4. SafeInData'
  <2>1. SafeInData
    BY DEF FailStopInv, FilesInv, Safe
  <2> QED BY <2>1, <1>2, AgreesFrame DEF SafeInData
<1>5. Markers'
  <2>1. /\ \A k \in DOMAIN wal' : (k \in DOMAIN wal /\ wal'[k] = wal[k]) \/ wal'[k] = rec
        /\ walDurable' = walDurable
    BY GrowFacts
  <2>2. \A k \in DOMAIN wal' : wal'[k].kind \in {"image", "commit"} /\ wal'[k].tx \in Kept =>
           k <= walDurable
    BY <2>1 DEF FailStopInv, FilesInv, Markers
  <2>3. \A k \in DOMAIN wal' : wal'[k].kind = "commit" => wal'[k].tx \in Kept
    BY <1>2 DEF Committed
  <2> QED BY <1>2, <2>1, <2>2, <2>3 DEF Markers
<1> QED BY <1>1, <1>2, <1>3, <1>4, <1>5

LEMMA BeginKeeps ==
    ASSUME FailStop, FailStopInv, Begin
    PROVE  FilesInv'
<1> USE DEF logVars, dataVars, storeVars, txVars, bounds
<1> DEFINE n == Len(hist) + 1
           rec == BeginTx(nextTx, n)
<1>1. /\ phase = "idle" /\ ~erred /\ Sound /\ phase' = "active" /\ erred' = erred
      /\ data' = data /\ survive' = survive /\ sessions' = sessions /\ catalog' = catalog
      /\ Append_(rec) /\ nextTx' = nextTx + 1
      /\ hist' = Append(hist, [id |-> nextTx, outcome |-> "active", pages |-> {}])
      /\ work' = catalog /\ dirty' = NothingDirty /\ todo' = {}
  BY DEF Begin, BeginAllowed, FailStop, Sound
<1>2. nextTx = n /\ n \in Nat /\ sessions = 1
  BY <1>1, InvTypes DEF FailStopInv, FilesInv, Numbering
<1>3. rec \in LogRecord /\ rec.kind = "begin" /\ rec.tx = n /\ rec.by = n
  BY <1>2, RecordFacts, EmptyFacts DEF BeginTx, Record
<1>4. /\ Len(hist') = n /\ DOMAIN hist' = 1..n
      /\ hist'[n] = [id |-> n, outcome |-> "active", pages |-> {}]
      /\ \A i \in DOMAIN hist : i \in DOMAIN hist' /\ hist'[i] = hist[i]
      /\ \A i \in DOMAIN hist' : i \in DOMAIN hist \/ i = n
  BY <1>1, <1>2, InvTypes
<1>5. Kept' = Kept /\ n \notin Kept /\ Kept \subseteq DOMAIN hist /\ n \notin DOMAIN hist
  BY <1>4, InvTypes DEF Kept, KeptIn
<1>6. Current' = n /\ Sound'
  BY <1>1, <1>4 DEF Current, Sound, InTx
<1> HIDE DEF n, rec
<1>7. Records'
  BY <1>1, <1>3, <1>4, GrowRecords
<1>8. Markers' /\ RightLog' /\ SafeInData' /\ Committed(wal') = Kept
  BY <1>1, <1>3, <1>4, <1>5, GrowFrame
<1>9. Numbering'
  <2>1. nextLsn' = Len(wal') + 1 /\ ReadAllOk(wal')
    BY <1>1, <1>3, GrowFacts, GrowMeaning
  <2>2. \A i \in DOMAIN hist' : hist'[i].id = i
    BY <1>4 DEF FailStopInv, FilesInv, Numbering
  <2> QED BY <1>1, <1>2, <1>4, <2>1, <2>2 DEF Numbering, n
<1>10. CurrentRecords'
  <2>1. Aborted(wal') = Aborted(wal) /\ Aborted(wal) \subseteq DOMAIN hist
    BY <1>1, <1>3, GrowMeaning DEF FailStopInv, FilesInv, Records, Aborted
  <2>2. \A k \in DOMAIN wal' : wal'[k].kind = "image" => wal'[k].tx # n
    BY <1>1, <1>3, <1>5, GrowFacts DEF FailStopInv, FilesInv, Records
  <2> QED BY <1>1, <1>5, <1>6, <1>8, <2>1, <2>2 DEF CurrentRecords, Committing, InTx
<1>11. Safe'
  BY <1>1, <1>8 DEF FailStopInv, FilesInv, Safe
<1>12. Staged'
  <2>1. DirtyPages' = {} /\ dirty'[0] = Blank
    BY <1>1, InvTypes DEF DirtyPages, NothingDirty
  <2>2. catalog = data[0] /\ catalog.next >= 1 /\ catalog.next \in Nat
    <3>1. catalog = data[0] /\ catalog.next \in 0..(MaxPage + 1)
      BY <1>1, PagesRead DEF Image
    <3> QED BY <1>1, <3>1, BoundsAssumption DEF FailStopInv, FilesInv, Staged
  <2> QED BY <1>1, <2>1, <2>2 DEF Staged, Committing
<1> QED BY <1>7, <1>8, <1>9, <1>10, <1>11, <1>12 DEF FilesInv

LEMMA CommitKeeps ==
    ASSUME FailStop, FailStopInv, Commit
    PROVE  FilesInv'
<1> USE DEF logVars, dataVars, storeVars, txVars, bounds
<1>1. /\ phase = "active" /\ ~spoiled /\ phase \in InTx /\ phase' = "images" /\ todo' = DirtyPages
      /\ UNCHANGED <<wal, walDurable, nextLsn, data, survive, catalog, nextTx, work, dirty, erred,
                     sessions>>
  BY InvTypes DEF Commit, MayUseTx, FailStop, InTx, TypeOK
<1>2. Current \in DOMAIN hist /\ Current = Len(hist) /\ Sound /\ Sound' /\ TxId = Current
  BY <1>1, CurrentFacts DEF Sound, InTx, Committing
<1>3. Current \notin Committed(wal) /\ Current \notin Kept
  BY <1>1 DEF FailStopInv, FilesInv, CurrentRecords
<1>4. /\ DOMAIN hist' = DOMAIN hist /\ Len(hist') = Len(hist)
      /\ \A i \in DOMAIN hist : i # Current => hist'[i] = hist[i]
      /\ hist'[Current].id = TxId /\ hist'[Current].outcome = "active"
  BY <1>2, InvTypes DEF Commit, MayUseTx
<1>5. HistKeeps /\ Kept' = Kept /\ Current' = Current
  BY <1>2, <1>3, <1>4 DEF HistKeeps, Kept, KeptIn, Current, TxId
<1>6. Records' /\ RightLog' /\ \A i \in DOMAIN hist' : hist'[i].id = i
  BY <1>1, <1>5, LogFrame
<1>7. Numbering'
  BY <1>1, <1>2, <1>4, <1>6 DEF FailStopInv, FilesInv, Numbering
<1>8. CurrentRecords'
  BY <1>1, <1>3, <1>5 DEF FailStopInv, FilesInv, CurrentRecords, Committing, InTx
<1>9. Markers'
  BY <1>1, <1>2, <1>5 DEF FailStopInv, FilesInv, Markers
<1>10. Safe'
  <2>1. SafeInData'
    BY <1>1, <1>2, <1>5 DEF FailStopInv, FilesInv, Safe, SafeInData
  <2> QED BY <1>1, <2>1 DEF FailStopInv, FilesInv, Safe
<1>11. Staged'
  <2>1. \A p : TouchedBy(hist', Kept' \ {Current'}, p) = TouchedBy(hist, Kept \ {Current}, p)
    BY <1>4, <1>5 DEF TouchedBy, Kept, KeptIn
  <2> QED BY <1>1, <1>2, <1>5, <2>1 DEF FailStopInv, FilesInv, Staged, DirtyPages, Committing
<1> QED BY <1>6, <1>7, <1>8, <1>9, <1>10, <1>11 DEF FilesInv

LEMMA AppendImageKeeps ==
    ASSUME FailStop, FailStopInv, AppendImage
    PROVE  FilesInv'
<1> USE DEF logVars, dataVars, storeVars, txVars, bounds
<1> DEFINE q == Least(todo)
           rec == PageImage(TxId, q, dirty[q], Current)
<1>1. /\ phase = "images" /\ phase \in InTx /\ phase \in Committing /\ todo # {} /\ phase' = phase
      /\ todo' = todo \ {q} /\ Append_(rec)
      /\ UNCHANGED <<data, survive, catalog, nextTx, activeWriter, work, dirty, erred, hist, sessions>>
  BY DEF AppendImage, InTx, Committing
<1>2. /\ Current \in DOMAIN hist /\ Current = Len(hist) /\ Sound /\ Sound' /\ TxId = Current
      /\ Current \in Nat /\ Current' = Current /\ Kept' = Kept
  BY <1>1, CurrentFacts DEF Sound, Current, Kept, KeptIn
<1>3. q \in DirtyPages /\ q \in Pages /\ dirty[q] \in Image
  <2>1. q \in todo
    BY <1>1, InvTypes, LeastFacts DEF TypeOK
  <2>2. todo \subseteq DirtyPages
    BY <1>1 DEF FailStopInv, FilesInv, Staged
  <2> QED BY <2>1, <2>2, InvTypes DEF DirtyPages, TypeOK
<1>4. /\ rec \in LogRecord /\ rec.kind = "image" /\ rec.tx = Current /\ rec.by = Current
      /\ rec.page = q /\ rec.image = dirty[q]
  BY <1>2, <1>3, RecordFacts DEF PageImage, Record
<1>5. Current \notin Kept /\ Current \notin Committed(wal) /\ Current \notin Aborted(wal)
  BY <1>1 DEF FailStopInv, FilesInv, CurrentRecords
<1> HIDE DEF rec, q
<1>6. Records'
  BY <1>1, <1>2, <1>3, <1>4, InvTypes, GrowRecords
<1>7. Markers' /\ RightLog' /\ SafeInData' /\ Committed(wal') = Kept
  BY <1>1, <1>2, <1>4, <1>5, GrowFrame
<1>8. Numbering'
  <2>1. nextLsn' = Len(wal') + 1 /\ ReadAllOk(wal')
    BY <1>1, <1>2, <1>4, GrowFacts, GrowMeaning
  <2>2. sessions = 1
    BY <1>1 DEF FailStopInv, FilesInv, Numbering
  <2> QED BY <1>1, <1>2, <2>1, <2>2 DEF FailStopInv, FilesInv, Numbering
<1>9. CurrentRecords'
  <2>1. Aborted(wal') = Aborted(wal)
    BY <1>1, <1>2, <1>4, GrowMeaning
  <2>2. ASSUME NEW k \in DOMAIN wal', wal'[k].kind = "image", wal'[k].tx = Current
        PROVE  dirty[wal'[k].page] = wal'[k].image
    <3>1. CASE k \in DOMAIN wal /\ wal'[k] = wal[k]
      BY <3>1, <2>2, <1>1 DEF FailStopInv, FilesInv, CurrentRecords
    <3>2. CASE wal'[k] = rec
      BY <3>2, <1>4
    <3> QED BY <3>1, <3>2, <1>1, <1>2, <1>4, GrowFacts
  <2> QED BY <1>1, <1>2, <1>5, <1>7, <2>1, <2>2 DEF CurrentRecords, Committing, InTx
<1>10. Safe'
  BY <1>1, <1>7 DEF FailStopInv, FilesInv, Safe
<1>11. Staged'
  BY <1>1, <1>2 DEF FailStopInv, FilesInv, Staged, DirtyPages
<1> QED BY <1>6, <1>7, <1>8, <1>9, <1>10, <1>11 DEF FilesInv

-----------------------------------------------------------------------------
(* The commit marker. *)

\* The records of the transaction in progress are the last ones of the log.
LEMMA LastIsCurrent ==
    ASSUME FailStopInv, phase \in Committing, NEW T, Current \in T,
           NEW p \in Pages, NEW j \in DOMAIN wal,
           wal[j].kind = "image", wal[j].tx = Current, wal[j].page = p,
           NEW k \in DOMAIN wal, IsLast(wal, T, p, k)
    PROVE  wal[k].image = dirty[p] /\ wal[k].tx = Current
<1>1. /\ Current = Len(hist) /\ Current \in Nat
      /\ wal[k].kind = "image" /\ wal[k].page = p /\ j <= k /\ k \in Nat /\ j \in Nat
  BY InvTypes, CurrentFacts DEF IsLast, ImagesBy, InTx
<1>2. wal[k].tx = Current
  <2>1. wal[k].tx \in 1..Len(hist)
    BY <1>1, InvTypes DEF FailStopInv, FilesInv, Records
  <2>2. j = k \/ wal[j].tx <= wal[k].tx
    BY <1>1 DEF FailStopInv, FilesInv, Records
  <2> QED BY <1>1, <2>1, <2>2
<1> QED BY <1>1, <1>2 DEF FailStopInv, FilesInv, CurrentRecords

\* It logs images of its dirty pages only.
LEMMA CleanPages ==
    ASSUME FailStopInv, phase \in Committing, NEW p \in Pages \ DirtyPages, NEW T
    PROVE  ImagesBy(wal, T \cup {Current}, p) = ImagesBy(wal, T, p)
<1>1. \A k \in DOMAIN wal : wal[k].kind = "image" /\ wal[k].tx = Current => wal[k].page # p
  <2> SUFFICES ASSUME NEW k \in DOMAIN wal, wal[k].kind = "image", wal[k].tx = Current,
                      wal[k].page = p
               PROVE  FALSE
    OBVIOUS
  <2>1. dirty[p] \in Image
    BY DEF FailStopInv, FilesInv, CurrentRecords, Records
  <2> QED BY <2>1, ImagesDiffer DEF DirtyPages
<1> QED BY <1>1 DEF ImagesBy

LEMMA CleanAgrees ==
    ASSUME FailStopInv, phase \in Committing, NEW p \in Pages \ DirtyPages, NEW T
    PROVE  /\ \A k : IsLast(wal, T \cup {Current}, p, k) <=> IsLast(wal, T, p, k)
           /\ \A v : Agrees(wal, T \cup {Current}, p, v) <=> Agrees(wal, T, p, v)
<1>1. ImagesBy(wal, T \cup {Current}, p) = ImagesBy(wal, T, p)
  BY CleanPages
<1> QED BY <1>1 DEF IsLast, Agrees

\* All images logged: with the marker the log is right for one more transaction.
LEMMA CommitRight ==
    ASSUME FailStopInv, phase = "images", todo = {}
    PROVE  Right(wal, hist, Kept \cup {Current})
<1> DEFINE T == Kept \cup {Current}
<1>1. /\ phase \in Committing /\ phase \in InTx /\ Sound /\ phase # "write"
      /\ Current \in DOMAIN hist /\ TxId = Current /\ Current \in Nat
  BY CurrentFacts DEF Committing, InTx
<1>2. /\ Current \notin Kept /\ Kept \ {Current} = Kept /\ hist[Current].pages = DirtyPages
      /\ Right(wal, hist, Kept)
  BY <1>1 DEF FailStopInv, FilesInv, CurrentRecords, RightLog, StoreInv, WriteProgress
<1>3. ASSUME NEW p \in DirtyPages
      PROVE  /\ ImagesBy(wal, T, p) # {}
             /\ \A k \in DOMAIN wal : IsLast(wal, T, p, k) => wal[k].image = dirty[p]
  <2>1. PICK j \in 1..Len(wal) : wal[j] = PageImage(TxId, p, dirty[p], Current)
    BY DEF FailStopInv, StoreInv, CommitProgress
  <2>2. /\ j \in DOMAIN wal /\ wal[j].kind = "image" /\ wal[j].tx = Current /\ wal[j].page = p
        /\ p \in Pages
    BY <1>1, <2>1, InvTypes DEF PageImage, Record, DirtyPages
  <2>3. j \in ImagesBy(wal, T, p)
    BY <2>2 DEF ImagesBy
  <2> QED BY <1>1, <2>2, <2>3, LastIsCurrent
<1>4. ASSUME NEW p \in DirtyPages
      PROVE  dirty[p].txs = TouchedBy(hist, T, p) /\ p < work.next
  <2>1. /\ dirty[p].txs = TouchedBy(hist, Kept, p) \cup {Current}
        /\ p < work.next
    BY <1>1, <1>2 DEF FailStopInv, FilesInv, Staged
  <2>2. TouchedBy(hist, T, p) = TouchedBy(hist, Kept, p) \cup {Current}
    BY <1>2 DEF TouchedBy
  <2> QED BY <2>1, <2>2
<1>5. ASSUME NEW p \in Pages \ DirtyPages
      PROVE  /\ TouchedBy(hist, T, p) = TouchedBy(hist, Kept, p)
             /\ ImagesBy(wal, T, p) = ImagesBy(wal, Kept, p)
             /\ \A k : IsLast(wal, T, p, k) <=> IsLast(wal, Kept, p, k)
  BY <1>1, <1>2, CleanPages, CleanAgrees DEF TouchedBy
<1> HIDE DEF T
<1>6. RightTxs(wal, hist, T)
  <2> SUFFICES ASSUME NEW p \in Pages
               PROVE  /\ ImagesBy(wal, T, p) = {} => TouchedBy(hist, T, p) = {}
                      /\ \A k \in DOMAIN wal : IsLast(wal, T, p, k) =>
                            wal[k].image.txs = TouchedBy(hist, T, p)
    BY DEF RightTxs
  <2>1. CASE p \in DirtyPages
    BY <2>1, <1>3, <1>4
  <2>2. CASE p \notin DirtyPages
    BY <2>2, <1>2, <1>5 DEF Right, RightTxs
  <2> QED BY <2>1, <2>2
<1>7. ASSUME NEW i \in T, NEW p \in hist[i].pages PROVE p < work.next /\ p \in Nat
  <2>1. p \in Pages /\ Pages \subseteq Nat /\ i \in DOMAIN hist
    <3>1. i \in DOMAIN hist
      BY <1>1 DEF T, Kept, KeptIn
    <3> QED BY <3>1, InvTypes DEF HistEntry, Pages
  <2>2. catalog.next \in Nat /\ work.next \in Nat /\ work.next >= catalog.next
    <3>1. catalog \in Image /\ work \in Image
      BY InvTypes DEF TypeOK
    <3>2. catalog.next \in 0..(MaxPage + 1) /\ work.next \in 0..(MaxPage + 1)
      BY <3>1 DEF Image
    <3> QED BY <1>1, <3>2, BoundsAssumption DEF FailStopInv, FilesInv, Staged
  <2>3. CASE i \in Kept
    <3>1. p < catalog.next
      BY <1>1, <2>3, PagesRead
    <3> QED BY <2>1, <2>2, <3>1
  <2>4. CASE i = Current
    BY <1>2, <1>4, <2>1, <2>4
  <2> QED BY <2>3, <2>4 DEF T
<1>8. ASSUME NEW i \in T, NEW p \in hist[i].pages
      PROVE  /\ ImagesBy(wal, T, 0) # {}
             /\ \A k \in DOMAIN wal : IsLast(wal, T, 0, k) => p < wal[k].image.next
  <2>1. work = IF dirty[0] = Blank THEN catalog ELSE dirty[0]
    BY <1>1 DEF FailStopInv, FilesInv, Staged
  <2>2. CASE dirty[0] # Blank
    BY <1>3, <1>7, <1>8, <2>1, <2>2, InvTypes DEF DirtyPages
  <2>3. CASE dirty[0] = Blank
    <3>1. 0 \in Pages \ DirtyPages
      BY <2>3, InvTypes DEF DirtyPages
    <3>2. work = catalog /\ Agrees(wal, Kept, 0, catalog) /\ catalog \in Image
      BY <1>1, <2>1, <2>3, <3>1, PagesRead
    <3>3. CASE i \in Kept
      BY <1>2, <1>5, <1>8, <3>1, <3>3 DEF Right, RightNext
    <3>4. CASE i = Current
      <4>1. p # 0 /\ p \in Nat /\ p < catalog.next
        BY <1>2, <1>7, <1>8, <3>1, <3>2, <3>4
      <4>2. catalog \notin Untouched(0)
        BY <4>1, <3>2, ImagesDiffer DEF Untouched, EmptyCatalog
      <4>3. /\ ImagesBy(wal, Kept, 0) # {}
            /\ \E k \in DOMAIN wal : IsLast(wal, Kept, 0, k) /\ catalog = wal[k].image
        BY <4>2, <3>2 DEF Agrees
      <4> QED BY <4>1, <4>3, <1>5, <3>1, InvTypes, LastExists
    <3> QED BY <3>3, <3>4 DEF T
  <2> QED BY <2>2, <2>3
<1>9. RightNext(wal, hist, T)
  BY <1>8 DEF RightNext
<1> QED BY <1>6, <1>9 DEF Right, T

LEMMA AppendCommitKeeps ==
    ASSUME FailStop, FailStopInv, AppendCommit
    PROVE  FilesInv'
<1> USE DEF logVars, dataVars, storeVars, txVars, bounds
<1> DEFINE rec == CommitTx(TxId, Current)
<1>1. /\ phase = "images" /\ phase \in InTx /\ phase \in Committing /\ todo = {}
      /\ phase' = "walSync" /\ Append_(rec)
      /\ UNCHANGED <<data, survive, catalog, nextTx, work, dirty, todo, erred, hist, sessions>>
  BY DEF AppendCommit, InTx, Committing
<1>2. /\ Current \in DOMAIN hist /\ Current = Len(hist) /\ Sound /\ Sound' /\ TxId = Current
      /\ Current \in Nat /\ Current' = Current /\ Kept' = Kept
  BY <1>1, CurrentFacts DEF Sound, Current, Kept, KeptIn, InTx, Committing
<1>3. rec \in LogRecord /\ rec.kind = "commit" /\ rec.tx = Current /\ rec.by = Current
  BY <1>2, RecordFacts, EmptyFacts DEF CommitTx, Record
<1>4. Current \notin Kept /\ Current \notin Committed(wal) /\ Current \notin Aborted(wal)
  BY <1>1 DEF FailStopInv, FilesInv, CurrentRecords
<1> HIDE DEF rec
<1>5. Records'
  BY <1>1, <1>2, <1>3, <1>4, InvTypes, GrowRecords
<1>6. Committed(wal) = Kept /\ Committed(wal') = Kept \cup {Current}
  <2>1. Committed(wal) = Kept
    BY <1>1, <1>2 DEF FailStopInv, FilesInv, Markers, Committed
  <2> QED BY <2>1, <1>1, <1>2, <1>3, GrowMeaning
<1>7. \A T : SameImages(wal, wal', T)
  BY <1>1, <1>2, <1>3, GrowMeaning
<1>8. Numbering'
  <2>1. nextLsn' = Len(wal') + 1 /\ ReadAllOk(wal')
    BY <1>1, <1>2, <1>3, GrowFacts, GrowMeaning
  <2>2. sessions = 1
    BY <1>1 DEF FailStopInv, FilesInv, Numbering
  <2> QED BY <1>1, <1>2, <2>1, <2>2 DEF FailStopInv, FilesInv, Numbering
<1>9. CurrentRecords'
  <2>1. ASSUME NEW k \in DOMAIN wal', wal'[k].kind = "image"
        PROVE  k \in DOMAIN wal /\ wal'[k] = wal[k]
    BY <2>1, <1>1, <1>2, <1>3, GrowFacts
  <2>2. \A k \in DOMAIN wal' : wal'[k].kind = "image" /\ wal'[k].tx = Current =>
           dirty[wal'[k].page] = wal'[k].image
    BY <2>1, <1>1 DEF FailStopInv, FilesInv, CurrentRecords
  <2> QED BY <1>1, <1>2, <1>4, <2>2 DEF CurrentRecords, Committing, InTx
<1>10. Markers'
  <2>1. /\ \A k \in DOMAIN wal' : \/ k \in DOMAIN wal /\ wal'[k] = wal[k]
                                  \/ k = Len(wal') /\ wal'[k] = rec
        /\ walDurable' = walDurable
    BY <1>1, <1>2, <1>3, GrowFacts
  <2>2. \A k \in DOMAIN wal' : wal'[k].kind \in {"image", "commit"} /\ wal'[k].tx \in Kept =>
           k <= walDurable
    BY <2>1, <1>3, <1>4 DEF FailStopInv, FilesInv, Markers
  <2>3. \A k \in DOMAIN wal' : wal'[k].kind = "commit" /\ wal'[k].tx \notin Kept => k = Len(wal')
    BY <2>1, <1>6 DEF Committed
  <2>4. ReadAllOk(wal')
    BY <1>1, <1>2, <1>3, GrowMeaning
  <2> QED BY <1>1, <1>2, <1>6, <2>1, <2>2, <2>3, <2>4 DEF Markers
<1>11. RightLog'
  <2>1. Right(wal', hist', Kept)
    BY <1>1, <1>7, RightFrame DEF FailStopInv, FilesInv, RightLog
  <2>2. Right(wal', hist', Kept \cup {Current})
    BY <1>1, <1>7, CommitRight, RightFrame
  <2> QED BY <1>2, <1>6, <2>1, <2>2 DEF RightLog
<1>12. Safe'
  <2>1. SafeInData'
    BY <1>1, <1>2, <1>7, AgreesFrame DEF FailStopInv, FilesInv, Safe, SafeInData
  <2> QED BY <1>1, <2>1 DEF FailStopInv, FilesInv, Safe
<1>13. Staged'
  BY <1>1, <1>2 DEF FailStopInv, FilesInv, Staged, DirtyPages, Committing
<1> QED BY <1>5, <1>8, <1>9, <1>10, <1>11, <1>12, <1>13 DEF FilesInv

-----------------------------------------------------------------------------
(* From the log sync to the data sync. *)

LEMMA WalSyncKeeps ==
    ASSUME FailStop, FailStopInv, WalSync
    PROVE  FilesInv'
<1> USE DEF logVars, dataVars, storeVars, txVars, bounds
<1>1. /\ phase = "walSync" /\ phase \in InTx /\ phase \in Committing
      /\ phase' = "write" /\ walDurable' = Len(wal) /\ todo' = DirtyPages
      /\ hist' = WithOutcome("logged")
      /\ UNCHANGED <<wal, nextLsn, data, survive, catalog, nextTx, work, dirty, erred, sessions>>
  BY DEF WalSync, InTx, Committing
<1>2. /\ Current \in DOMAIN hist /\ Current = Len(hist) /\ Sound /\ Sound' /\ TxId = Current
      /\ Current \notin Kept
  BY <1>1, CurrentFacts DEF Sound, InTx, Committing, FailStopInv, FilesInv, CurrentRecords
<1>3. /\ DOMAIN hist' = DOMAIN hist /\ Len(hist') = Len(hist)
      /\ \A i \in DOMAIN hist : i # Current => hist'[i] = hist[i]
      /\ hist'[Current] = [id |-> Current, outcome |-> "logged", pages |-> hist[Current].pages]
  BY <1>1, <1>2, InvTypes DEF WithOutcome
<1>4. Current' = Current /\ Kept' = Kept \cup {Current}
  BY <1>2, <1>3 DEF Current, Kept, KeptIn
<1>5. \A i \in DOMAIN hist : hist'[i].id = hist[i].id /\ hist'[i].pages = hist[i].pages
  BY <1>2, <1>3 DEF TxId
<1>6. Committed(wal) = Kept \cup {Current} /\ DirtyPages' = DirtyPages
  <2>1. PICK m \in 1..Len(wal) : wal[m] = CommitTx(TxId, Current)
    BY <1>1 DEF FailStopInv, StoreInv, CommitProgress, Logged
  <2>2. m \in DOMAIN wal /\ wal[m].kind = "commit" /\ wal[m].tx = Current
    BY <2>1, <1>2, InvTypes DEF CommitTx, Record
  <2>3. m = Len(wal)
    BY <2>2, <1>2 DEF FailStopInv, FilesInv, Markers
  <2>4. ASSUME NEW i \in Committed(wal) PROVE i \in Kept \cup {Current}
    <3>1. PICK k \in DOMAIN wal : wal[k].kind = "commit" /\ wal[k].tx = i
      BY <2>4 DEF Committed
    <3>2. i \notin Kept => k = Len(wal)
      BY <3>1 DEF FailStopInv, FilesInv, Markers
    <3> QED BY <2>2, <2>3, <3>1, <3>2
  <2>5. Kept \cup {Current} \subseteq Committed(wal)
    BY <2>2 DEF FailStopInv, FilesInv, Markers, Committed
  <2> QED BY <1>1, <2>4, <2>5 DEF DirtyPages
<1>7. Records'
  BY <1>1, <1>3 DEF FailStopInv, FilesInv, Records
<1>8. RightLog'
  <2>1. Right(wal, hist, Kept \cup {Current}) /\ SameImages(wal, wal, Kept \cup {Current})
    BY <1>6 DEF FailStopInv, FilesInv, RightLog, SameImages
  <2>2. Right(wal, hist', Kept \cup {Current})
    BY <2>1, <1>2, <1>5, RightFrame DEF Kept, KeptIn
  <2> QED BY <2>2, <1>1, <1>4, <1>6 DEF RightLog
<1>9. Numbering'
  BY <1>1, <1>2, <1>3, <1>5 DEF FailStopInv, FilesInv, Numbering
<1>10. CurrentRecords'
  BY <1>1, <1>4 DEF FailStopInv, FilesInv, CurrentRecords, Committing, InTx
<1>11. Markers'
  <2>1. \A k \in DOMAIN wal : wal[k].kind = "commit" => wal[k].tx \in Kept \cup {Current}
    BY <1>6 DEF Committed
  <2> QED BY <2>1, <1>1, <1>4, <1>6, InvTypes DEF Markers
<1>12. Safe'
  <2>1. SafeInData /\ ReadAllOk(wal) /\ \A p \in Pages : data[p] \in survive[p]
    BY <1>1, <1>2 DEF FailStopInv, FilesInv, Safe, Numbering
  <2>2. ASSUME NEW p \in Pages, ImagesBy(wal, Committed(wal), p) = {}, NEW v \in survive[p]
        PROVE  v \in Untouched(p)
    <3>1. ImagesBy(wal, Kept, p) = {}
      BY <2>2, <1>6 DEF ImagesBy
    <3> QED BY <2>1, <2>2, <3>1 DEF SafeInData, Agrees
  <2>3. SafeInLog'
    BY <1>1, <2>1, <2>2 DEF SafeInLog
  <2>4. \A p \in Pages \ DirtyPages : Agrees(wal, Kept \cup {Current}, p, data[p])
    BY <2>1, <1>1, CleanAgrees DEF SafeInData
  <2> QED BY <1>1, <1>4, <1>6, <2>1, <2>3, <2>4 DEF Safe
<1>13. Staged'
  <2>1. \A p : TouchedBy(hist', Kept' \ {Current'}, p) = TouchedBy(hist, Kept \ {Current}, p)
    BY <1>2, <1>4, <1>5 DEF TouchedBy, Kept, KeptIn
  <2>2. /\ catalog = data[0] /\ catalog.next >= 1
        /\ work = (IF dirty[0] = Blank THEN catalog ELSE dirty[0]) /\ work.next >= catalog.next
        /\ \A p \in DirtyPages : /\ dirty[p].txs = TouchedBy(hist, Kept \ {Current}, p) \cup {Current}
                                 /\ p < work.next
    BY <1>1, <1>2 DEF FailStopInv, FilesInv, Staged, Committing
  <2>3. \A p \in DirtyPages' :
           /\ dirty'[p].txs = TouchedBy(hist', Kept' \ {Current'}, p) \cup {Current'}
           /\ p < work'.next
    BY <1>1, <1>4, <1>6, <2>1, <2>2
  <2> QED BY <1>1, <1>6, <2>2, <2>3 DEF Staged
<1> QED BY <1>7, <1>8, <1>9, <1>10, <1>11, <1>12, <1>13 DEF FilesInv

\* A step inside commit, or none at all, that leaves log and transactions alone.
LEMMA StayFrame ==
    ASSUME FailStopInv, walDurable' \in {walDurable, Len(wal)},
           UNCHANGED <<wal, nextLsn, nextTx, dirty, phase, erred, hist, sessions>>,
           sessions = 0 => survive' = survive
    PROVE  /\ Numbering' /\ Records' /\ CurrentRecords' /\ Markers' /\ RightLog'
           /\ Kept' = Kept /\ Sound' = Sound /\ Current' = Current /\ DirtyPages' = DirtyPages
<1>1. /\ HistKeeps /\ Kept' = Kept /\ Sound' = Sound /\ Current' = Current
      /\ DirtyPages' = DirtyPages
  BY SameHistKeeps DEF Kept, KeptIn, Sound, Current, DirtyPages
<1>2. Records' /\ RightLog'
  BY <1>1, LogFrame
<1>3. Numbering' /\ CurrentRecords'
  BY <1>1 DEF FailStopInv, FilesInv, Numbering, CurrentRecords
<1>4. Markers'
  BY <1>1, InvTypes DEF FailStopInv, FilesInv, Markers
<1> QED BY <1>1, <1>2, <1>3, <1>4

\* A step after which no transaction is in progress, and that does not append.
LEMMA EndFrame ==
    ASSUME FailStopInv, HistKeeps, wal' = wal, walDurable' \in {walDurable, Len(wal)},
           phase' \notin InTx, sessions' = sessions,
           sessions = 0 => hist' = hist /\ \A p \in Pages : survive'[p] \subseteq {Blank, Torn},
           phase' = "idle" => sessions = 1,
           Sound' => /\ Sound /\ phase # "walSync"
                     /\ nextTx' = nextTx /\ nextLsn' = nextLsn /\ Len(hist') = Len(hist)
    PROVE  /\ Numbering' /\ Records' /\ CurrentRecords' /\ Markers' /\ RightLog'
           /\ Kept' = Kept /\ \A p, v : Agrees(wal, Kept, p, v) => Agrees(wal, Kept, p, v)'
<1>1. /\ Records' /\ RightLog' /\ Kept' = Kept /\ \A i \in DOMAIN hist' : hist'[i].id = i
      /\ \A p, v : Agrees(wal, Kept, p, v) => Agrees(wal, Kept, p, v)'
  BY LogFrame DEF HistKeeps
<1>2. Numbering'
  BY <1>1 DEF FailStopInv, FilesInv, Numbering
<1>3. CurrentRecords'
  BY DEF CurrentRecords, InTx, Committing
<1>4. Markers'
  BY <1>1, InvTypes DEF FailStopInv, FilesInv, Markers
<1> QED BY <1>1, <1>2, <1>3, <1>4

\* Redo will overwrite every page that the second loop of commit may write.
LEMMA WrittenPages ==
    ASSUME FailStopInv, phase = "write", NEW p \in DirtyPages
    PROVE  ImagesBy(wal, Committed(wal), p) # {}
<1>1. phase \in InTx /\ phase \in Committing /\ p \in Pages
  BY DEF InTx, Committing, DirtyPages
<1>2. hist[Current].pages = DirtyPages /\ Current \in Committed(wal)
  BY <1>1 DEF FailStopInv, FilesInv, CurrentRecords, Markers, StoreInv, WriteProgress
<1>3. Current \in TouchedBy(hist, Committed(wal), p)
  BY <1>2 DEF TouchedBy
<1> QED BY <1>1, <1>3 DEF FailStopInv, FilesInv, RightLog, Right, RightTxs

LEMMA WritePageKeeps ==
    ASSUME FailStop, FailStopInv, WritePage
    PROVE  FilesInv'
<1> USE DEF logVars, dataVars, storeVars, txVars, bounds
<1> DEFINE q == Least(todo)
<1>1. /\ phase = "write" /\ phase \in InTx /\ phase \in Committing /\ todo # {}
      /\ WritePageTo(q, dirty[q]) /\ todo' = todo \ {q}
      /\ UNCHANGED <<wal, walDurable, nextLsn, catalog, nextTx, work, dirty, phase, erred, hist,
                     sessions>>
  BY DEF WritePage, InTx, Committing
<1>2. q \in DirtyPages /\ q \in Pages
  <2>1. q \in todo
    BY <1>1, InvTypes, LeastFacts DEF TypeOK
  <2> QED BY <1>1, <2>1 DEF FailStopInv, FilesInv, Staged, DirtyPages
<1> HIDE DEF q
<1>4. ImagesBy(wal, Committed(wal), q) # {}
  BY <1>1, <1>2, WrittenPages
<1>5. /\ Numbering' /\ Records' /\ CurrentRecords' /\ Markers' /\ RightLog'
      /\ Kept' = Kept /\ Sound' = Sound /\ Current' = Current /\ DirtyPages' = DirtyPages
  <2>1. sessions = 1
    BY <1>1 DEF FailStopInv, FilesInv, Numbering
  <2> QED BY <2>1, <1>1, StayFrame
<1>6. /\ data'[q] = dirty[q] /\ survive'[q] = survive[q] \cup {dirty[q], Torn}
      /\ \A p \in Pages : p # q => data'[p] = data[p] /\ survive'[p] = survive[p]
  BY <1>1, <1>2, InvTypes DEF WritePageTo
<1>7. Safe'
  <2>1. SafeInLog'
    BY <1>1, <1>4, <1>6 DEF FailStopInv, FilesInv, Safe, SafeInLog
  <2>2. \A p \in Pages : data'[p] \in survive'[p]
    BY <1>6 DEF FailStopInv, FilesInv, Safe
  <2>3. \A p \in Pages \ DirtyPages : Agrees(wal, Kept, p, data'[p])
    BY <1>1, <1>2, <1>6 DEF FailStopInv, FilesInv, Safe
  <2> QED BY <1>1, <1>5, <2>1, <2>2, <2>3 DEF Safe
<1>8. Staged'
  <2>1. dirty[0] = Blank => data'[0] = data[0]
    BY <1>2, <1>6, InvTypes DEF DirtyPages
  <2> QED BY <1>1, <1>5, <2>1 DEF FailStopInv, FilesInv, Staged
<1> QED BY <1>5, <1>7, <1>8 DEF FilesInv

LEMMA DataSyncKeeps ==
    ASSUME FailStop, FailStopInv, DataSync
    PROVE  FilesInv'
<1> USE DEF logVars, dataVars, storeVars, txVars, bounds
<1>1. /\ phase = "write" /\ phase \in InTx /\ phase \in Committing /\ todo = {}
      /\ survive' = [p \in Pages |-> {data[p]}] /\ catalog' = work /\ phase' = "idle"
      /\ hist' = WithOutcome("acked")
      /\ UNCHANGED <<wal, walDurable, nextLsn, data, nextTx, erred, sessions>>
  BY DEF DataSync, SyncData, EndTx, InTx, Committing
<1>2. /\ Current \in DOMAIN hist /\ Sound /\ Sound' /\ TxId = Current /\ sessions = 1
      /\ Current \in Kept /\ hist[Current].pages = DirtyPages
      /\ \A p \in DirtyPages : data[p] = dirty[p]
  BY <1>1, CurrentFacts
  DEF Sound, FailStopInv, FilesInv, Numbering, CurrentRecords, StoreInv, WriteProgress
<1>3. HistKeeps /\ Len(hist') = Len(hist)
  BY <1>1, <1>2, OutcomeKeeps DEF Outcomes
<1>4. /\ Numbering' /\ Records' /\ CurrentRecords' /\ Markers' /\ RightLog'
      /\ \A p, v : Agrees(wal, Kept, p, v) => Agrees(wal, Kept, p, v)'
  BY <1>1, <1>2, <1>3, EndFrame DEF InTx, Committing
<1>5. ASSUME NEW p \in Pages PROVE Agrees(wal, Kept, p, data[p])
  <2>1. CASE p \notin DirtyPages
    BY <1>1, <2>1 DEF FailStopInv, FilesInv, Safe
  <2>2. CASE p \in DirtyPages
    <3>1. PICK j \in DOMAIN wal : wal[j] = PageImage(TxId, p, dirty[p], Current)
      <4>1. PICK m \in 1..walDurable :
               \E j \in 1..(m - 1) : wal[j] = PageImage(TxId, p, dirty[p], Current)
        BY <1>1, <2>2 DEF FailStopInv, StoreInv, CommitProgress, Logged
      <4> QED BY <4>1, InvTypes
    <3>2. wal[j].kind = "image" /\ wal[j].tx = Current /\ wal[j].page = p
      BY <3>1, <1>2 DEF PageImage, Record
    <3>3. ImagesBy(wal, Kept, p) # {}
      BY <3>2, <1>2 DEF ImagesBy
    <3>4. PICK k \in DOMAIN wal : IsLast(wal, Kept, p, k)
      BY <3>3, InvTypes, LastExists
    <3>5. wal[k].image = dirty[p]
      BY <1>1, <1>2, <3>2, <3>4, LastIsCurrent
    <3> QED BY <1>2, <2>2, <3>3, <3>4, <3>5 DEF Agrees
  <2> QED BY <2>1, <2>2
<1>6. Safe'
  <2>1. SafeInData'
    BY <1>1, <1>4, <1>5 DEF SafeInData
  <2> QED BY <1>1, <2>1 DEF Safe
<1>7. Staged'
  <2>1. work = data[0]
    BY <1>1, <1>2, InvTypes DEF FailStopInv, FilesInv, Staged, DirtyPages
  <2>2. work.next >= 1
    <3>1. catalog.next \in 0..(MaxPage + 1) /\ work.next \in 0..(MaxPage + 1)
      BY InvTypes DEF TypeOK, Image
    <3> QED BY <1>1, <1>2, <3>1, BoundsAssumption DEF FailStopInv, FilesInv, Staged
  <2> QED BY <1>1, <2>1, <2>2 DEF Staged, Committing
<1> QED BY <1>4, <1>6, <1>7 DEF FilesInv

-----------------------------------------------------------------------------
(* Ending a transaction without committing it. *)

LEMMA RollbackKeeps ==
    ASSUME FailStop, FailStopInv, Rollback
    PROVE  FilesInv'
<1> USE DEF logVars, dataVars, storeVars, txVars, bounds
<1> DEFINE rec == AbortTx(TxId, Current)
<1>1. /\ phase = "active" /\ phase \in InTx /\ phase' = "abortSync" /\ Append_(rec)
      /\ UNCHANGED <<data, survive, catalog, nextTx, work, dirty, todo, erred, hist, sessions>>
  BY DEF Rollback, InTx
<1>2. /\ Current \in DOMAIN hist /\ Current = Len(hist) /\ Sound /\ Sound' /\ TxId = Current
      /\ Current \in Nat /\ Current' = Current /\ Kept' = Kept
  BY <1>1, CurrentFacts DEF Sound, Current, Kept, KeptIn, InTx
<1>3. rec \in LogRecord /\ rec.kind = "abort" /\ rec.tx = Current /\ rec.by = Current
  BY <1>2, RecordFacts, EmptyFacts DEF AbortTx, Record
<1>4. Current \notin Kept /\ Current \notin Committed(wal)
  BY <1>1 DEF FailStopInv, FilesInv, CurrentRecords
<1> HIDE DEF rec
<1>5. Records'
  BY <1>1, <1>2, <1>3, <1>4, InvTypes, GrowRecords
<1>6. Markers' /\ RightLog' /\ SafeInData'
  BY <1>1, <1>2, <1>3, <1>4, GrowFrame
<1>7. Numbering'
  <2>1. nextLsn' = Len(wal') + 1 /\ ReadAllOk(wal')
    BY <1>1, <1>2, <1>3, GrowFacts, GrowMeaning
  <2>2. sessions = 1
    BY <1>1 DEF FailStopInv, FilesInv, Numbering
  <2> QED BY <1>1, <1>2, <2>1, <2>2 DEF FailStopInv, FilesInv, Numbering
<1>8. CurrentRecords'
  BY <1>1, <1>2, <1>4 DEF CurrentRecords, Committing, InTx
<1>9. Safe'
  BY <1>1, <1>6 DEF FailStopInv, FilesInv, Safe
<1>10. Staged'
  BY <1>1, <1>2 DEF FailStopInv, FilesInv, Staged, Committing
<1> QED BY <1>5, <1>6, <1>7, <1>8, <1>9, <1>10 DEF FilesInv

\* Syncing, or losing, what was only cached keeps the files safe.
LEMMA SafeShrinks ==
    ASSUME FailStopInv, wal' = wal, Kept' = Kept, walDurable' \in {walDurable, Len(wal)},
           \A p \in Pages : survive'[p] \subseteq survive[p]
    PROVE  (SafeInData => SafeInData') /\ (SafeInLog => SafeInLog')
  BY DEF SafeInData, SafeInLog

\* A transaction that ends before its log sync, with nothing more in the log.
LEMMA AbandonKeeps ==
    ASSUME FailStopInv, phase \in InTx \ {"write"}, NEW o \in {"failed", "rolledback", "dropped"},
           EndTx(o), walDurable' \in {walDurable, Len(wal)},
           UNCHANGED <<wal, nextLsn, data, survive, catalog, nextTx, sessions>>,
           erred' = TRUE \/ (erred' = erred /\ phase # "walSync")
    PROVE  FilesInv'
<1>1. phase' = "idle" /\ hist' = WithOutcome(o) /\ o \in Outcomes
  BY DEF EndTx, Outcomes
<1>2. Sound /\ Current \notin Kept /\ sessions = 1 /\ SafeInData /\ phase # "write" /\ ~erred
  BY CurrentFacts DEF FailStopInv, FilesInv, CurrentRecords, Numbering, Safe
<1>3. HistKeeps /\ Len(hist') = Len(hist)
  BY <1>1, <1>2, OutcomeKeeps
<1>4. /\ Numbering' /\ Records' /\ CurrentRecords' /\ Markers' /\ RightLog' /\ Kept' = Kept
  <2>1. Sound' => phase # "walSync"
    BY DEF Sound
  <2> QED BY <1>1, <1>2, <1>3, <2>1, EndFrame DEF InTx, Committing
<1>5. SafeInData'
  BY <1>2, <1>4, SafeShrinks
<1>6. Safe'
  BY <1>1, <1>5 DEF FailStopInv, FilesInv, Safe
<1>7. Staged'
  BY <1>1, <1>2 DEF FailStopInv, FilesInv, Staged, Committing
<1> QED BY <1>4, <1>6, <1>7 DEF FilesInv

\* A failed append leaves at most damage at the end of the log.
LEMMA FailedAppendFacts ==
    ASSUME FailStopInv, Sound, AppendFails
    PROVE  /\ wal' \in Seq(LogRecord) /\ walDurable' = walDurable
           /\ \A k \in DOMAIN wal : k \in DOMAIN wal' /\ wal'[k] = wal[k]
           /\ \A k \in DOMAIN wal' : k \in DOMAIN wal \/ wal'[k].kind = "garbage"
           /\ Committed(wal') = Committed(wal) /\ \A T : SameImages(wal, wal', T)
<1>1. wal' \in Seq(LogRecord) /\ walDurable' = walDurable
  BY InvTypes, AppendStepTypes DEF AppendFails
<1>2. /\ \A k \in DOMAIN wal : k \in DOMAIN wal' /\ wal'[k] = wal[k]
      /\ \A k \in DOMAIN wal' : k \in DOMAIN wal \/ wal'[k].kind = "garbage"
  <2>1. CASE wal' = wal
    BY <2>1
  <2>2. CASE wal' = WriteAt(wal, nextLsn, Garbage)
    <3>1. nextLsn = Len(wal) + 1
      BY DEF FailStopInv, FilesInv, Numbering
    <3>2. Garbage \in LogRecord /\ Garbage.kind = "garbage"
      BY RecordFacts, EmptyFacts DEF Garbage, Record
    <3>3. /\ Len(wal') = Len(wal) + 1 /\ wal'[Len(wal) + 1] = Garbage
          /\ \A k \in 1..Len(wal) : wal'[k] = wal[k]
      <4>1. wal \in Seq(LogRecord) /\ nextLsn \in Nat /\ nextLsn > Len(wal)
        BY InvTypes DEF TypeOK
      <4>2. /\ Len(WriteAt(wal, nextLsn, Garbage)) = nextLsn
            /\ WriteAt(wal, nextLsn, Garbage)[nextLsn] = Garbage
            /\ \A k \in 1..Len(wal) : WriteAt(wal, nextLsn, Garbage)[k] = wal[k]
        BY <3>2, <4>1, WriteAtFacts
      <4> QED BY <2>2, <3>1, <4>2
    <3>4. DOMAIN wal' = 1..(Len(wal) + 1)
      BY <1>1, <3>3
    <3> QED BY <3>2, <3>3, <3>4, InvTypes
  <2> QED BY <2>1, <2>2 DEF AppendFails
<1>3. Committed(wal') = Committed(wal)
  BY <1>2 DEF Committed
<1>4. \A T : SameImages(wal, wal', T)
  BY <1>2, SameImagesFacts
<1> QED BY <1>1, <1>2, <1>3, <1>4

LEMMA FailedAppendKeeps ==
    ASSUME FailStopInv, Sound, phase \notin {"walSync", "write"}, AppendFails, HistKeeps,
           phase' = "idle", erred' = TRUE, UNCHANGED <<data, survive>>
    PROVE  FilesInv'
<1>1. /\ ~Sound' /\ Kept' = Kept /\ SafeInData /\ sessions = 1 /\ sessions' = sessions
      /\ Committed(wal) = Kept
  BY DEF Sound, HistKeeps, FailStopInv, FilesInv, Safe, Numbering, AppendFails, Markers, Committed
<1>2. Records'
  BY FailedAppendFacts, ShrinkRecords DEF HistKeeps
<1>3. Numbering'
  BY <1>1 DEF FailStopInv, FilesInv, Numbering, HistKeeps, InTx, Committing
<1>4. CurrentRecords'
  BY DEF CurrentRecords, InTx, Committing
<1>5. Markers'
  <2>1. \A k \in DOMAIN wal' : wal'[k].kind \in {"image", "commit"} =>
           k \in DOMAIN wal /\ wal'[k] = wal[k]
    BY FailedAppendFacts
  <2>2. \A k \in DOMAIN wal' : wal'[k].kind = "commit" => wal'[k].tx \in Kept
    BY <1>1, FailedAppendFacts DEF Committed
  <2> QED BY <1>1, <2>1, <2>2, FailedAppendFacts DEF FailStopInv, FilesInv, Markers
<1>6. RightLog'
  <2>1. \A i \in Kept : hist'[i].pages = hist[i].pages
    BY <1>1 DEF HistKeeps, Kept, KeptIn
  <2>2. Right(wal', hist', Kept)
    BY <2>1, FailedAppendFacts, RightFrame DEF FailStopInv, FilesInv, RightLog
  <2> QED BY <2>2, <1>1, FailedAppendFacts DEF RightLog
<1>7. Safe'
  <2>1. SafeInData'
    BY <1>1, FailedAppendFacts, AgreesFrame DEF SafeInData
  <2> QED BY <1>1, <2>1 DEF FailStopInv, FilesInv, Safe
<1>8. Staged'
  BY <1>1 DEF Staged, Committing
<1> QED BY <1>2, <1>3, <1>4, <1>5, <1>6, <1>7, <1>8 DEF FilesInv

\* The ends of a transaction, with and without an error.
LEMMA EndKeeps ==
    ASSUME FailStop, FailStopInv, RollbackSync \/ DropTx \/ RollbackFails \/ BeginFails
    PROVE  FilesInv'
<1> USE DEF logVars, dataVars, storeVars, txVars, bounds
<1>1. CASE RollbackSync
  <2>1. phase \in InTx \ {"write"} /\ phase # "walSync" /\ EndTx("rolledback")
    BY <1>1 DEF RollbackSync, InTx, Committing
  <2> QED BY <1>1, <2>1, AbandonKeeps DEF RollbackSync
<1>2. CASE DropTx
  <2>1. phase \in InTx \ {"write"} /\ phase # "walSync" /\ EndTx("dropped")
    BY <1>2 DEF DropTx, InTx, Committing
  <2> QED BY <1>2, <2>1, AbandonKeeps DEF DropTx
<1>3. CASE RollbackFails
  <2>1. /\ phase \in InTx \ {"write"} /\ phase \in {"active", "abortSync"} /\ EndTx("rolledback")
        /\ erred' = TRUE /\ UNCHANGED <<data, survive, catalog, nextTx>>
    BY <1>3 DEF RollbackFails, InTx, Committing
  <2>2. CASE AppendFails
    <3>1. Sound /\ Current \notin Kept
      BY <2>1, CurrentFacts DEF FailStopInv, FilesInv, CurrentRecords
    <3>2. HistKeeps /\ phase' = "idle"
      BY <2>1, <3>1, OutcomeKeeps DEF EndTx, Outcomes
    <3> QED BY <2>1, <2>2, <3>1, <3>2, FailedAppendKeeps
  <2>3. CASE SyncFails /\ UNCHANGED <<wal, walDurable, nextLsn>>
    BY <2>1, <2>3, AbandonKeeps DEF SyncFails
  <2> QED BY <1>3, <2>2, <2>3 DEF RollbackFails
<1>4. CASE BeginFails
  <2>1. /\ phase = "idle" /\ ~erred /\ phase' = "idle" /\ erred' = TRUE /\ AppendFails /\ hist' = hist
        /\ UNCHANGED <<data, survive>>
    BY <1>4 DEF BeginFails, BeginAllowed, FailStop
  <2>2. Sound /\ HistKeeps
    BY <2>1, SameHistKeeps DEF Sound
  <2> QED BY <2>1, <2>2, FailedAppendKeeps
<1> QED BY <1>1, <1>2, <1>3, <1>4

\* A page that redo overwrites may be damaged.
LEMMA SafeInLogWrites ==
    ASSUME FailStopInv, SafeInLog, wal' = wal, walDurable' = walDurable, NEW q \in Pages,
           ImagesBy(wal, Committed(wal), q) # {},
           \A p \in Pages : p # q => survive'[p] = survive[p]
    PROVE  SafeInLog'
  BY DEF SafeInLog

\* A failed page write.
LEMMA WriteFailsFacts ==
    ASSUME FailStopInv, NEW q \in Pages, WritePageFails(q)
    PROVE  /\ \A p \in Pages : data'[p] \in survive'[p]
           /\ \A p \in Pages : p # q => survive'[p] = survive[p]
           /\ survive'[q] = survive[q] \cup {Torn} /\ sessions' = sessions
<1>1. \A p \in Pages : data[p] \in survive[p]
  BY DEF FailStopInv, FilesInv, Safe
<1>2. /\ \A p \in Pages : p # q => survive'[p] = survive[p]
      /\ survive'[q] = survive[q] \cup {Torn} /\ sessions' = sessions
  BY InvTypes DEF WritePageFails
<1>3. \A p \in Pages : data'[p] = data[p] \/ (p = q /\ data'[p] = Torn)
  BY InvTypes DEF WritePageFails
<1> QED BY <1>1, <1>2, <1>3

LEMMA CommitFailsKeeps ==
    ASSUME FailStop, FailStopInv, CommitFails
    PROVE  FilesInv'
<1> USE DEF logVars, dataVars, storeVars, txVars, bounds
<1>1. /\ phase \in Committing /\ phase \in InTx /\ erred' = TRUE
      /\ EndTx(IF phase = "write" THEN "logged" ELSE "failed") /\ phase' = "idle"
      /\ UNCHANGED <<catalog, nextTx>>
  BY DEF CommitFails, Committing, InTx, EndTx
<1>2. Sound /\ (Current \in Kept <=> phase = "write") /\ sessions = 1
  BY <1>1, CurrentFacts DEF FailStopInv, FilesInv, CurrentRecords, Numbering
<1>3. HistKeeps /\ Len(hist') = Len(hist)
  <2>1. hist' = WithOutcome(IF phase = "write" THEN "logged" ELSE "failed")
    BY <1>1 DEF EndTx
  <2>2. CASE phase = "write"
    BY <1>1, <1>2, <2>1, <2>2, OutcomeKeeps DEF Outcomes
  <2>3. CASE phase # "write"
    BY <1>1, <1>2, <2>1, <2>3, OutcomeKeeps DEF Outcomes
  <2> QED BY <2>2, <2>3
<1>4. CASE phase = "images"
  BY <1>1, <1>2, <1>3, <1>4, FailedAppendKeeps DEF CommitFails
<1>5. CASE phase = "walSync"
  <2>1. UNCHANGED <<wal, walDurable, nextLsn, data, survive, sessions>> /\ EndTx("failed")
    BY <1>1, <1>5 DEF CommitFails, SyncFails
  <2> QED BY <1>1, <1>5, <2>1, AbandonKeeps
<1>6. CASE phase = "write"
  <2>1. UNCHANGED <<wal, walDurable, nextLsn, sessions>>
    BY <1>6 DEF CommitFails, SyncFails, WritePageFails
  <2>2. SafeInLog' /\ \A p \in Pages : data'[p] \in survive'[p]
    <3>1. SafeInLog /\ \A p \in Pages : data[p] \in survive[p]
      BY <1>6 DEF FailStopInv, FilesInv, Safe
    <3>2. CASE todo # {} /\ WritePageFails(Least(todo))
      <4>1. Least(todo) \in todo /\ todo \subseteq DirtyPages
        BY <1>1, <3>2, InvTypes, LeastFacts DEF TypeOK, FailStopInv, FilesInv, Staged
      <4>2. Least(todo) \in Pages /\ ImagesBy(wal, Committed(wal), Least(todo)) # {}
        BY <1>6, <4>1, WrittenPages DEF DirtyPages
      <4> QED BY <2>1, <3>1, <3>2, <4>2, WriteFailsFacts, SafeInLogWrites
    <3>3. CASE UNCHANGED <<data, survive>>
      BY <2>1, <3>1, <3>3 DEF SafeInLog
    <3> QED BY <1>6, <3>2, <3>3 DEF CommitFails
  <2>3. ~Sound'
    BY <1>1 DEF Sound
  <2>4. Numbering' /\ Records' /\ CurrentRecords' /\ Markers' /\ RightLog'
    BY <1>1, <1>2, <1>3, <2>1, <2>3, EndFrame DEF InTx, Committing
  <2>5. Safe' /\ Staged'
    BY <1>1, <2>2, <2>3 DEF Safe, Staged, Committing
  <2> QED BY <2>4, <2>5 DEF FilesInv
<1> QED BY <1>1, <1>4, <1>5, <1>6 DEF Committing

-----------------------------------------------------------------------------
(* Syncs, exits and power losses. *)

LEMMA SyncStoreKeeps ==
    ASSUME FailStop, FailStopInv, SyncStore \/ SyncStoreFails
    PROVE  FilesInv'
<1> USE DEF logVars, dataVars, storeVars, txVars, bounds
<1>1. /\ phase = "idle" /\ phase' = "idle" /\ walDurable' \in {walDurable, Len(wal)}
      /\ UNCHANGED <<wal, nextLsn, data, catalog, nextTx, hist, sessions>>
      /\ erred' = erred \/ erred' = TRUE
      /\ survive' = survive \/ survive' = [p \in Pages |-> {data[p]}]
  BY DEF SyncStore, SyncStoreFails, SyncData, SyncFails
<1>2. HistKeeps /\ sessions = 1 /\ (Sound' => Sound)
  BY <1>1, SameHistKeeps DEF Sound, FailStopInv, FilesInv, Numbering
<1>3. Numbering' /\ Records' /\ CurrentRecords' /\ Markers' /\ RightLog' /\ Kept' = Kept
  BY <1>1, <1>2, EndFrame DEF InTx, Committing
<1>4. \A p \in Pages : survive'[p] \subseteq survive[p] /\ data'[p] \in survive'[p]
  BY <1>1 DEF FailStopInv, FilesInv, Safe
<1>5. Safe'
  BY <1>1, <1>2, <1>3, <1>4, SafeShrinks DEF FailStopInv, FilesInv, Safe
<1>6. Staged'
  BY <1>1, <1>2 DEF FailStopInv, FilesInv, Staged, Committing
<1> QED BY <1>3, <1>5, <1>6 DEF FilesInv

LEMMA WritebackKeeps ==
    ASSUME FailStopInv, Writeback \/ UNCHANGED vars
    PROVE  FilesInv'
<1> USE DEF vars, logVars, dataVars, storeVars, txVars, bounds
<1>1. /\ walDurable' \in {walDurable, Len(wal)}
      /\ UNCHANGED <<wal, nextLsn, data, survive, catalog, nextTx, work, dirty, todo, spoiled, phase,
                     erred, hist, sessions>>
  BY DEF Writeback
<1>2. /\ Numbering' /\ Records' /\ CurrentRecords' /\ Markers' /\ RightLog'
      /\ Kept' = Kept /\ Sound' = Sound /\ Current' = Current /\ DirtyPages' = DirtyPages
  BY <1>1, StayFrame
<1>3. (SafeInData => SafeInData') /\ (SafeInLog => SafeInLog')
  BY <1>1, <1>2, SafeShrinks
<1>4. Safe'
  BY <1>1, <1>2, <1>3 DEF FailStopInv, FilesInv, Safe
<1>5. Staged'
  BY <1>1, <1>2 DEF FailStopInv, FilesInv, Staged
<1> QED BY <1>2, <1>4, <1>5 DEF FilesInv

\* What the process leaves behind when it ends.
LEMMA ForgetKeeps ==
    ASSUME FailStopInv, ForgetMemory
    PROVE  HistKeeps /\ (sessions = 0 => hist' = hist)
<1>1. CASE phase \in InTx \ {"write"}
  <2>1. hist' = WithOutcome("failed") /\ Current \notin Kept /\ sessions = 1
    BY <1>1 DEF ForgetMemory, FailStopInv, FilesInv, CurrentRecords, Numbering
  <2> QED BY <1>1, <2>1, OutcomeKeeps DEF Outcomes
<1>2. CASE phase \notin InTx \ {"write"}
  BY <1>2, SameHistKeeps DEF ForgetMemory
<1> QED BY <1>1, <1>2

LEMMA ExitKeeps ==
    ASSUME FailStop, FailStopInv, Exit
    PROVE  FilesInv'
<1> USE DEF logVars, dataVars, storeVars, txVars, bounds
<1>1. /\ phase' = "closed" /\ UNCHANGED <<wal, walDurable, data, survive, sessions>>
      /\ HistKeeps /\ (sessions = 0 => hist' = hist) /\ ~Sound' /\ phase' \notin InTx
  BY ForgetKeeps DEF Exit, Sound, InTx, Committing
<1>2. Numbering' /\ Records' /\ CurrentRecords' /\ Markers' /\ RightLog' /\ Kept' = Kept
  <2>1. sessions = 0 => \A p \in Pages : survive'[p] \subseteq {Blank, Torn}
    BY <1>1 DEF FailStopInv, FilesInv, Numbering
  <2> QED BY <1>1, <2>1, EndFrame
<1>3. Safe'
  BY <1>1, <1>2, SafeShrinks DEF FailStopInv, FilesInv, Safe
<1>4. Staged'
  BY <1>1 DEF Staged, Committing
<1> QED BY <1>2, <1>3, <1>4 DEF FilesInv

\* What a power loss leaves of the log: all of it, or at least the last record is gone.
LEMMA SurvivingRecords ==
    ASSUME TypeOK, NEW w \in SurvivingLogs
    PROVE  /\ w \in Seq(LogRecord)
           /\ \A k \in DOMAIN w : w[k].kind # "garbage" => k \in DOMAIN wal /\ w[k] = wal[k]
           /\ \A k \in 1..walDurable : k \in DOMAIN w /\ w[k] = wal[k]
           /\ w = wal \/ \A k \in DOMAIN w : w[k].kind # "garbage" => k < Len(wal)
           /\ walDurable = Len(wal) => w = wal
<1>1. wal \in Seq(LogRecord) /\ walDurable \in 0..Len(wal) /\ Len(wal) \in Nat
      /\ w \in Seq(LogRecord)
  BY SurvivingFacts DEF TypeOK
<1>2. ASSUME NEW n \in 0..Len(wal)
      PROVE  /\ SubSeq(wal, 1, n) \in Seq(LogRecord) /\ Len(SubSeq(wal, 1, n)) = n
             /\ \A k \in 1..n : SubSeq(wal, 1, n)[k] = wal[k]
  BY <1>1
<1>3. CASE \E n \in walDurable..Len(wal) : w = SubSeq(wal, 1, n)
  <2>1. PICK n \in walDurable..Len(wal) : w = SubSeq(wal, 1, n)
    BY <1>3
  <2>2. n \in 0..Len(wal) /\ DOMAIN w = 1..n /\ \A k \in 1..n : w[k] = wal[k]
    BY <1>1, <1>2, <2>1
  <2>3. n = Len(wal) => w = wal
    BY <1>1, <1>2, <2>1, <2>2
  <2>4. n # Len(wal) => n < Len(wal)
    BY <2>2
  <2>5. DOMAIN wal = 1..Len(wal)
    BY <1>1
  <2>6. \A k \in DOMAIN w : k \in DOMAIN wal /\ w[k] = wal[k]
    BY <2>2, <2>5
  <2>7. \A k \in 1..walDurable : k \in DOMAIN w /\ w[k] = wal[k]
    BY <1>1, <2>1, <2>2
  <2>8. w = wal \/ \A k \in DOMAIN w : k < Len(wal)
    BY <1>1, <2>2, <2>3, <2>4
  <2>9. walDurable = Len(wal) => w = wal
    BY <1>1, <2>1, <2>3
  <2> QED BY <1>1, <2>6, <2>7, <2>8, <2>9
<1>4. CASE \E n \in walDurable..(Len(wal) - 1) : w = Append(SubSeq(wal, 1, n), Garbage)
  <2>1. PICK n \in walDurable..(Len(wal) - 1) : w = Append(SubSeq(wal, 1, n), Garbage)
    BY <1>4
  <2>2. n \in 0..Len(wal) /\ n < Len(wal) /\ walDurable <= n
    BY <1>1
  <2>3. /\ DOMAIN w = 1..(n + 1) /\ w[n + 1] = Garbage
        /\ \A k \in 1..n : w[k] = wal[k]
    BY <1>1, <1>2, <2>1, <2>2
  <2>4. Garbage.kind = "garbage"
    BY DEF Garbage, Record
  <2>5. DOMAIN wal = 1..Len(wal)
    BY <1>1
  <2>6. \A k \in DOMAIN w : k \in 1..n \/ w[k].kind = "garbage"
    BY <2>2, <2>3, <2>4
  <2>7. \A k \in 1..n : k \in DOMAIN wal /\ w[k] = wal[k] /\ k < Len(wal)
    BY <1>1, <2>2, <2>3, <2>5
  <2>8. \A k \in 1..walDurable : k \in DOMAIN w /\ w[k] = wal[k]
    BY <1>1, <2>2, <2>3
  <2>9. walDurable # Len(wal)
    BY <1>1, <2>2
  <2> QED BY <1>1, <2>6, <2>7, <2>8, <2>9
<1> QED BY <1>3, <1>4 DEF SurvivingLogs

LEMMA PowerLossKeeps ==
    ASSUME FailStop, FailStopInv, PowerLoss
    PROVE  FilesInv'
<1> USE DEF logVars, dataVars, storeVars, txVars, bounds
<1>1. /\ phase' = "closed" /\ wal' \in SurvivingLogs /\ walDurable' = Len(wal') /\ sessions' = sessions
      /\ \A p \in Pages : data'[p] \in survive[p] /\ survive'[p] = {data'[p]}
      /\ HistKeeps /\ (sessions = 0 => hist' = hist) /\ ~Sound' /\ phase' \notin InTx
  BY ForgetKeeps DEF PowerLoss, Sound, InTx, Committing
<1>2. /\ wal' \in Seq(LogRecord)
      /\ \A k \in DOMAIN wal' : wal'[k].kind # "garbage" => k \in DOMAIN wal /\ wal'[k] = wal[k]
      /\ \A k \in 1..walDurable : k \in DOMAIN wal' /\ wal'[k] = wal[k]
      /\ wal' = wal \/ \A k \in DOMAIN wal' : wal'[k].kind # "garbage" => k < Len(wal)
      /\ walDurable = Len(wal) => wal' = wal
  BY <1>1, InvTypes, SurvivingRecords
<1>3. Kept' = Kept /\ Kept \subseteq DOMAIN hist /\ DOMAIN hist' = DOMAIN hist
  BY <1>1 DEF HistKeeps, Kept, KeptIn
<1>4. Records' /\ Committed(wal') \subseteq Committed(wal)
  BY <1>2, <1>3, ShrinkRecords
<1>5. /\ Kept \subseteq Committed(wal')
      /\ SameImages(wal, wal', Kept)
  <2>1. \A k \in DOMAIN wal : wal[k].kind \in {"image", "commit"} /\ wal[k].tx \in Kept =>
           k \in DOMAIN wal' /\ wal'[k] = wal[k]
    BY <1>2, InvTypes DEF FailStopInv, FilesInv, Markers
  <2>2. Kept \subseteq Committed(wal)
    BY DEF FailStopInv, FilesInv, Markers
  <2>3. Kept \subseteq Committed(wal')
    BY <2>1, <2>2 DEF Committed
  <2>4. SameImages(wal, wal', Kept)
    BY <2>1, <1>2, SameImagesFacts
  <2> QED BY <2>3, <2>4
<1>6. wal' = wal \/ Committed(wal') = Kept
  <2> SUFFICES ASSUME wal' # wal, NEW i \in Committed(wal') PROVE i \in Kept
    BY <1>5
  <2>1. PICK k \in DOMAIN wal' : wal'[k].kind = "commit" /\ wal'[k].tx = i
    BY DEF Committed
  <2>2. k \in DOMAIN wal /\ wal[k] = wal'[k] /\ k < Len(wal)
    BY <2>1, <1>2
  <2> QED BY <2>1, <2>2, InvTypes DEF FailStopInv, FilesInv, Markers
<1>7. Numbering'
  <2>1. sessions = 0 => wal' = << >>
    <3> SUFFICES ASSUME sessions = 0 PROVE wal' = << >>
      OBVIOUS
    <3>1. wal = << >> /\ Len(wal) = 0
      BY DEF FailStopInv, FilesInv, Numbering
    <3> QED BY <1>2, <3>1, InvTypes
  <2>2. sessions = 0 => \A p \in Pages : survive'[p] \subseteq {Blank, Torn}
    BY <1>1 DEF FailStopInv, FilesInv, Numbering
  <2>3. phase' \notin {"idle"} \cup InTx
    BY <1>1
  <2>4. \A i \in DOMAIN hist' : hist'[i].id = i
    BY <1>1 DEF HistKeeps, FailStopInv, FilesInv, Numbering
  <2> QED BY <1>1, <2>1, <2>2, <2>3, <2>4 DEF FailStopInv, FilesInv, Numbering
<1>8. CurrentRecords' /\ Staged'
  BY <1>1 DEF CurrentRecords, Staged, InTx, Committing
<1>9. Markers'
  <2>1. \A k \in DOMAIN wal' : k <= Len(wal')
    BY <1>2
  <2>2. ASSUME NEW k \in DOMAIN wal', wal'[k].kind = "commit", wal'[k].tx \notin Kept
        PROVE  k = Len(wal') /\ ReadAllOk(wal')
    <3>1. wal'[k].tx \in Committed(wal')
      BY <2>2 DEF Committed
    <3>2. wal' = wal
      BY <3>1, <1>6, <2>2
    <3> QED BY <2>2, <3>2 DEF FailStopInv, FilesInv, Markers
  <2> QED BY <1>1, <1>3, <1>5, <2>1, <2>2 DEF Markers
<1>10. RightLog'
  <2>1. CASE wal' = wal
    BY <2>1, <1>1, LogFrame
  <2>2. CASE Committed(wal') = Kept
    <3>1. \A i \in Kept : hist'[i].pages = hist[i].pages
      BY <1>1, <1>3 DEF HistKeeps, FailStopInv, FilesInv, Markers
    <3>2. Right(wal', hist', Kept)
      BY <3>1, <1>5, RightFrame DEF FailStopInv, FilesInv, RightLog
    <3> QED BY <2>2, <3>2, <1>3 DEF RightLog
  <2> QED BY <1>6, <2>1, <2>2
<1>11. Safe'
  <2>1. SafeInData => SafeInData'
    BY <1>1, <1>3, <1>5, AgreesFrame DEF SafeInData
  <2>2. SafeInLog => SafeInLog'
    <3> SUFFICES ASSUME SafeInLog PROVE SafeInLog'
      OBVIOUS
    <3>1. wal' = wal
      BY <1>2 DEF SafeInLog
    <3> QED BY <1>1, <3>1 DEF SafeInLog
  <2>3. SafeInData \/ SafeInLog
    BY DEF FailStopInv, FilesInv, Safe
  <2> QED BY <1>1, <2>1, <2>2, <2>3 DEF Safe
<1> QED BY <1>4, <1>7, <1>8, <1>9, <1>10, <1>11 DEF FilesInv

-----------------------------------------------------------------------------
(* Opening the store, and recovery. *)

\* Files that no transaction has touched.
EmptyFiles ==
    /\ wal = << >> /\ hist = << >>
    /\ \A p \in Pages : survive[p] \subseteq Untouched(p)

LEMMA EmptyFilesSafe == EmptyFiles => Records /\ Markers /\ RightLog /\ SafeInData
<1> SUFFICES ASSUME EmptyFiles PROVE Records /\ Markers /\ RightLog /\ SafeInData
  OBVIOUS
<1>1. DOMAIN wal = {} /\ DOMAIN hist = {}
  BY DEF EmptyFiles
<1>2. Kept = {} /\ Committed(wal) = {} /\ Aborted(wal) = {}
  BY <1>1 DEF Kept, KeptIn, Committed, Aborted
<1>3. \A T, p : ImagesBy(wal, T, p) = {} /\ TouchedBy(hist, {}, p) = {}
  BY <1>1 DEF ImagesBy, TouchedBy
<1>4. Right(wal, hist, {})
  BY <1>1, <1>3 DEF Right, RightTxs, RightNext
<1>5. Records /\ Markers /\ RightLog
  BY <1>1, <1>2, <1>4 DEF Records, Markers, RightLog
<1>6. SafeInData
  BY <1>3 DEF SafeInData, Agrees, EmptyFiles
<1> QED BY <1>5, <1>6

LEMMA EmptyFilesSafeNext == EmptyFiles' => Records' /\ Markers' /\ RightLog' /\ SafeInData'
  BY EmptyFilesSafe, PTL

LEMMA FilesInit == Init => FilesInv
<1> SUFFICES ASSUME Init PROVE FilesInv
  OBVIOUS
<1>1. phase = "closed" /\ sessions = 0 /\ wal = << >> /\ hist = << >>
      /\ \A p \in Pages : survive[p] = {Blank} /\ data[p] = Blank
  BY DEF Init
<1>2. Records /\ Markers /\ RightLog /\ SafeInData
  BY <1>1, EmptyFilesSafe DEF EmptyFiles, Untouched
<1>3. ~Sound /\ phase \notin InTx
  BY <1>1 DEF Sound, InTx, Committing
<1>4. Numbering /\ CurrentRecords
  BY <1>1, <1>3 DEF Numbering, CurrentRecords, InTx, Committing
<1>5. Safe /\ Staged
  BY <1>1, <1>2, <1>3 DEF Safe, Staged, Committing
<1> QED BY <1>2, <1>4, <1>5 DEF FilesInv

\* The one session starts on an empty file: nothing else is ever opened.
LEMMA OpenKeeps ==
    ASSUME FailStop, FailStopInv, OpenStore \/ BootstrapStore \/ BootstrapFails
    PROVE  FilesInv'
<1> USE DEF logVars, dataVars, storeVars, txVars, bounds
<1>1. /\ sessions = 0 /\ wal = << >> /\ hist = << >>
      /\ \A p \in Pages : survive[p] \subseteq {Blank, Torn} /\ data[p] \in survive[p]
  <2>1. MayOpenStore /\ sessions \in Nat /\ MaxSessions \in Nat
    BY InvTypes, BoundsAssumption DEF OpenStore, BootstrapStore, StartSession, BootstrapFails, TypeOK
  <2>2. sessions = 0
    BY <2>1 DEF MayOpenStore, FailStop
  <2> QED BY <2>2 DEF FailStopInv, FilesInv, Numbering, Safe
<1>2. wal' = << >> /\ hist' = << >>
  BY <1>1 DEF OpenStore, BootstrapStore, StartSession, BootstrapFails
<1>3. CASE OpenStore
  BY <1>1, <1>3, InvTypes, ImagesDiffer DEF OpenStore, Valid
<1>4. CASE BootstrapStore
  <2>1. /\ phase' = "idle" /\ sessions' = 1 /\ nextLsn' = Len(wal) + 1 /\ nextTx' = 1
        /\ catalog' = EmptyCatalog /\ wal' = wal /\ hist' = hist
    BY <1>1, <1>4 DEF BootstrapStore, StartSession
  <2>2. /\ data'[0] = EmptyCatalog /\ survive'[0] = survive[0] \cup {EmptyCatalog, Torn}
        /\ \A p \in Pages : p # 0 => data'[p] = data[p] /\ survive'[p] = survive[p]
    BY <1>4, InvTypes DEF BootstrapStore, WritePageTo
  <2>3. EmptyFiles'
    BY <1>1, <1>2, <2>2 DEF EmptyFiles, Untouched
  <2>4. Records' /\ Markers' /\ RightLog' /\ SafeInData'
    BY <2>3, EmptyFilesSafeNext
  <2>5. Numbering'
    BY <1>1, <2>1 DEF Numbering, InTx, Committing, ReadAllOk
  <2>6. CurrentRecords'
    BY <2>1 DEF CurrentRecords, InTx, Committing
  <2>7. Safe'
    BY <1>1, <2>1, <2>2, <2>4 DEF Safe
  <2>8. Staged'
    BY <2>1, <2>2 DEF Staged, Committing, EmptyCatalog
  <2> QED BY <2>4, <2>5, <2>6, <2>7, <2>8 DEF FilesInv
<1>5. CASE BootstrapFails
  <2>1. phase' = "closed" /\ wal' = wal /\ hist' = hist /\ WritePageFails(0)
    BY <1>5 DEF BootstrapFails
  <2>2. /\ \A p \in Pages : data'[p] \in survive'[p] /\ survive'[p] \subseteq {Blank, Torn}
        /\ sessions' = sessions
    BY <1>1, <2>1, InvTypes, WriteFailsFacts
  <2>3. Records' /\ Markers' /\ RightLog' /\ SafeInData'
    BY <1>2, <2>2, EmptyFilesSafeNext DEF EmptyFiles, Untouched
  <2>4. ~Sound' /\ phase' \notin InTx
    BY <2>1 DEF Sound, InTx, Committing
  <2>5. Numbering' /\ CurrentRecords'
    BY <1>1, <2>1, <2>2, <2>4 DEF Numbering, CurrentRecords, InTx, Committing
  <2>6. Safe' /\ Staged'
    BY <2>1, <2>2, <2>3, <2>4 DEF Safe, Staged, Committing
  <2> QED BY <2>3, <2>5, <2>6 DEF FilesInv
<1> QED BY <1>3, <1>4, <1>5

\* Recovery reads a durable log, so it may rely on what is committed in it.
LEMMA OpenDatabaseKeeps ==
    ASSUME FailStop, FailStopInv, OpenDatabase
    PROVE  FilesInv'
<1> USE DEF logVars, dataVars, storeVars, txVars, bounds
<1>1. /\ phase' = IF ReadAllOk(wal) THEN "redo" ELSE "refused"
      /\ walDurable = Len(wal)
      /\ UNCHANGED <<wal, walDurable, data, survive, hist, sessions>>
  BY DEF OpenDatabase, FailStop
<1>2. HistKeeps /\ ~Sound' /\ phase' \notin InTx /\ phase' # "idle"
  BY <1>1, SameHistKeeps DEF Sound, InTx, Committing
<1>3. Numbering' /\ Records' /\ CurrentRecords' /\ Markers' /\ RightLog' /\ Kept' = Kept
  <2>1. sessions = 0 => \A p \in Pages : survive'[p] \subseteq {Blank, Torn}
    BY <1>1 DEF FailStopInv, FilesInv, Numbering
  <2> QED BY <1>1, <1>2, <2>1, EndFrame
<1>4. (SafeInData => SafeInData') /\ (SafeInLog => SafeInLog')
  BY <1>1, <1>3, SafeShrinks
<1>5. ReadAllOk(wal) => SafeInLog'
  <2>1. CASE SafeInLog
    BY <2>1, <1>4
  <2>2. ASSUME SafeInData, NEW p \in Pages, ImagesBy(wal, Committed(wal), p) = {}
        PROVE  survive[p] \subseteq Untouched(p)
    <3>1. ImagesBy(wal, Kept, p) = {}
      BY <2>2 DEF ImagesBy, FailStopInv, FilesInv, Markers
    <3> QED BY <2>2, <3>1 DEF SafeInData, Agrees
  <2>3. CASE SafeInData
    BY <1>1, <2>2, <2>3 DEF SafeInLog
  <2> QED BY <2>1, <2>3 DEF FailStopInv, FilesInv, Safe
<1>6. Safe'
  BY <1>1, <1>2, <1>4, <1>5 DEF FailStopInv, FilesInv, Safe
<1>7. Staged'
  BY <1>1, <1>2 DEF Staged, Committing
<1> QED BY <1>3, <1>6, <1>7 DEF FilesInv

\* A page that redo writes has a committed image.
LEMMA RedonePage ==
    ASSUME FailStopInv, redoPos <= Len(wal), Redone(wal, redoPos)
    PROVE  /\ wal[redoPos].page \in Pages /\ redoPos \in DOMAIN wal
           /\ ImagesBy(wal, Committed(wal), wal[redoPos].page) # {}
<1>1. redoPos \in DOMAIN wal
  BY InvTypes DEF TypeOK
<1>2. wal[redoPos] \in LogRecord
  BY <1>1, InvTypes
<1>3. wal[redoPos].page \in Pages
  BY <1>2 DEF LogRecord
<1>4. redoPos \in ImagesBy(wal, Committed(wal), wal[redoPos].page)
  BY <1>1 DEF ImagesBy, Redone
<1> QED BY <1>1, <1>3, <1>4

LEMMA RedoKeeps ==
    ASSUME FailStop, FailStopInv, RedoRecord \/ RedoDone \/ RedoFails
    PROVE  FilesInv'
<1> USE DEF logVars, dataVars, storeVars, txVars, bounds
<1> DEFINE q == wal[redoPos].page
<1>1. /\ phase = "redo" /\ phase' \in {"redo", "recovered", "closed"}
      /\ UNCHANGED <<wal, walDurable, hist, sessions>>
  BY DEF RedoRecord, RedoDone, RedoFails, WritePageFails, SyncFails
<1>2. HistKeeps /\ ~Sound' /\ phase' \notin InTx /\ phase' \notin {"idle", "refused", "write"}
  BY <1>1, SameHistKeeps DEF Sound, InTx, Committing
<1>3. SafeInLog /\ \A p \in Pages : data[p] \in survive[p]
  BY <1>1 DEF FailStopInv, FilesInv, Safe
<1>4. /\ SafeInLog' /\ \A p \in Pages : data'[p] \in survive'[p]
      /\ sessions = 0 => \A p \in Pages : survive'[p] \subseteq survive[p]
  <2>1. CASE \A p \in Pages : survive'[p] \subseteq survive[p] /\ data'[p] \in survive'[p]
    BY <1>1, <1>3, <2>1 DEF SafeInLog
  <2>2. CASE /\ redoPos <= Len(wal) /\ Redone(wal, redoPos)
             /\ WritePageTo(q, wal[redoPos].image) \/ WritePageFails(q)
    <3>1. q \in Pages /\ redoPos \in DOMAIN wal /\ ImagesBy(wal, Committed(wal), q) # {}
      BY <2>2, RedonePage
    <3> HIDE DEF q
    <3>2. /\ \A p \in Pages : p # q => survive'[p] = survive[p]
          /\ \A p \in Pages : data'[p] \in survive'[p]
      <4>1. CASE WritePageTo(q, wal[redoPos].image)
        BY <1>3, <3>1, <4>1, InvTypes DEF WritePageTo
      <4>2. CASE WritePageFails(q)
        BY <3>1, <4>2, WriteFailsFacts
      <4> QED BY <2>2, <4>1, <4>2
    <3>3. sessions # 0
      BY <3>1, InvTypes DEF FailStopInv, FilesInv, Numbering
    <3>4. SafeInLog'
      BY <1>1, <1>3, <3>1, <3>2, SafeInLogWrites
    <3> QED BY <3>2, <3>3, <3>4
  <2>3. CASE RedoRecord
    <3>1. CASE Redone(wal, redoPos)
      BY <2>2, <2>3, <3>1 DEF RedoRecord
    <3>2. CASE ~Redone(wal, redoPos)
      BY <1>3, <2>1, <2>3, <3>2 DEF RedoRecord
    <3> QED BY <3>1, <3>2
  <2>4. CASE RedoDone
    BY <1>3, <2>1, <2>4 DEF RedoDone, SyncData
  <2>5. CASE RedoFails
    BY <1>3, <2>1, <2>2, <2>5 DEF RedoFails
  <2> QED BY <2>3, <2>4, <2>5
<1>5. Numbering' /\ Records' /\ CurrentRecords' /\ Markers' /\ RightLog'
  <2>1. sessions = 0 => \A p \in Pages : survive'[p] \subseteq {Blank, Torn}
    BY <1>4 DEF FailStopInv, FilesInv, Numbering
  <2> QED BY <1>1, <1>2, <2>1, EndFrame
<1>6. Safe' /\ Staged'
  BY <1>1, <1>2, <1>4 DEF Safe, Staged, Committing
<1> QED BY <1>5, <1>6 DEF FilesInv

-----------------------------------------------------------------------------
(* The theorems. *)

LEMMA FilesStep ==
    ASSUME FailStop, FailStopInv, [Next]_vars
    PROVE  FilesInv'
<1>1. CASE Step
  BY <1>1, RedoKeeps, AppendImageKeeps, AppendCommitKeeps, WalSyncKeeps, WritePageKeeps,
     DataSyncKeeps, EndKeeps DEF Step
<1>2. CASE Call
  BY <1>2, OpenKeeps, OpenDatabaseKeeps, BeginKeeps, CommitKeeps, RollbackKeeps, EndKeeps,
     SyncStoreKeeps, StagingKeeps DEF Call
<1>3. CASE Failure
  BY <1>3, OpenKeeps, RedoKeeps, EndKeeps, CommitFailsKeeps, SyncStoreKeeps, ExitKeeps,
     WritebackKeeps, PowerLossKeeps DEF Failure
<1>4. CASE UNCHANGED vars
  BY <1>4, WritebackKeeps
<1> QED BY <1>1, <1>2, <1>3, <1>4 DEF Next

\* The inductive invariant: the files are safe, in the data file or in the log, after
\* every step of the store, of recovery and of the environment.
THEOREM FailStopInvHolds == ASSUME FailStop PROVE Spec => []FailStopInv
<1>1. Init => FailStopInv
  BY StoreInvInit, FilesInit DEF FailStopInv
<1>2. FailStopInv /\ [Next]_vars => FailStopInv'
  BY StoreInvStep, FilesStep DEF FailStopInv
<1> QED BY <1>1, <1>2, PTL DEF Spec

\* Once the log sync of Transaction::commit has succeeded, the transaction is found on
\* every page it changed, and the catalog leads to them, whatever happens afterwards:
\* I/O errors, exits, power losses, recoveries that are themselves interrupted.
THEOREM DurabilityHolds == ASSUME FailStop PROVE Spec => []Durability
  BY FailStopInvHolds, InvImpliesReads, PTL

\* The page writes of Transaction::commit are seen all or none, wherever commit stops.
THEOREM AtomicityHolds == ASSUME FailStop PROVE Spec => []Atomicity
  BY FailStopInvHolds, InvImpliesReads, PTL

\* No reader finds a change of a transaction that did not reach its commit marker.
THEOREM NoUncommittedVisibleHolds == ASSUME FailStop PROVE Spec => []NoUncommittedVisible
  BY FailStopInvHolds, InvImpliesReads, PTL

\* When open_database refuses a damaged log, the transactions whose commit was synced
\* are already in the data file.
THEOREM CommitsSurviveRefusalHolds == ASSUME FailStop PROVE Spec => []CommitsSurviveRefusal
  BY FailStopInvHolds, InvImpliesLive, PTL

\* An open store that has met no error reads what recovery would produce.
THEOREM LiveReadsMatchRecoveryHolds == ASSUME FailStop PROVE Spec => []LiveReadsMatchRecovery
  BY FailStopInvHolds, InvImpliesLive, PTL

\* The catalog in memory is the one in page 0: replace_catalog follows the data sync.
THEOREM CatalogInstalledHolds == ASSUME FailStop PROVE Spec => []CatalogInstalled
  BY FailStopInvHolds, InvImpliesLive, PTL

-----------------------------------------------------------------------------
(***************************************************************************)
(* The store implements AtomicStore: under the restrictions of FailStop,   *)
(* every step of TxStore is, under the mapping of TxStoreRefinement, one   *)
(* step of the abstract store or none.  What is found in the files is      *)
(* given by FailStopInv; what is left is to follow the commit markers.     *)
(***************************************************************************)

-----------------------------------------------------------------------------
(* Counting the commit markers. *)

LEMMA MarkerCount ==
    ASSUME NEW log \in Seq(LogRecord)
    PROVE  /\ MarkerPositions(log) \subseteq Nat \ {0}
           /\ MarkersUpTo(log, 0) = 0
           /\ \A n \in Nat : /\ MarkersUpTo(log, n) \in Nat
                             /\ MarkersUpTo(log, n + 1) = MarkersUpTo(log, n)
                                   + (IF n + 1 \in MarkerPositions(log) THEN 1 ELSE 0)
           /\ \A m, n \in Nat : m <= n => MarkersUpTo(log, m) <= MarkersUpTo(log, n)
<1> DEFINE P == MarkerPositions(log)
           Q(n) == {k \in P : k <= n}
<1>1. \A k \in P : k \in Nat /\ k >= 1
  <2>1. DOMAIN log = 1..Len(log) /\ Len(log) \in Nat
    OBVIOUS
  <2> QED BY <2>1 DEF MarkerPositions
<1>2. \A n : MarkersUpTo(log, n) = Cardinality(Q(n))
  BY DEF MarkersUpTo
<1> HIDE DEF P
<1>3. Q(0) = {}
  BY <1>1
<1>4. ASSUME NEW n \in Nat PROVE IsFiniteSet(Q(n)) /\ Cardinality(Q(n)) \in Nat
  <2>1. Q(n) \in SUBSET Nat /\ \A k \in Q(n) : k <= n
    BY <1>1
  <2>2. IsFiniteSet(Q(n))
    BY <2>1, FS_BoundedSetOfNaturals
  <2> QED BY <2>2, FS_CardinalityType
<1>5. ASSUME NEW n \in Nat
      PROVE  Cardinality(Q(n + 1)) = Cardinality(Q(n)) + (IF n + 1 \in P THEN 1 ELSE 0)
  <2>1. CASE n + 1 \in P
    <3>1. Q(n + 1) = Q(n) \cup {n + 1} /\ n + 1 \notin Q(n)
      BY <1>1, <2>1
    <3> HIDE DEF Q
    <3> QED BY <2>1, <3>1, <1>4, FS_AddElement
  <2>2. CASE n + 1 \notin P
    <3>1. Q(n + 1) = Q(n)
      BY <1>1, <2>2
    <3> HIDE DEF Q
    <3> QED BY <2>2, <3>1, <1>4
  <2> QED BY <2>1, <2>2
<1>6. ASSUME NEW m \in Nat, NEW n \in Nat, m <= n PROVE Cardinality(Q(m)) <= Cardinality(Q(n))
  <2>1. Q(m) \in SUBSET Q(n)
    BY <1>1, <1>6
  <2> HIDE DEF Q
  <2> QED BY <2>1, <1>4, FS_Subset
<1>7. MarkersUpTo(log, 0) = 0
  BY <1>2, <1>3, FS_EmptySet
<1>8. MarkerPositions(log) \subseteq Nat \ {0}
  BY <1>1 DEF P
<1> HIDE DEF Q
<1>9. ASSUME NEW n \in Nat
      PROVE  /\ MarkersUpTo(log, n) \in Nat
             /\ MarkersUpTo(log, n + 1) = MarkersUpTo(log, n)
                    + (IF n + 1 \in MarkerPositions(log) THEN 1 ELSE 0)
  BY <1>2, <1>4, <1>5 DEF P
<1>10. \A m, n \in Nat : m <= n => MarkersUpTo(log, m) <= MarkersUpTo(log, n)
  BY <1>2, <1>6
<1> QED BY <1>7, <1>8, <1>9, <1>10

\* The j-th marker is the only record with j markers up to it.
LEMMA MarkerFound ==
    ASSUME NEW log \in Seq(LogRecord), NEW n \in Nat, NEW j \in 1..MarkersUpTo(log, n)
    PROVE  /\ MarkerAt(log, j) \in MarkerPositions(log) /\ MarkerAt(log, j) \in 1..n
           /\ MarkersUpTo(log, MarkerAt(log, j)) = j
           /\ \A k \in MarkerPositions(log) : MarkersUpTo(log, k) = j => k = MarkerAt(log, j)
<1> DEFINE P == MarkerPositions(log)
           M(k) == MarkersUpTo(log, k)
           S == {m \in 1..n : \E x \in 0..(n - 1) : m = x + 1 /\ M(x) < j}
<1>1. /\ P \subseteq Nat \ {0} /\ M(0) = 0 /\ \A k \in Nat : M(k) \in Nat
      /\ \A k \in Nat : M(k + 1) = M(k) + (IF k + 1 \in P THEN 1 ELSE 0)
      /\ \A m, k \in Nat : m <= k => M(m) <= M(k)
  BY MarkerCount
<1> HIDE DEF P, M
<1>2. n >= 1 /\ j \in Nat /\ j >= 1 /\ j <= M(n)
  <2>1. j \in Nat /\ j >= 1 /\ j <= M(n)
    BY <1>1 DEF M
  <2>2. n # 0
    BY <1>1, <2>1
  <2> QED BY <2>1, <2>2
<1>3. PICK x \in 0..(n - 1) : M(x) < j /\ \A y \in 0..(n - 1) : M(y) < j => y <= x
  <2>1. S \in SUBSET (1..n) /\ 1 \in S
    <3>1. 1 \in 1..n /\ 0 \in 0..(n - 1) /\ 1 = 0 + 1
      BY <1>2
    <3>2. M(0) < j
      BY <1>1, <1>2
    <3> QED BY <3>1, <3>2
  <2>2. PICK k \in S : \A m \in S : m <= k
    <3> HIDE DEF S
    <3> QED BY <2>1, GreatestExists
  <2>3. PICK x \in 0..(n - 1) : k = x + 1 /\ M(x) < j
    BY <2>2
  <2>4. ASSUME NEW y \in 0..(n - 1), M(y) < j PROVE y <= x
    <3>1. y + 1 \in S
      BY <2>4
    <3> QED BY <2>2, <2>3, <3>1
  <2> QED BY <2>3, <2>4
<1> DEFINE k == x + 1
<1>5. x \in Nat /\ k \in 1..n /\ k \in Nat
  BY <1>3
<1>6. M(k) >= j
  <2>1. M(k) \in Nat
    BY <1>1, <1>5
  <2>2. CASE k = n
    BY <2>2, <1>2
  <2>3. CASE k # n
    <3>1. k \in 0..(n - 1) /\ ~(k <= x)
      BY <1>3, <1>5, <2>3
    <3> HIDE DEF k
    <3> QED BY <3>1, <2>1, <1>2, <1>3
  <2> QED BY <2>2, <2>3
<1>7. k \in P /\ M(k) = j
  <2>1. M(k) = M(x) + (IF k \in P THEN 1 ELSE 0) /\ M(x) \in Nat
    BY <1>1, <1>5
  <2> HIDE DEF k
  <2> QED BY <2>1, <1>2, <1>3, <1>6
<1>8. ASSUME NEW a \in P, NEW b \in P, M(a) = j, M(b) = j, a < b PROVE FALSE
  <2>1. PICK c \in Nat : b = c + 1 /\ a \in Nat /\ a <= c
    <3>1. a \in Nat /\ b - 1 \in Nat /\ a <= b - 1 /\ b = (b - 1) + 1
      BY <1>1, <1>8
    <3> QED BY <3>1
  <2>2. M(b) = M(c) + 1
    BY <1>1, <1>8, <2>1
  <2>3. M(a) <= M(c) /\ M(c) \in Nat
    BY <1>1, <2>1
  <2> QED BY <2>2, <2>3, <1>2, <1>8
<1> HIDE DEF k
<1>9. \A m \in P : M(m) = j => m = k
  BY <1>1, <1>5, <1>7, <1>8
<1>10. MarkerAt(log, j) = k
  <2>1. MarkerAt(log, j) = CHOOSE m \in P : M(m) = j
    BY DEF MarkerAt, P, M
  <2> QED BY <2>1, <1>7, <1>9
<1> QED BY <1>5, <1>7, <1>9, <1>10 DEF P, M

\* Two logs whose first n records have the same markers count them alike.
LEMMA MarkerPrefix ==
    ASSUME NEW log \in Seq(LogRecord), NEW log2 \in Seq(LogRecord), NEW n \in Nat,
           \A k \in 1..n : k \in MarkerPositions(log2) <=> k \in MarkerPositions(log)
    PROVE  /\ \A m \in 0..n : MarkersUpTo(log2, m) = MarkersUpTo(log, m)
           /\ \A j \in 1..MarkersUpTo(log, n) : MarkerAt(log2, j) = MarkerAt(log, j)
<1>1. MarkerPositions(log) \subseteq Nat \ {0} /\ MarkerPositions(log2) \subseteq Nat \ {0}
  BY MarkerCount
<1>2. ASSUME NEW m \in 0..n PROVE MarkersUpTo(log2, m) = MarkersUpTo(log, m)
  <2>1. {k \in MarkerPositions(log2) : k <= m} = {k \in MarkerPositions(log) : k <= m}
    BY <1>1
  <2> QED BY <2>1 DEF MarkersUpTo
<1>3. ASSUME NEW j \in 1..MarkersUpTo(log, n) PROVE MarkerAt(log2, j) = MarkerAt(log, j)
  <2> DEFINE k == MarkerAt(log, j)
  <2>1. k \in MarkerPositions(log) /\ k \in 1..n /\ MarkersUpTo(log, k) = j
    BY <1>3, MarkerFound
  <2> HIDE DEF k
  <2>2. k \in MarkerPositions(log2) /\ MarkersUpTo(log2, k) = j
    BY <1>2, <2>1
  <2>3. j \in 1..MarkersUpTo(log2, n)
    BY <1>2
  <2>4. k = MarkerAt(log2, j)
    BY <2>2, <2>3, MarkerFound
  <2> QED BY <2>4 DEF k
<1> QED BY <1>2, <1>3

-----------------------------------------------------------------------------
(* The history of the store. *)

HistoryEntry == [tx : TxNumbers, pages : SUBSET Pages]

\* The history lists the committed transactions with their pages.
LEMMA HistoryFacts ==
    ASSUME FailStopInv
    PROVE  /\ CommitHistory \in Seq(HistoryEntry)
           /\ Len(CommitHistory) = MarkersUpTo(wal, Len(wal))
           /\ Len(CommitHistory) \in Nat
           /\ \A j \in 1..Len(CommitHistory) :
                 /\ CommitHistory[j].tx \in Committed(wal)
                 /\ CommitHistory[j].pages = hist[CommitHistory[j].tx].pages
           /\ \A k \in MarkerPositions(wal) :
                 /\ MarkersUpTo(wal, k) \in 1..Len(CommitHistory)
                 /\ CommitHistory[MarkersUpTo(wal, k)].tx = wal[k].tx
<1> DEFINE N == MarkersUpTo(wal, Len(wal))
           e(j) == [tx |-> wal[MarkerAt(wal, j)].by, pages |-> hist[wal[MarkerAt(wal, j)].by].pages]
<1>1. N \in Nat /\ Len(wal) \in Nat
  BY InvTypes, MarkerCount
<1>2. CommitHistory = [j \in 1..N |-> e(j)]
  BY DEF CommitHistory
<1>3. ASSUME NEW k \in MarkerPositions(wal)
      PROVE  /\ k \in DOMAIN wal /\ wal[k].by = wal[k].tx
             /\ wal[k].tx \in Committed(wal) /\ wal[k].tx \in DOMAIN hist
             /\ wal[k].tx \in TxNumbers /\ hist[wal[k].tx].pages \in SUBSET Pages
  <2>1. k \in DOMAIN wal /\ wal[k].kind = "commit"
    BY DEF MarkerPositions
  <2>2. wal[k].by = wal[k].tx /\ wal[k].tx \in Committed(wal) /\ wal[k].tx \in DOMAIN hist
    BY <2>1 DEF FailStopInv, FilesInv, Records, Committed
  <2>3. DOMAIN hist \subseteq TxNumbers
    BY InvTypes, BoundsAssumption DEF TypeOK, TxNumbers
  <2>4. hist[wal[k].tx] \in HistEntry
    BY <2>2, InvTypes
  <2> QED BY <2>1, <2>2, <2>3, <2>4 DEF HistEntry
<1>4. ASSUME NEW j \in 1..N
      PROVE  /\ MarkerAt(wal, j) \in MarkerPositions(wal)
             /\ e(j).tx = wal[MarkerAt(wal, j)].tx /\ e(j) \in HistoryEntry
             /\ e(j).tx \in Committed(wal) /\ e(j).pages = hist[e(j).tx].pages
  <2>1. MarkerAt(wal, j) \in MarkerPositions(wal)
    BY <1>1, InvTypes, MarkerFound
  <2> QED BY <2>1, <1>3 DEF HistoryEntry
<1>5. CommitHistory \in Seq(HistoryEntry) /\ Len(CommitHistory) = N
  <2> HIDE DEF N, e
  <2> QED BY <1>1, <1>2, <1>4
<1>6. ASSUME NEW k \in MarkerPositions(wal)
      PROVE  /\ MarkersUpTo(wal, k) \in 1..N
             /\ e(MarkersUpTo(wal, k)).tx = wal[k].tx
  <2> DEFINE j == MarkersUpTo(wal, k)
  <2>1. k \in Nat /\ k >= 1 /\ k <= Len(wal)
    BY <1>3, InvTypes
  <2>2. j \in Nat /\ j <= N
    BY <1>1, <2>1, InvTypes, MarkerCount
  <2>3. j >= 1
    <3>1. PICK m \in Nat : k = m + 1
      <4>1. k - 1 \in Nat /\ k = (k - 1) + 1
        BY <2>1
      <4> QED BY <4>1
    <3>2. MarkersUpTo(wal, m + 1) = MarkersUpTo(wal, m) + 1 /\ MarkersUpTo(wal, m) \in Nat
      BY <3>1, InvTypes, MarkerCount
    <3> QED BY <3>1, <3>2
  <2>4. k = MarkerAt(wal, j)
    BY <1>1, <2>2, <2>3, InvTypes, MarkerFound
  <2>5. j \in 1..N
    BY <1>1, <2>2, <2>3
  <2>6. e(j).tx = wal[MarkerAt(wal, j)].tx
    BY <1>4, <2>5
  <2> QED BY <2>4, <2>5, <2>6
<1> HIDE DEF N, e
<1>7. \A j \in 1..N : CommitHistory[j] = e(j)
  BY <1>2
<1> QED BY <1>1, <1>4, <1>5, <1>6, <1>7 DEF N

\* What survives of the log gives what survives of the history.
LEMMA PrefixHistory ==
    ASSUME FailStopInv, wal' \in Seq(LogRecord), NEW n \in 0..Len(wal),
           \A k \in DOMAIN wal' : wal'[k].kind = "commit" => k \in 1..n /\ wal'[k] = wal[k],
           \A k \in 1..n : wal[k].kind = "commit" => k \in DOMAIN wal' /\ wal'[k] = wal[k],
           \A i \in Committed(wal) : hist'[i].pages = hist[i].pages
    PROVE  /\ MarkersUpTo(wal, n) \in 0..Len(CommitHistory)
           /\ CommitHistory' = SubSeq(CommitHistory, 1, MarkersUpTo(wal, n))
           /\ \A m \in 0..n : MarkersUpTo(wal', m) = MarkersUpTo(wal, m)
           /\ MarkersUpTo(wal', Len(wal')) = MarkersUpTo(wal, n)
<1> DEFINE c == MarkersUpTo(wal, n)
<1>0. n \in Nat /\ n <= Len(wal) /\ Len(wal) \in Nat /\ Len(wal') \in Nat
      /\ DOMAIN wal' = 1..Len(wal')
  BY InvTypes
<1>1. \A k \in 1..n : k \in MarkerPositions(wal') <=> k \in MarkerPositions(wal)
  BY <1>0, InvTypes, SMTT(30) DEF MarkerPositions
<1>2. /\ \A m \in 0..n : MarkersUpTo(wal', m) = MarkersUpTo(wal, m)
      /\ \A j \in 1..c : MarkerAt(wal', j) = MarkerAt(wal, j)
  BY <1>0, <1>1, InvTypes, MarkerPrefix
<1>3. MarkersUpTo(wal', Len(wal')) = c
  <2>1. {k \in MarkerPositions(wal') : k <= Len(wal')} = {k \in MarkerPositions(wal) : k <= n}
    <3>1. ASSUME NEW k \in MarkerPositions(wal') PROVE k \in 1..n /\ k \in MarkerPositions(wal)
      BY <1>1, <3>1 DEF MarkerPositions
    <3>2. ASSUME NEW k \in MarkerPositions(wal), k <= n
          PROVE  k \in MarkerPositions(wal') /\ k <= Len(wal')
      <4>1. k \in 1..n
        BY <3>2, InvTypes DEF MarkerPositions
      <4>2. k \in MarkerPositions(wal')
        BY <4>1, <1>1
      <4> QED BY <4>2, <1>0 DEF MarkerPositions
    <3> QED BY <3>1, <3>2, <1>0
  <2> QED BY <2>1 DEF MarkersUpTo
<1>4. c \in Nat /\ c <= Len(CommitHistory) /\ Len(CommitHistory) \in Nat
      /\ Len(CommitHistory) = MarkersUpTo(wal, Len(wal)) /\ CommitHistory \in Seq(HistoryEntry)
  BY <1>0, InvTypes, MarkerCount, HistoryFacts
<1>5. ASSUME NEW j \in 1..c
      PROVE  [tx |-> wal'[MarkerAt(wal', j)].by, pages |-> hist'[wal'[MarkerAt(wal', j)].by].pages]
             = CommitHistory[j]
  <2> DEFINE k == MarkerAt(wal, j)
  <2>1. k \in MarkerPositions(wal) /\ k \in 1..n
    BY <1>0, InvTypes, MarkerFound
  <2>2. MarkerAt(wal', j) = k
    BY <1>2
  <2>3. CommitHistory[j] = [tx |-> wal[k].by, pages |-> hist[wal[k].by].pages]
    <3>1. j \in 1..MarkersUpTo(wal, Len(wal))
      BY <1>4
    <3> QED BY <3>1 DEF CommitHistory
  <2> HIDE DEF k
  <2>4. wal'[k] = wal[k] /\ wal[k].by \in Committed(wal)
    BY <2>1 DEF MarkerPositions, Committed, FailStopInv, FilesInv, Records
  <2> QED BY <2>2, <2>3, <2>4
<1>6. CommitHistory' = [j \in 1..c |-> CommitHistory[j]]
  <2>1. CommitHistory' = [j \in 1..MarkersUpTo(wal', Len(wal')) |->
           [tx |-> wal'[MarkerAt(wal', j)].by, pages |-> hist'[wal'[MarkerAt(wal', j)].by].pages]]
    BY DEF CommitHistory
  <2> HIDE DEF c
  <2> QED BY <2>1, <1>3, <1>5
<1>7. SubSeq(CommitHistory, 1, c) = [j \in 1..c |-> CommitHistory[j]]
  <2> HIDE DEF c
  <2> QED BY <1>4
<1> QED BY <1>2, <1>3, <1>4, <1>6, <1>7

-----------------------------------------------------------------------------
(* What a reader finds. *)

\* A reader finds what the history says, and nothing else.
Shown == [p \in Pages |-> Visible(p)] = Atomic!Contents(CommitHistory)

LEMMA InvShown == FailStopInv => Shown
<1> SUFFICES ASSUME FailStopInv, NEW p \in Pages
             PROVE  Visible(p) = {CommitHistory[k].tx :
                        k \in {j \in DOMAIN CommitHistory : p \in CommitHistory[j].pages}}
  BY DEF Shown, Atomic!Contents
<1>1. Found = Committed(wal)
  BY DEF Found, FailStopInv, FilesInv, Markers, Committed
<1>2. Visible(p) = TouchedBy(hist, Committed(wal), p)
  <2>1. Agrees(wal, Committed(wal), p, View(p)) /\ Right(wal, hist, Committed(wal))
    BY <1>1, ViewAgrees DEF FailStopInv, FilesInv, RightLog
  <2>2. \A k \in DOMAIN wal : wal[k].kind = "image" => wal[k].image \in Image
    BY DEF FailStopInv, FilesInv, Records
  <2>3. /\ \A i \in Committed(wal) : p \in hist[i].pages => Valid(View(p))
        /\ Valid(View(p)) => View(p).txs = TouchedBy(hist, Committed(wal), p)
    BY <2>1, <2>2, InvTypes, AgreeingPage
  <2>4. ~Valid(View(p)) => TouchedBy(hist, Committed(wal), p) = {}
    BY <2>3 DEF TouchedBy
  <2> QED BY <2>3, <2>4 DEF Visible
<1>3. DOMAIN CommitHistory = 1..Len(CommitHistory)
  BY HistoryFacts
<1>4. ASSUME NEW i \in TouchedBy(hist, Committed(wal), p)
      PROVE  \E j \in DOMAIN CommitHistory : p \in CommitHistory[j].pages /\ i = CommitHistory[j].tx
  <2>1. PICK k \in DOMAIN wal : wal[k].kind = "commit" /\ wal[k].tx = i
    BY <1>4 DEF TouchedBy, Committed
  <2>2. k \in MarkerPositions(wal)
    BY <2>1 DEF MarkerPositions
  <2>3. PICK j \in 1..Len(CommitHistory) : CommitHistory[j].tx = i
    BY <2>1, <2>2, HistoryFacts
  <2>4. CommitHistory[j].pages = hist[i].pages
    BY <2>3, HistoryFacts
  <2> QED BY <1>3, <1>4, <2>3, <2>4 DEF TouchedBy
<1>5. \A j \in DOMAIN CommitHistory : p \in CommitHistory[j].pages =>
         CommitHistory[j].tx \in TouchedBy(hist, Committed(wal), p)
  BY <1>3, HistoryFacts DEF TouchedBy
<1> QED BY <1>2, <1>4, <1>5

LEMMA InvShownNext == FailStopInv' => Shown'
  BY InvShown, PTL

-----------------------------------------------------------------------------
(* The steps. *)

\* A step that adds no marker to the log and takes none away, but may sync it; one that
\* acknowledges nothing and leaves the pages of the committed transactions alone.
QuietLog ==
    /\ \A k \in DOMAIN wal : k \in DOMAIN wal' /\ wal'[k] = wal[k]
    /\ \A k \in DOMAIN wal' : k \in DOMAIN wal \/ wal'[k].kind # "commit"
    /\ walDurable' \in {walDurable, Len(wal)}
QuietHist ==
    /\ \A i \in Committed(wal) : hist'[i].pages = hist[i].pages
    /\ Acknowledged' = Acknowledged

\* A reader finds the same as long as the history is the same.
LEMMA SameStore ==
    ASSUME FailStopInv, FailStopInv', CommitHistory' = CommitHistory
    PROVE  [p \in Pages |-> Visible(p)]' = [p \in Pages |-> Visible(p)]
<1> DEFINE S(h) == [p \in Pages |-> {h[k].tx : k \in {j \in DOMAIN h : p \in h[j].pages}}]
<1>1. [p \in Pages |-> Visible(p)] = S(CommitHistory)
  BY InvShown DEF Shown, Atomic!Contents
<1>2. [p \in Pages |-> Visible(p)]' = S(CommitHistory')
  BY InvShownNext DEF Shown, Atomic!Contents
<1> HIDE DEF S
<1> QED BY <1>1, <1>2

\* The history is the same as long as the log and the pages of the committed are.
LEMMA SameHistory ==
    ASSUME FailStopInv, wal' = wal, \A i \in Committed(wal) : hist'[i].pages = hist[i].pages
    PROVE  CommitHistory' = CommitHistory
<1>1. CommitHistory' = SubSeq(CommitHistory, 1, MarkersUpTo(wal, Len(wal)))
  <2>1. /\ Len(wal) \in 0..Len(wal) /\ wal' \in Seq(LogRecord)
        /\ \A k \in DOMAIN wal' : k \in 1..Len(wal) /\ wal'[k] = wal[k]
        /\ \A k \in 1..Len(wal) : k \in DOMAIN wal' /\ wal'[k] = wal[k]
    BY InvTypes
  <2> QED BY <2>1, PrefixHistory
<1>2. CommitHistory \in Seq(HistoryEntry) /\ MarkersUpTo(wal, Len(wal)) = Len(CommitHistory)
  BY HistoryFacts
<1> QED BY <1>1, <1>2

LEMMA QuietRefines ==
    ASSUME FailStopInv, FailStopInv', QuietLog, QuietHist
    PROVE  Atomic!AbsSync \/ UNCHANGED Atomic!absVars
<1>1. wal' \in Seq(LogRecord)
  BY DEF FailStopInv, StoreInv, TypeInv, TypeOK
<1>2. /\ CommitHistory' = SubSeq(CommitHistory, 1, MarkersUpTo(wal, Len(wal)))
      /\ \A m \in 0..Len(wal) : MarkersUpTo(wal', m) = MarkersUpTo(wal, m)
  <2>1. \A k \in DOMAIN wal' : wal'[k].kind = "commit" => k \in 1..Len(wal) /\ wal'[k] = wal[k]
    BY InvTypes DEF QuietLog
  <2>2. \A k \in 1..Len(wal) : wal[k].kind = "commit" => k \in DOMAIN wal' /\ wal'[k] = wal[k]
    BY InvTypes DEF QuietLog
  <2>3. Len(wal) \in 0..Len(wal)
    BY InvTypes
  <2> QED BY <1>1, <2>1, <2>2, <2>3, PrefixHistory DEF QuietHist
<1>3. CommitHistory' = CommitHistory
  <2>1. CommitHistory \in Seq(HistoryEntry) /\ MarkersUpTo(wal, Len(wal)) = Len(CommitHistory)
    BY HistoryFacts
  <2> QED BY <1>2, <2>1
<1>4. [p \in Pages |-> Visible(p)]' = [p \in Pages |-> Visible(p)]
  BY <1>3, SameStore
<1>5. Acknowledged' = Acknowledged
  BY DEF QuietHist
<1>6. CASE walDurable' = walDurable
  <2>1. MarkersUpTo(wal, walDurable)' = MarkersUpTo(wal, walDurable)
    BY <1>2, <1>6, InvTypes
  <2> QED BY <1>3, <1>4, <1>5, <2>1 DEF Atomic!absVars
<1>7. CASE walDurable' = Len(wal)
  <2>1. MarkersUpTo(wal, walDurable)' = Len(CommitHistory)
    BY <1>2, <1>7, InvTypes, HistoryFacts
  <2> QED BY <1>3, <1>4, <1>5, <2>1 DEF Atomic!AbsSync
<1> QED BY <1>6, <1>7 DEF QuietLog

\* The commit marker is appended: the transaction takes effect.
LEMMA CommitRefines ==
    ASSUME FailStop, FailStopInv, FailStopInv', AppendCommit
    PROVE  Atomic!AbsNext
<1> USE DEF logVars, dataVars, storeVars, txVars, bounds
<1> DEFINE rec == CommitTx(TxId, Current)
           n == Len(wal)
           c == MarkersUpTo(wal, n)
           i == Current
<1>1. /\ phase = "images" /\ phase \in InTx /\ Append_(rec) /\ hist' = hist
  BY DEF AppendCommit, InTx, Committing
<1>2. /\ i \in DOMAIN hist /\ Sound /\ TxId = i /\ i \in Nat /\ i \in TxNumbers
      /\ hist[i].pages \in SUBSET Pages
  BY <1>1, InvTypes, CurrentFacts, HistTypes
<1>3. rec \in LogRecord /\ rec.kind = "commit" /\ rec.tx = i /\ rec.by = i
  BY <1>2, RecordFacts, EmptyFacts DEF CommitTx, Record
<1>4. i \notin Committed(wal)
  BY <1>1 DEF FailStopInv, FilesInv, CurrentRecords
<1> HIDE DEF rec
<1>5. /\ wal' \in Seq(LogRecord) /\ Len(wal') = n + 1 /\ DOMAIN wal' = 1..(n + 1) /\ n \in Nat
      /\ wal'[n + 1] = rec /\ \A k \in 1..n : wal'[k] = wal[k]
      /\ walDurable' = walDurable /\ walDurable \in 0..n
  BY <1>1, <1>2, <1>3, InvTypes, GrowFacts
<1>6. /\ \A k \in 1..n : k \in MarkerPositions(wal') <=> k \in MarkerPositions(wal)
      /\ n + 1 \in MarkerPositions(wal')
  BY <1>3, <1>5, InvTypes DEF MarkerPositions
<1>7. /\ \A m \in 0..n : MarkersUpTo(wal', m) = MarkersUpTo(wal, m)
      /\ \A j \in 1..c : MarkerAt(wal', j) = MarkerAt(wal, j)
  BY <1>5, <1>6, InvTypes, MarkerPrefix
<1>8. /\ CommitHistory \in Seq(HistoryEntry) /\ Len(CommitHistory) = c /\ c \in Nat
      /\ \A j \in 1..c : CommitHistory[j].tx # i
  BY <1>4, HistoryFacts
<1>9. MarkersUpTo(wal', n + 1) = c + 1
  <2>1. MarkersUpTo(wal', n + 1) = MarkersUpTo(wal', n)
                                      + (IF n + 1 \in MarkerPositions(wal') THEN 1 ELSE 0)
    BY <1>5, MarkerCount
  <2>2. MarkersUpTo(wal', n) = c
    BY <1>5, <1>7
  <2> QED BY <1>6, <2>1, <2>2
<1>10. MarkerAt(wal', c + 1) = n + 1
  BY <1>5, <1>6, <1>8, <1>9, MarkerFound
<1>11. CommitHistory' = Append(CommitHistory, [tx |-> i, pages |-> hist[i].pages])
  <2> DEFINE e(j) == [tx |-> wal'[MarkerAt(wal', j)].by,
                      pages |-> hist[wal'[MarkerAt(wal', j)].by].pages]
  <2>1. CommitHistory' = [j \in 1..(c + 1) |-> e(j)]
    BY <1>1, <1>5, <1>9 DEF CommitHistory
  <2>2. e(c + 1) = [tx |-> i, pages |-> hist[i].pages]
    BY <1>3, <1>5, <1>10
  <2>3. ASSUME NEW j \in 1..c PROVE e(j) = CommitHistory[j]
    <3>1. MarkerAt(wal, j) \in 1..n
      BY <1>5, InvTypes, MarkerFound
    <3>2. CommitHistory[j] = [tx |-> wal[MarkerAt(wal, j)].by,
                              pages |-> hist[wal[MarkerAt(wal, j)].by].pages]
      BY DEF CommitHistory
    <3> QED BY <1>5, <1>7, <3>1, <3>2
  <2>4. [tx |-> i, pages |-> hist[i].pages] \in HistoryEntry
    BY <1>2 DEF HistoryEntry
  <2> DEFINE entry == [tx |-> i, pages |-> hist[i].pages]
  <2> HIDE DEF e, c, entry
  <2>5. Append(CommitHistory, entry) = [j \in 1..(c + 1) |-> IF j = c + 1 THEN entry ELSE CommitHistory[j]]
    BY <1>8, <2>4 DEF entry
  <2>6. \A j \in 1..(c + 1) : e(j) = IF j = c + 1 THEN entry ELSE CommitHistory[j]
    BY <1>8, <2>2, <2>3 DEF entry
  <2> QED BY <2>1, <2>5, <2>6 DEF entry
<1>12. [p \in Pages |-> Visible(p)]' = Atomic!Contents(CommitHistory')
  BY InvShownNext DEF Shown, Atomic!Contents
<1>13. MarkersUpTo(wal, walDurable)' = MarkersUpTo(wal, walDurable) /\ Acknowledged' = Acknowledged
  BY <1>1, <1>5, <1>7 DEF Acknowledged
<1>14. \A k \in DOMAIN CommitHistory : CommitHistory[k].tx # i
  BY <1>8
<1>15. Atomic!AbsCommit(i, hist[i].pages)
  BY <1>11, <1>12, <1>13, <1>14 DEF Atomic!AbsCommit
<1> QED BY <1>2, <1>15 DEF Atomic!AbsNext

\* Commit returns Ok: its transaction is acknowledged, and its marker is durable.
LEMMA AckRefines ==
    ASSUME FailStopInv, FailStopInv', DataSync
    PROVE  Atomic!AbsNext
<1> USE DEF logVars, dataVars, storeVars, txVars, bounds
<1> DEFINE i == Current
           d == MarkersUpTo(wal, walDurable)
<1>1. /\ phase = "write" /\ phase \in InTx /\ wal' = wal /\ walDurable' = walDurable
      /\ hist' = WithOutcome("acked")
  BY DEF DataSync, EndTx, InTx, Committing
<1>2. i \in DOMAIN hist /\ TxId = i /\ i \in TxNumbers /\ hist \in Seq(HistEntry)
  BY <1>1, InvTypes, CurrentFacts, HistTypes
<1>3. /\ DOMAIN hist' = DOMAIN hist
      /\ hist'[i] = [id |-> TxId, outcome |-> "acked", pages |-> hist[i].pages]
      /\ \A m \in DOMAIN hist : m # i => hist'[m] = hist[m]
  BY <1>1, <1>2 DEF WithOutcome
<1>4. Acknowledged' = Acknowledged \cup {i}
  BY <1>2, <1>3 DEF Acknowledged
<1>5. \A m \in Committed(wal) : hist'[m].pages = hist[m].pages
  <2>1. Committed(wal) \subseteq DOMAIN hist
    BY DEF FailStopInv, FilesInv, Records, Committed
  <2> QED BY <1>3, <2>1
<1>6. CommitHistory' = CommitHistory
  BY <1>1, <1>5, SameHistory
<1>7. [p \in Pages |-> Visible(p)]' = [p \in Pages |-> Visible(p)]
  BY <1>6, SameStore
<1>8. \E k \in 1..d : CommitHistory[k].tx = i
  <2>1. PICK m \in 1..walDurable : wal[m] = CommitTx(TxId, Current)
    BY <1>1 DEF FailStopInv, StoreInv, CommitProgress, Logged
  <2>2. wal[m].kind = "commit" /\ wal[m].tx = i /\ m \in DOMAIN wal /\ m <= walDurable
        /\ m \in Nat /\ walDurable \in Nat
    BY <1>2, <2>1, InvTypes DEF CommitTx, Record
  <2>3. m \in MarkerPositions(wal)
    BY <2>2 DEF MarkerPositions
  <2>4. MarkersUpTo(wal, m) \in 1..Len(CommitHistory) /\ CommitHistory[MarkersUpTo(wal, m)].tx = i
    BY <2>2, <2>3, HistoryFacts
  <2>5. MarkersUpTo(wal, m) <= d /\ d \in Nat
    BY <2>2, InvTypes, MarkerCount
  <2>6. MarkersUpTo(wal, m) \in 1..d
    BY <2>4, <2>5, HistoryFacts
  <2> QED BY <2>4, <2>6
<1>9. d' = d
  BY <1>1
<1>10. Atomic!AbsAck(i)
  BY <1>4, <1>6, <1>7, <1>8, <1>9 DEF Atomic!AbsAck
<1> QED BY <1>2, <1>10 DEF Atomic!AbsNext

\* What a power loss leaves of the log is a prefix of it, and perhaps a damaged record.
LEMMA SurvivingPrefix ==
    ASSUME TypeOK, NEW w \in SurvivingLogs
    PROVE  \E n \in walDurable..Len(wal) :
              /\ \A k \in 1..n : k \in DOMAIN w /\ w[k] = wal[k]
              /\ \A k \in DOMAIN w : k \in 1..n \/ w[k].kind = "garbage"
<1>1. wal \in Seq(LogRecord) /\ walDurable \in 0..Len(wal) /\ Len(wal) \in Nat
  BY DEF TypeOK
<1>2. ASSUME NEW n \in 0..Len(wal)
      PROVE  /\ SubSeq(wal, 1, n) \in Seq(LogRecord) /\ Len(SubSeq(wal, 1, n)) = n
             /\ \A k \in 1..n : SubSeq(wal, 1, n)[k] = wal[k]
  BY <1>1
<1>3. CASE \E n \in walDurable..Len(wal) : w = SubSeq(wal, 1, n)
  <2>1. PICK n \in walDurable..Len(wal) : w = SubSeq(wal, 1, n)
    BY <1>3
  <2>2. n \in 0..Len(wal) /\ DOMAIN w = 1..n /\ \A k \in 1..n : w[k] = wal[k]
    BY <1>1, <1>2, <2>1
  <2> QED BY <2>2
<1>4. CASE \E n \in walDurable..(Len(wal) - 1) : w = Append(SubSeq(wal, 1, n), Garbage)
  <2>1. PICK n \in walDurable..(Len(wal) - 1) : w = Append(SubSeq(wal, 1, n), Garbage)
    BY <1>4
  <2>2. n \in 0..Len(wal) /\ n \in walDurable..Len(wal)
    BY <1>1
  <2>3. /\ DOMAIN w = 1..(n + 1) /\ w[n + 1] = Garbage
        /\ \A k \in 1..n : w[k] = wal[k]
    BY <1>1, <1>2, <2>1, <2>2
  <2>4. Garbage.kind = "garbage"
    BY DEF Garbage, Record
  <2>5. \A k \in DOMAIN w : k \in 1..n \/ w[k].kind = "garbage"
    BY <2>2, <2>3, <2>4
  <2>6. \A k \in 1..n : k \in DOMAIN w /\ w[k] = wal[k]
    BY <2>2, <2>3
  <2> QED BY <2>2, <2>5, <2>6
<1> QED BY <1>3, <1>4 DEF SurvivingLogs

\* While commit writes the data file it has not been acknowledged.
Pending == phase = "write" => hist[Current].outcome = "logged"

\* A transaction that ends in another way acknowledges nothing.
LEMMA OutcomeQuiet ==
    ASSUME FailStopInv, Pending, phase \in InTx, NEW o \in Outcomes, o # "acked",
           hist' = WithOutcome(o)
    PROVE  QuietHist
<1>1. Current \in DOMAIN hist /\ hist \in Seq(HistEntry)
  BY InvTypes, CurrentFacts
<1>2. /\ DOMAIN hist' = DOMAIN hist
      /\ hist'[Current] = [id |-> TxId, outcome |-> o, pages |-> hist[Current].pages]
      /\ \A m \in DOMAIN hist : m # Current => hist'[m] = hist[m]
  BY <1>1 DEF WithOutcome
<1>3. hist[Current].outcome # "acked"
  <2>1. CASE phase = "write"
    BY <2>1 DEF Pending
  <2>2. CASE phase # "write"
    BY <2>2, <1>1 DEF FailStopInv, FilesInv, CurrentRecords, Kept, KeptIn
  <2> QED BY <2>1, <2>2
<1>4. Acknowledged' = Acknowledged
  BY <1>1, <1>2, <1>3 DEF Acknowledged
<1>5. Committed(wal) \subseteq DOMAIN hist
  BY DEF FailStopInv, FilesInv, Records, Committed
<1> QED BY <1>2, <1>4, <1>5 DEF QuietHist

LEMMA SameHistQuiet == hist' = hist => QuietHist
  BY DEF QuietHist, Acknowledged

LEMMA ForgetQuiet ==
    ASSUME FailStopInv, Pending, ForgetMemory
    PROVE  QuietHist
<1>1. CASE phase \in InTx \ {"write"}
  BY <1>1, OutcomeQuiet DEF ForgetMemory, Outcomes
<1>2. CASE phase \notin InTx \ {"write"}
  BY <1>2, SameHistQuiet DEF ForgetMemory
<1> QED BY <1>1, <1>2

\* A power loss keeps the transactions whose markers survive, and those are the first.
LEMMA CrashRefines ==
    ASSUME FailStopInv, FailStopInv', Pending, PowerLoss
    PROVE  Atomic!AbsNext
<1>1. wal' \in SurvivingLogs /\ walDurable' = Len(wal') /\ QuietHist
  BY ForgetQuiet DEF PowerLoss
<1>2. PICK n \in walDurable..Len(wal) :
              /\ \A k \in 1..n : k \in DOMAIN wal' /\ wal'[k] = wal[k]
              /\ \A k \in DOMAIN wal' : k \in 1..n \/ wal'[k].kind = "garbage"
  BY <1>1, InvTypes, SurvivingPrefix
<1> DEFINE c == MarkersUpTo(wal, n)
<1>3. n \in 0..Len(wal) /\ n \in Nat /\ walDurable \in Nat /\ walDurable <= n
  BY InvTypes
<1>4. /\ c \in 0..Len(CommitHistory) /\ CommitHistory' = SubSeq(CommitHistory, 1, c)
      /\ MarkersUpTo(wal', Len(wal')) = c
  <2>1. /\ wal' \in Seq(LogRecord)
        /\ \A k \in DOMAIN wal' : wal'[k].kind = "commit" => k \in 1..n /\ wal'[k] = wal[k]
    BY <1>2 DEF FailStopInv, StoreInv, TypeInv, TypeOK
  <2> QED BY <1>1, <1>2, <1>3, <2>1, PrefixHistory DEF QuietHist
<1>5. MarkersUpTo(wal, walDurable) <= c /\ MarkersUpTo(wal, walDurable) \in Nat
  BY <1>3, InvTypes, MarkerCount
<1>6. c \in MarkersUpTo(wal, walDurable)..Len(CommitHistory)
  BY <1>4, <1>5, HistoryFacts
<1>7. [p \in Pages |-> Visible(p)]' = Atomic!Contents(CommitHistory')
  BY InvShownNext DEF Shown, Atomic!Contents
<1>8. MarkersUpTo(wal, walDurable)' = c /\ Acknowledged' = Acknowledged
  BY <1>1, <1>4 DEF QuietHist
<1> HIDE DEF c
<1>9. Atomic!AbsCrash(c)
  BY <1>4, <1>7, <1>8 DEF Atomic!AbsCrash
<1> QED BY <1>6, <1>9 DEF Atomic!AbsNext

LEMMA PendingStep ==
    ASSUME FailStopInv, Pending, [Next]_vars
    PROVE  Pending'
<1> SUFFICES ASSUME phase' = "write" PROVE hist'[Len(hist')].outcome = "logged"
  BY DEF Pending, Current
<1> USE DEF logVars, dataVars, storeVars, txVars, bounds
<1>1. \/ Commit \/ AppendImage \/ AppendCommit \/ WalSync \/ WritePage
      \/ Writeback \/ UNCHANGED vars
  BY CommittingSteps DEF Committing
<1>2. CASE WalSync
  <2>1. phase \in InTx /\ hist' = WithOutcome("logged")
    BY <1>2 DEF WalSync, InTx, Committing
  <2>2. Current \in DOMAIN hist /\ hist \in Seq(HistEntry) /\ Current = Len(hist)
    BY <2>1, InvTypes, CurrentFacts
  <2> QED BY <2>1, <2>2 DEF WithOutcome
<1>3. CASE WritePage \/ Writeback \/ UNCHANGED vars
  <2>1. hist' = hist /\ phase = "write"
    BY <1>3 DEF WritePage, Writeback, vars
  <2> QED BY <2>1 DEF Pending, Current
<1>4. CASE Commit \/ AppendImage \/ AppendCommit
  BY <1>4 DEF Commit, MayUseTx, AppendImage, AppendCommit
<1> QED BY <1>1, <1>2, <1>3, <1>4

\* Appending a record that is no commit marker, or failing to append one.
LEMMA AppendQuiet ==
    ASSUME FailStopInv, Sound
    PROVE  /\ \A rec \in LogRecord : rec.kind # "commit" /\ Append_(rec) => QuietLog
           /\ AppendFails => QuietLog
  BY GrowFacts, FailedAppendFacts DEF QuietLog

LEMMA SameLogQuiet == wal' = wal /\ walDurable' \in {walDurable, Len(wal)} => QuietLog
  BY DEF QuietLog

\* All the other steps are quiet.
LEMMA QuietSteps ==
    ASSUME FailStop, FailStopInv, Pending, Next, ~AppendCommit, ~DataSync, ~PowerLoss
    PROVE  QuietLog /\ QuietHist
<1> USE DEF logVars, dataVars, storeVars, txVars, bounds
<1>1. CASE RedoRecord \/ RedoDone \/ WritePage
  BY <1>1, SameLogQuiet, SameHistQuiet DEF RedoRecord, RedoDone, WritePage
<1>2. CASE AppendImage
  <2>1. phase \in InTx /\ todo # {} /\ hist' = hist
    BY <1>2 DEF AppendImage, InTx, Committing
  <2>2. PICK p : p = Least(todo) /\ Append_(PageImage(TxId, p, dirty[p], Current))
    BY <1>2 DEF AppendImage
  <2>3. /\ Sound /\ TxId \in Nat /\ Current \in Nat /\ p \in Pages
        /\ dirty[p] \in Image \cup {Blank}
    BY <2>1, <2>2, InvTypes, CurrentFacts, LeastFacts DEF TypeOK
  <2>4. PageImage(TxId, p, dirty[p], Current) \in LogRecord
        /\ PageImage(TxId, p, dirty[p], Current).kind # "commit"
    BY <2>3, RecordFacts DEF PageImage, Record
  <2> QED BY <2>1, <2>2, <2>3, <2>4, AppendQuiet, SameHistQuiet
<1>3. CASE WalSync
  BY <1>3, SameLogQuiet, OutcomeQuiet DEF WalSync, InTx, Committing, Outcomes
<1>4. CASE RollbackSync \/ DropTx
  BY <1>4, SameLogQuiet, OutcomeQuiet DEF RollbackSync, DropTx, EndTx, InTx, Outcomes
<1>5. CASE OpenStore \/ BootstrapStore \/ OpenDatabase \/ SyncStore
  BY <1>5, SameLogQuiet, SameHistQuiet
  DEF OpenStore, BootstrapStore, StartSession, OpenDatabase, SyncStore
<1>6. CASE Begin
  <2> DEFINE rec == BeginTx(nextTx, Len(hist) + 1)
             e == [id |-> nextTx, outcome |-> "active", pages |-> {}]
  <2>1. Sound /\ Append_(rec) /\ hist' = Append(hist, e)
    BY <1>6 DEF Begin, BeginAllowed, Sound, FailStop
  <2>2. nextTx \in Nat /\ hist \in Seq(HistEntry) /\ Len(hist) + 1 \in Nat
    BY InvTypes DEF TypeOK
  <2>3. rec \in LogRecord /\ rec.kind # "commit"
    BY <2>2, RecordFacts, EmptyFacts DEF BeginTx, Record
  <2>4. e \in HistEntry /\ e.outcome = "active"
    BY <2>2 DEF HistEntry, Outcomes
  <2> HIDE DEF rec, e
  <2>5. /\ DOMAIN hist' = DOMAIN hist \cup {Len(hist) + 1} /\ hist'[Len(hist) + 1] = e
        /\ \A i \in DOMAIN hist : hist'[i] = hist[i]
    BY <2>1, <2>2, <2>4
  <2>6. Acknowledged' = Acknowledged
    BY <2>2, <2>4, <2>5 DEF Acknowledged
  <2>7. Committed(wal) \subseteq DOMAIN hist
    BY DEF FailStopInv, FilesInv, Records, Committed
  <2>8. QuietHist
    BY <2>5, <2>6, <2>7 DEF QuietHist
  <2> QED BY <2>1, <2>3, <2>8, AppendQuiet
<1>7. CASE Commit
  <2>1. phase = "active" /\ phase \in InTx /\ wal' = wal /\ walDurable' = walDurable
        /\ hist' = [hist EXCEPT ![Current] =
                       [id |-> TxId, outcome |-> "active", pages |-> DirtyPages]]
    BY <1>7 DEF Commit, MayUseTx, InTx
  <2>2. Current \in DOMAIN hist /\ hist \in Seq(HistEntry)
    BY <2>1, InvTypes, CurrentFacts
  <2>3. /\ DOMAIN hist' = DOMAIN hist /\ hist'[Current].outcome = "active"
        /\ \A i \in DOMAIN hist : i # Current => hist'[i] = hist[i]
    BY <2>1, <2>2
  <2>4. Current \notin Committed(wal) /\ hist[Current].outcome # "acked"
    BY <2>1, <2>2 DEF FailStopInv, FilesInv, CurrentRecords, Kept, KeptIn
  <2>5. Committed(wal) \subseteq DOMAIN hist
    BY DEF FailStopInv, FilesInv, Records, Committed
  <2>6. Acknowledged' = Acknowledged
    BY <2>3, <2>4 DEF Acknowledged
  <2> QED BY <2>1, <2>3, <2>4, <2>5, <2>6, SameLogQuiet DEF QuietHist
<1>8. CASE Rollback
  <2>1. phase \in InTx /\ Append_(AbortTx(TxId, Current)) /\ hist' = hist
    BY <1>8 DEF Rollback, InTx
  <2>2. Sound /\ TxId \in Nat /\ Current \in Nat
    BY <2>1, CurrentFacts
  <2>3. AbortTx(TxId, Current) \in LogRecord /\ AbortTx(TxId, Current).kind # "commit"
    BY <2>2, RecordFacts, EmptyFacts DEF AbortTx, Record
  <2> QED BY <2>1, <2>2, <2>3, AppendQuiet, SameHistQuiet
<1>9. CASE Staging
  BY <1>9, StagingSame, SameLogQuiet, SameHistQuiet
<1>10. CASE BootstrapFails \/ RedoFails \/ SyncStoreFails \/ Writeback
  BY <1>10, SameLogQuiet, SameHistQuiet DEF BootstrapFails, RedoFails, SyncStoreFails, Writeback
<1>11. CASE BeginFails
  <2>1. Sound /\ AppendFails /\ hist' = hist
    BY <1>11 DEF BeginFails, BeginAllowed, Sound, FailStop
  <2> QED BY <2>1, AppendQuiet, SameHistQuiet
<1>12. CASE CommitFails
  <2>1. /\ phase \in InTx /\ (IF phase = "write" THEN "logged" ELSE "failed") \in Outcomes \ {"acked"}
        /\ AppendFails \/ UNCHANGED <<wal, walDurable>>
    BY <1>12 DEF CommitFails, InTx, Committing, Outcomes
  <2>2. hist' = WithOutcome(IF phase = "write" THEN "logged" ELSE "failed")
    BY <1>12 DEF CommitFails, EndTx
  <2> QED BY <2>1, <2>2, CurrentFacts, AppendQuiet, SameLogQuiet, OutcomeQuiet
<1>13. CASE RollbackFails
  <2>1. /\ phase \in InTx /\ hist' = WithOutcome("rolledback")
        /\ AppendFails \/ UNCHANGED <<wal, walDurable>>
    BY <1>13 DEF RollbackFails, EndTx, InTx
  <2> QED BY <2>1, CurrentFacts, AppendQuiet, SameLogQuiet, OutcomeQuiet DEF Outcomes
<1>14. CASE Exit
  BY <1>14, ForgetQuiet, SameLogQuiet DEF Exit
<1> QED BY <1>1, <1>2, <1>3, <1>4, <1>5, <1>6, <1>7, <1>8, <1>9, <1>10, <1>11, <1>12, <1>13, <1>14
        DEF Next, Step, Call, Failure

-----------------------------------------------------------------------------
(* The theorem. *)

LEMMA InitRefines == ASSUME FailStop, Init PROVE Atomic!AbsInit
<1>1. FailStopInv
  BY StoreInvInit, FilesInit DEF FailStopInv
<1>2. wal = << >> /\ hist = << >> /\ walDurable = 0
  BY DEF Init
<1>3. Len(wal) = 0 /\ MarkersUpTo(wal, 0) = 0
  BY <1>1, <1>2, InvTypes, MarkerCount
<1>4. CommitHistory = << >>
  <2>1. CommitHistory \in Seq(HistoryEntry) /\ Len(CommitHistory) = 0
    BY <1>1, <1>3, HistoryFacts
  <2> QED BY <2>1
<1>5. Acknowledged = {}
  BY <1>2 DEF Acknowledged
<1>6. [p \in Pages |-> Visible(p)] = Atomic!Contents(<< >>)
  BY <1>1, <1>4, InvShown DEF Shown
<1> QED BY <1>2, <1>3, <1>4, <1>5, <1>6 DEF Atomic!AbsInit

LEMMA StepRefines ==
    ASSUME FailStop, FailStopInv, FailStopInv', Pending, [Next]_vars
    PROVE  [Atomic!AbsNext]_(Atomic!absVars)
<1>1. CASE AppendCommit
  BY <1>1, CommitRefines
<1>2. CASE DataSync
  BY <1>2, AckRefines
<1>3. CASE PowerLoss
  BY <1>3, CrashRefines
<1>4. CASE Next /\ ~AppendCommit /\ ~DataSync /\ ~PowerLoss
  BY <1>4, QuietSteps, QuietRefines DEF Atomic!AbsNext
<1>5. CASE UNCHANGED vars
  <2>1. QuietLog /\ QuietHist
    BY <1>5, SameLogQuiet, SameHistQuiet DEF vars, logVars
  <2> QED BY <2>1, QuietRefines DEF Atomic!AbsNext
<1> QED BY <1>1, <1>2, <1>3, <1>4, <1>5

\* The store, its log and its recovery pass implement transactions that take effect one
\* after another and all at once, of which a power loss takes the latest at most and
\* never one whose Transaction::commit has returned Ok.
THEOREM StoreImplementsAtomicStore == ASSUME FailStop PROVE Spec => ImplementsAtomicStore
<1>1. Init => Atomic!AbsInit
  BY InitRefines
<1>2. Init => Pending
  BY DEF Init, Pending
<1>3. FailStopInv /\ Pending /\ [Next]_vars => Pending'
  BY PendingStep
<1>4. FailStopInv /\ FailStopInv' /\ Pending /\ [Next]_vars => [Atomic!AbsNext]_(Atomic!absVars)
  BY StepRefines
<1> QED BY <1>1, <1>2, <1>3, <1>4, FailStopInvHolds, PTL
        DEF Spec, ImplementsAtomicStore, Atomic!AbsSpec
=============================================================================
