---------------------------- MODULE SlottedPage ----------------------------
(***************************************************************************)
(* One slotted page (crates/rdbms_page): a header, a slot directory that   *)
(* grows upwards and record bytes packed downwards from the end.           *)
(*                                                                         *)
(* The bytes of the page are modelled one by one where records live, so    *)
(* that two records, or a record and the directory, that are given the     *)
(* same bytes damage each other as they would in the program.  A byte that *)
(* belongs to a slot entry is Dir; what the entry says is in "slots".      *)
(***************************************************************************)
EXTENDS Integers, FiniteSets, SequencesExt

CONSTANTS
    PageSize,     \* PAGE_SIZE
    HeaderSize,   \* HEADER_SIZE
    ByteBase,     \* the number of values of a byte: 256
    Bytes,        \* the values of a record byte that are tried
    MaxLen,       \* bound: the longest record offered to the page
    Dir,          \* marks a byte of the slot directory
    None          \* what read_record returns for a slot that is not live

ASSUME PageAssumption ==
    /\ {PageSize, HeaderSize, ByteBase, MaxLen} \subseteq Nat
    /\ HeaderSize <= PageSize /\ 2 < ByteBase /\ PageSize < ByteBase * ByteBase
    /\ Bytes \subseteq 0..(ByteBase - 1) /\ Dir \notin Nat /\ None \notin SeqOf(Bytes, MaxLen)

Cells == 0..(PageSize - 1)
Records == SeqOf(Bytes, MaxLen)

VARIABLES
    cells,      \* the page's bytes
    slots,      \* its slot entries; slot id i is slots[i + 1]
    freeStart,  \* OFF_FREE_START
    freeEnd,    \* OFF_FREE_END
    sum,        \* OFF_CHECKSUM
    stored      \* history: the record each slot id stands for, None if deleted

vars == <<cells, slots, freeStart, freeEnd, sum, stored>>

Slot == [offset : 0..PageSize, len : 0..PageSize, flags : {"live", "dead"}]

\* Every field has a value of its kind.
TypeOK ==
    /\ cells \in [Cells -> Bytes \cup {0, Dir}]
    /\ slots \in Seq(Slot)
    /\ freeStart \in 0..PageSize /\ freeEnd \in 0..PageSize
    /\ sum \in Nat
    /\ stored \in Seq(Records \cup {None})

-----------------------------------------------------------------------------
\* The sum of the first n of a sequence of numbers.
SumTo(ns, n) ==
    LET total[k \in 0..Len(ns)] == IF k = 0 THEN 0 ELSE total[k - 1] + ns[k]
    IN  total[n]

\* SLOT_SIZE, and the bytes of a slot entry: three u16 fields of two bytes each.
SlotSize == 6
EntryBytes(entry) ==
    <<entry.offset % ByteBase, entry.offset \div ByteBase,
      entry.len % ByteBase, entry.len \div ByteBase,
      IF entry.flags = "live" THEN 1 ELSE 2, 0>>

\* The slot, and the byte of its entry, that have their place at an offset of the page.
SlotAt(c) == ((c - HeaderSize) \div SlotSize) + 1
PlaceAt(c) == ((c - HeaderSize) % SlotSize) + 1

\* The bytes behind the header, as they lie in the page: slot entries, then the rest.
PageBytes(cs, ss) ==
    [k \in 1..PageSize |->
        IF SlotAt(k - 1) \in 1..Len(ss) THEN EntryBytes(ss[SlotAt(k - 1)])[PlaceAt(k - 1)]
        ELSE IF cs[k - 1] = Dir THEN 0 ELSE cs[k - 1]]

\* What the header adds to the checksum, but for the fields that no change of the page
\* touches (and the checksum, which is taken to be 0).
FieldSum(n) == (n % ByteBase) + (n \div ByteBase)
HeaderSum(start, end, count) == FieldSum(start) + FieldSum(end) + FieldSum(count)

\* Mutant: the checksum is taken over the header and the slot directory only.
ChecksumWithoutRecords(cs, ss, start, end) ==
    SumTo(PageBytes(cs, ss), start) + HeaderSum(start, end, Len(ss))

\* checksum: the sum of all bytes (4096 bytes cannot make a u32 wrap around).
Checksum(cs, ss, start, end) ==
    SumTo(PageBytes(cs, ss), PageSize) + HeaderSum(start, end, Len(ss))

\* Page::new.
Init ==
    /\ cells = [i \in Cells |-> 0]
    /\ slots = << >>
    /\ freeStart = HeaderSize /\ freeEnd = PageSize
    /\ sum = Checksum(cells, slots, freeStart, freeEnd)
    /\ stored = << >>

SlotCells(i) == (HeaderSize + (i - 1) * SlotSize)..(HeaderSize + i * SlotSize - 1)

\* write_slot_entry as it changes the bytes of the page.
WithSlotWritten(cs, i) == [c \in Cells |-> IF c \in SlotCells(i) THEN Dir ELSE cs[c]]

\* copy_from_slice of a record to an offset.
WithRecordAt(cs, offset, record) ==
    [c \in Cells |-> IF c \in offset..(offset + Len(record) - 1)
                     THEN record[c - offset + 1] ELSE cs[c]]

\* refresh_checksum, the last thing every change of a page does.
RefreshChecksum == sum' = Checksum(cells', slots', freeStart', freeEnd')

Live(i) == slots[i].flags = "live"
DeadSlots == {i \in DOMAIN slots : slots[i].flags = "dead"}

\* find_dead_slot.
FirstDead == CHOOSE i \in DeadSlots : \A j \in DeadSlots : i <= j

\* Mutant: the number of dead slots is taken for the place of one.
SlotForInsertByCount == IF DeadSlots = {} THEN Len(slots) + 1 ELSE Cardinality(DeadSlots)

\* The first dead slot, or else a new one at the end.
SlotForInsert == IF DeadSlots = {} THEN Len(slots) + 1 ELSE FirstDead

\* Mutant: the slot entry is not counted.
NeededRecordOnly(record) == Len(record)

\* The bytes an insert needs: a new slot entry only if no dead slot is reused.
Needed(record) == Len(record) + (IF DeadSlots = {} THEN SlotSize ELSE 0)

\* Mutant: the free area is not made smaller by the record.
InsertRecordKeepingFreeEnd(record) ==
    /\ Needed(record) <= freeEnd - freeStart
    /\ LET i == SlotForInsert
           offset == freeEnd - Len(record)
           entry == [offset |-> offset, len |-> Len(record), flags |-> "live"]
       IN  /\ cells' = WithSlotWritten(WithRecordAt(cells, offset, record), i)
           /\ slots' = IF i > Len(slots) THEN Append(slots, entry)
                       ELSE [slots EXCEPT ![i] = entry]
           /\ freeStart' = HeaderSize + Len(slots') * SlotSize
           /\ stored' = IF i > Len(slots) THEN Append(stored, record)
                        ELSE [stored EXCEPT ![i] = record]
    /\ UNCHANGED freeEnd
    /\ RefreshChecksum

\* insert_record, if there is room.
InsertRecord(record) ==
    /\ Needed(record) <= freeEnd - freeStart
    /\ LET i == SlotForInsert
           offset == freeEnd - Len(record)
           entry == [offset |-> offset, len |-> Len(record), flags |-> "live"]
       IN  /\ cells' = WithSlotWritten(WithRecordAt(cells, offset, record), i)
           /\ freeEnd' = offset
           /\ slots' = IF i > Len(slots) THEN Append(slots, entry)
                       ELSE [slots EXCEPT ![i] = entry]
           /\ freeStart' = HeaderSize + Len(slots') * SlotSize
           /\ stored' = IF i > Len(slots) THEN Append(stored, record)
                        ELSE [stored EXCEPT ![i] = record]
    /\ RefreshChecksum

\* insert_record, if there is not: an error, and the page is as it was.
InsertRefused(record) ==
    /\ Needed(record) > freeEnd - freeStart
    /\ UNCHANGED vars

\* read_record.
ReadRecord(i) ==
    IF Live(i) THEN [k \in 1..slots[i].len |-> cells[slots[i].offset + k - 1]] ELSE None

\* delete_record; on a slot that is not live it returns false and changes nothing.
DeleteRecord(i) ==
    /\ Live(i)
    /\ slots' = [slots EXCEPT ![i] = [slots[i] EXCEPT !.flags = "dead"]]
    /\ cells' = WithSlotWritten(cells, i)
    /\ stored' = [stored EXCEPT ![i] = None]
    /\ UNCHANGED <<freeStart, freeEnd>>
    /\ RefreshChecksum

\* Mutant: the bytes of deleted records are counted too.
BytesUpTo(i) == SumTo([k \in DOMAIN slots |-> slots[k].len], i)

\* The lengths of the live records, and where compact puts the record of slot i: below
\* those of the live slots before it.
LiveLens(ss) == [k \in DOMAIN ss |-> IF ss[k].flags = "live" THEN ss[k].len ELSE 0]
LiveBytesUpTo(i) == SumTo(LiveLens(slots), i)
CompactOffset(i) == PageSize - LiveBytesUpTo(i)

\* The bytes after compact: the area behind the directory is zeroed and the records,
\* copied out before that, are written back in slot order from the end of the page.
Packed ==
    [c \in Cells |->
        LET here == {i \in DOMAIN slots : Live(i) /\
                       c \in CompactOffset(i)..(CompactOffset(i) + slots[i].len - 1)}
        IN  IF here # {}
            THEN LET i == CHOOSE j \in here : TRUE
                 IN  ReadRecord(i)[c - CompactOffset(i) + 1]
            ELSE IF c < HeaderSize + Len(slots) * SlotSize THEN cells[c] ELSE 0]

\* Mutant: the slot entries keep their old offsets.
CompactStaleOffsets ==
    /\ cells' = Packed
    /\ freeEnd' = CompactOffset(Len(slots))
    /\ UNCHANGED <<slots, freeStart, stored>>
    /\ RefreshChecksum

\* compact.
Compact ==
    /\ slots' = [i \in DOMAIN slots |->
                    IF Live(i) THEN [slots[i] EXCEPT !.offset = CompactOffset(i)] ELSE slots[i]]
    /\ cells' = Packed
    /\ freeEnd' = CompactOffset(Len(slots))
    /\ UNCHANGED <<freeStart, stored>>
    /\ RefreshChecksum

Next ==
    \/ \E record \in Records : InsertRecord(record) \/ InsertRefused(record)
    \/ \E i \in DOMAIN slots : DeleteRecord(i)
    \/ Compact

Spec == Init /\ [][Next]_vars

-----------------------------------------------------------------------------
(***************************************************************************)
(* Properties.                                                             *)
(***************************************************************************)

\* What header and validate check when the page is read back from the file.
Validates ==
    /\ freeStart = HeaderSize + Len(slots) * SlotSize
    /\ freeStart <= freeEnd /\ freeEnd <= PageSize
    /\ sum = Checksum(cells, slots, freeStart, freeEnd)
    /\ \A i \in DOMAIN slots : Live(i) =>
        freeEnd <= slots[i].offset /\ slots[i].offset + slots[i].len <= PageSize

\* read_record returns the bytes that were inserted under a slot id, after any number
\* of reuses and compactions, and nothing for a deleted one; the directory's own
\* bytes are never those of a record.
ReadsBack ==
    /\ \A i \in DOMAIN slots : ReadRecord(i) = stored[i]
    /\ \A i \in DOMAIN slots : \A c \in SlotCells(i) : cells[c] = Dir

Extent(i) == slots[i].offset..(slots[i].offset + slots[i].len - 1)

\* No byte belongs to two live records, or to a live record and to the free area in
\* which the next insert will write; validate does not look at this.
RecordsDisjoint ==
    \A i, j \in DOMAIN slots : Live(i) /\ Live(j) =>
        /\ i # j => Extent(i) \cap Extent(j) = {}
        /\ Extent(i) \cap 0..(freeEnd - 1) = {}

\* A page that any sequence of inserts, deletes and compactions has made is accepted
\* by from_bytes (validate never refuses what the page code itself wrote), and no two
\* records of it share a byte.
WellFormed == Validates /\ RecordsDisjoint

\* A slot id that was handed out stands for its record until that record is deleted:
\* neither an insert that reuses a slot nor a compaction takes a live one. Heap rows
\* and index entries hold such ids as row addresses.
SlotIdsStable ==
    [][ \A i \in DOMAIN stored : stored[i] # None => stored'[i] \in {stored[i], None} ]_vars

\* Compaction gives back every byte that no live record and no slot entry uses, and
\* no other step makes the free area larger.
CompactReclaims ==
    [][ Compact \/ freeEnd' - freeStart' > freeEnd - freeStart =>
            freeEnd' - freeStart' = PageSize - HeaderSize - Len(slots') * SlotSize
                                      - SumTo(LiveLens(slots'), Len(slots')) ]_vars

\* Is the page with these bytes behind a header accepted by validate_page_checksum?
Accepted(bytes, start, end, count, checksum) ==
    SumTo(bytes, PageSize) + HeaderSum(start, end, count) = checksum

\* The page of which these bytes have reached the file: new where kept, old elsewhere.
TornPage(old, new, kept) == [k \in 1..PageSize |-> IF k \in kept THEN new[k] ELSE old[k]]

\* Whichever of the changed bytes reached the file, behind the old header or behind the
\* new one, the page that validate_page_checksum accepts is the old page or the new one.
TearsDetected(old, new) ==
    \A kept \in SUBSET {k \in 1..PageSize : old[k] # new[k]} :
       /\ Accepted(TornPage(old, new, kept), freeStart, freeEnd, Len(slots), sum) =>
            TornPage(old, new, kept) = old
       /\ Accepted(TornPage(old, new, kept), freeStart', freeEnd', Len(slots'), sum') =>
            TornPage(old, new, kept) = new

\* The sum of bytes is a weak checksum, and yet it finds out every torn write of a page
\* that an insert into a new slot has changed: whichever of the changed bytes of the
\* record and of the slot entry reached the file, behind the old header or behind the new
\* one (the header, with the checksum, lies within one disk sector), a page that
\* validate_page_checksum accepts is the one before the insert or the one after it.  An
\* insert that reuses a dead slot also makes bytes smaller, and is not covered.
TornInsertsDetected ==
    [][ Len(slots') > Len(slots) =>
          TearsDetected(PageBytes(cells, slots), PageBytes(cells', slots')) ]_vars
====
