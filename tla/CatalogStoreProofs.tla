------------------------- MODULE CatalogStoreProofs -------------------------
(***************************************************************************)
(* What CatalogStore keeps of its tables and rows without a log, for every *)
(* number of blocks to a page, of pages, rows, sessions and failing system *)
(* calls.                                                                  *)
(***************************************************************************)
EXTENDS CatalogStore, TLAPS

-----------------------------------------------------------------------------
(* The values. *)

TableEntries == [name : Names, pages : Seq(1..MaxPage)]

\* A catalog in which no name and no page is given twice.
GoodCatalogs ==
    {c \in [nextPage : 1..(MaxPage + 1), tables : Seq(TableEntries)] :
        /\ \A i, j \in DOMAIN c.tables : i # j =>
              /\ c.tables[i].name # c.tables[j].name
              /\ Range(c.tables[i].pages) \cap Range(c.tables[j].pages) = {}
        /\ \A i \in DOMAIN c.tables :
              /\ c.tables[i].pages # << >>
              /\ \A p \in Range(c.tables[i].pages) : p < c.nextPage}

CatalogImages == [id : {0}, type : {"catalog"}, catalog : GoodCatalogs, rows : {<< >>}]
HeapImages == [id : 1..MaxPage, type : {"heap"}, catalog : {EmptyCatalog}, rows : Seq(1..MaxRows)]
Images == CatalogImages \cup HeapImages

FileBlocks == {Zero} \cup [image : Images, part : 1..BlocksPerPage]

Ios == [op : {"none", "read", "write", "failed"}, page : 0..MaxPage, image : Images \cup {Damaged},
        done : 0..BlocksPerPage, got : Seq(FileBlocks)]

CallRecords == [table : Names \cup {""}, row : 0..MaxRows, large : BOOLEAN, page : 0..MaxPage, tried : Nat]

-----------------------------------------------------------------------------
(* The inductive invariant. *)

Types ==
    /\ TypeOK
    /\ file \in Seq(FileBlocks) /\ io \in Ios /\ catalog \in GoodCatalogs /\ call \in CallRecords

\* How far the read or the write in progress has come.
Transfer ==
    /\ io.op = "write" =>
          /\ io.image \in Images /\ io.page = io.image.id
          /\ \A k \in 1..io.done : /\ PageOffset(io.page) + k <= Len(file)
                                   /\ file[PageOffset(io.page) + k] = Block(io.image, k)
    /\ io.op = "read" =>
          /\ Len(io.got) = io.done
          /\ \A k \in 1..io.done : /\ PageOffset(io.page) + k <= Len(file)
                                   /\ file[PageOffset(io.page) + k] = io.got[k]

PagesOf(c, name) == TableOf(c, name).pages

\* What each place in the program knows of its call and of its read or write.
NoTransfer == pc \in {"closed", "idle"} => io = NoIo
NoLocals == pc \in {"closed", "idle", "tablePage"} \cup Opening => call = NoCall
Empty == pc \in {"closed"} \cup Opening => catalog = EmptyCatalog /\ ~erred
AtOpen ==
    /\ pc = "bootstrap" =>
          io.op \in {"write", "failed"} /\ io.image = CatalogPage(EmptyCatalog) /\ acked = {}
    /\ pc = "load" => io.op \in {"read", "failed"} /\ io.page = 0
NewTable ==
    pc = "tablePage" =>
        io.op \in {"write", "failed"} /\ io.page # 0 /\ io.image = HeapPage(io.page, << >>)
Inserting ==
    pc \in {"tryPage", "rowPage", "newPage"} => call.row # 0 /\ call.table \in TableNames(catalog)
Trying ==
    pc = "tryPage" =>
        /\ io.op \in {"read", "failed"}
        /\ call.tried \in 1..Len(PagesOf(catalog, call.table))
        /\ io.page = PagesOf(catalog, call.table)[call.tried]
Adding ==
    pc = "rowPage" =>
        /\ io.op \in {"write", "failed"}
        /\ io.page = call.page /\ call.page \in Range(PagesOf(catalog, call.table))
        /\ io.image = HeapPage(call.page, io.image.rows) /\ call.row \in Range(io.image.rows)
Growing ==
    pc = "newPage" =>
        /\ io.op \in {"write", "failed"}
        /\ io.page = call.page /\ call.page = catalog.nextPage - 1 /\ call.page # 0
        /\ io.image = HeapPage(call.page, <<call.row>>)
        /\ \A t \in Range(catalog.tables) : call.page \notin Range(t.pages)
Saving ==
    pc = "save" =>
        /\ io.op \in {"write", "failed"} /\ io.image = CatalogPage(catalog)
        /\ erred => mixed
        /\ call.row # 0 =>
              call.table \in TableNames(catalog) /\ call.page \in Range(PagesOf(catalog, call.table))

Places ==
    /\ NoTransfer /\ NoLocals /\ Empty /\ AtOpen /\ NewTable
    /\ Inserting /\ Trying /\ Adding /\ Growing /\ Saving

\* The pages whose last write was, or may still be, cut short.
InDoubt == cut \cup HalfWritten

\* The heap page p is on file, or in doubt.
Ready(p) == p \in InDoubt \/ (OnFile(p) # Damaged /\ OnFile(p).type = "heap")

\* Page 0 is on file, or in doubt.
CatalogOnFile ==
    /\ file = << >> => pc \in {"closed", "bootstrap"} /\ acked = {}
    /\ file # << >> => OnFile(0) # Damaged \/ 0 \in InDoubt

Listed(c) == UNION {Range(t.pages) : t \in Range(c.tables)}

\* What a catalog lists is on file, if no handle went on after an error.
ListedReady ==
    /\ ~mixed /\ OnFile(0) # Damaged => \A p \in Listed(OnFile(0).catalog) : Ready(p)
    /\ ~mixed /\ ~erred => \A p \in Listed(catalog) : Ready(p) \/ (pc = "tablePage" /\ p = io.page)

\* The address of a row that insert_row has acknowledged is listed.
Lists(c, a) == a.table \in TableNames(c) /\ a.page \in Range(PagesOf(c, a.table))
Clean == {a \in acked : a.clean}
AckedListed ==
    \A a \in Clean :
        /\ OnFile(0) # Damaged => Lists(OnFile(0).catalog, a)
        /\ pc \notin {"closed"} \cup Opening => Lists(catalog, a)

\* Between two changes of the catalog, a handle without errors has the one on file.
CatalogCurrent ==
    ~erred /\ pc \in {"idle", "tryPage", "rowPage"} =>
        OnFile(0) # Damaged /\ OnFile(0).catalog = catalog

\* The row is on the page, and in what is being written to it.
RowOn(p, row) == Ready(p) /\ (OnFile(p) # Damaged => row \in Range(OnFile(p).rows))
AckedKept ==
    \A a \in Clean :
        /\ RowOn(a.page, a.row)
        /\ io.op = "write" /\ io.page = a.page => a.row \in Range(io.image.rows)
SavedRow == pc = "save" /\ call.row # 0 => RowOn(call.page, call.row)

Disk ==
    /\ CatalogOnFile /\ ListedReady /\ AckedListed /\ CatalogCurrent /\ AckedKept /\ SavedRow

CatalogInv == Types /\ Transfer /\ Places /\ Disk

-----------------------------------------------------------------------------
(* Facts about the values. *)

LEMMA Constants ==
    /\ BlocksPerPage \in Nat /\ BlocksPerPage >= 1 /\ MaxFaults \in Nat
    /\ PageCapacity \in Nat /\ MaxPage \in Nat /\ MaxRows \in Nat /\ MaxSessions \in Nat
  BY PageFileAssumption, StoreAssumption

LEMMA ImageFacts ==
    ASSUME NEW m \in Images
    PROVE  /\ m # Damaged /\ m.id \in 0..MaxPage
           /\ m.id = 0 => m.type = "catalog" /\ m.catalog \in GoodCatalogs /\ m = CatalogPage(m.catalog)
           /\ m.id # 0 => m.type = "heap" /\ m.rows \in Seq(1..MaxRows) /\ m = HeapPage(m.id, m.rows)
<1>1. CASE m \in CatalogImages
  <2>1. m.id = 0 /\ m.type = "catalog" /\ m.catalog \in GoodCatalogs /\ m.rows = << >>
    BY <1>1 DEF CatalogImages
  <2>2. m = CatalogPage(m.catalog)
    BY <1>1, <2>1 DEF CatalogImages, CatalogPage
  <2>3. m # Damaged
    <3>1. Damaged.type = "damaged"
      BY DEF Damaged
    <3> QED BY <2>1, <3>1
  <2> QED BY <2>1, <2>2, <2>3, Constants
<1>2. CASE m \in HeapImages
  <2>1. m.id \in 1..MaxPage /\ m.type = "heap" /\ m.catalog = EmptyCatalog /\ m.rows \in Seq(1..MaxRows)
    BY <1>2 DEF HeapImages
  <2>2. m = HeapPage(m.id, m.rows)
    BY <1>2, <2>1 DEF HeapImages, HeapPage
  <2>3. m # Damaged
    <3>1. Damaged.type = "damaged"
      BY DEF Damaged
    <3> QED BY <2>1, <3>1
  <2> QED BY <2>1, <2>2, <2>3, Constants
<1> QED BY <1>1, <1>2 DEF Images

LEMMA CatalogPageFacts ==
    ASSUME NEW c \in GoodCatalogs
    PROVE  /\ CatalogPage(c) \in Images /\ CatalogPage(c).id = 0 /\ CatalogPage(c).catalog = c
  BY DEF CatalogPage, Images, CatalogImages

LEMMA HeapPageFacts ==
    ASSUME NEW p \in 1..MaxPage, NEW rows \in Seq(1..MaxRows)
    PROVE  /\ HeapPage(p, rows) \in Images /\ HeapPage(p, rows).id = p /\ HeapPage(p, rows).id # 0
           /\ HeapPage(p, rows).rows = rows /\ HeapPage(p, rows).type = "heap"
  BY Constants DEF HeapPage, Images, HeapImages

\* Pages lie one behind the other.
LEMMA Offsets ==
    ASSUME NEW p \in Nat
    PROVE  /\ PageOffset(p) \in Nat
           /\ \A q \in Nat : p < q => PageOffset(p) + BlocksPerPage <= PageOffset(q)
<1> DEFINE B == BlocksPerPage
<1>1. B \in Nat
  BY Constants
<1> HIDE DEF B
<1>2. p * B \in Nat
  BY <1>1
<1>3. ASSUME NEW q \in Nat, p < q PROVE p * B + B <= q * B
  <2>1. PICK m \in Nat : q = p + 1 + m
    <3>1. q - p - 1 \in Nat /\ q = p + 1 + (q - p - 1)
      BY <1>3
    <3> QED BY <3>1
  <2>2. q * B = p * B + B + m * B /\ m * B \in Nat
    BY <1>1, <2>1
  <2> QED BY <1>1, <1>2, <2>2
<1> QED BY <1>2, <1>3 DEF PageOffset, B

-----------------------------------------------------------------------------
(* Reading pages of a file. *)

Holds(f, p, m) ==
    /\ PageOffset(p) + BlocksPerPage <= Len(f)
    /\ \A k \in 1..BlocksPerPage : f[PageOffset(p) + k] = Block(m, k)

LEMMA BlockFacts ==
    /\ \A m, n, k, l : Block(m, k) = Block(n, l) => m = n /\ k = l
    /\ \A m \in Images : \A k \in 1..BlocksPerPage : Block(m, k) \in FileBlocks /\ Block(m, k) # Zero
    /\ \A b \in FileBlocks : b.part \in 1..BlocksPerPage => b.image \in Images
    /\ \A m, k : Block(m, k).image = m /\ Block(m, k).part = k
    /\ Zero \in FileBlocks
<1>1. \A m, k : Block(m, k).image = m /\ Block(m, k).part = k
  BY DEF Block
<1>2. ASSUME NEW m, NEW n, NEW k, NEW l, Block(m, k) = Block(n, l) PROVE m = n /\ k = l
  <2>1. /\ m = Block(m, k).image /\ n = Block(n, l).image
        /\ k = Block(m, k).part /\ l = Block(n, l).part
    BY <1>1
  <2> QED BY <1>2, <2>1
<1>3. Zero.part = 0
  BY <1>1 DEF Zero
<1>4. ASSUME NEW m \in Images, NEW k \in 1..BlocksPerPage
      PROVE  Block(m, k) \in FileBlocks /\ Block(m, k) # Zero
  <2>1. Block(m, k) \in [image : Images, part : 1..BlocksPerPage]
    BY DEF Block
  <2>2. Block(m, k).part # Zero.part
    BY <1>1, <1>3
  <2> QED BY <2>1, <2>2 DEF FileBlocks
<1>5. ASSUME NEW b \in FileBlocks, b.part \in 1..BlocksPerPage PROVE b.image \in Images
  <2>1. b # Zero
    BY <1>3, <1>5
  <2> QED BY <2>1 DEF FileBlocks
<1> QED BY <1>1, <1>2, <1>4, <1>5 DEF FileBlocks

\* read_page of a complete page gives the image that was written, and what it gives was
\* written as one page.
LEMMA PageInFacts ==
    ASSUME NEW f \in Seq(FileBlocks), NEW p \in Nat
    PROVE  /\ \A m \in Images : Holds(f, p, m) /\ m.id = p => PageIn(f, p) = m
           /\ PageIn(f, p) # Damaged =>
                 PageIn(f, p) \in Images /\ PageIn(f, p).id = p /\ Holds(f, p, PageIn(f, p))
<1> DEFINE B == BlocksPerPage
           o == PageOffset(p)
           s == SubSeq(f, o + 1, o + B)
<1>1. B \in Nat /\ B >= 1 /\ o \in Nat /\ Len(f) \in Nat
  <2>1. Len(f) \in Nat
    OBVIOUS
  <2> QED BY <2>1, Constants, Offsets
<1>2. ASSUME ~(Len(f) < o + B)
      PROVE  /\ s \in Seq(FileBlocks) /\ Len(s) = B /\ \A k \in 1..B : s[k] = f[o + k]
             /\ o + B <= Len(f)
  <2> HIDE DEF o, B
  <2> QED BY <1>1, <1>2
<1>3. PageIn(f, p) = IF Len(f) < o + B THEN Damaged
                     ELSE IF FromBlocks(s) = Damaged \/ FromBlocks(s).id # p THEN Damaged
                     ELSE FromBlocks(s)
  BY DEF PageIn
<1>4. FromBlocks(s) = IF s = Blocks(s[1].image) THEN s[1].image ELSE Damaged
  BY DEF FromBlocks
<1> HIDE DEF s, o, B
<1>5. ASSUME NEW m \in Images, Holds(f, p, m), m.id = p PROVE PageIn(f, p) = m
  <2>1. ~(Len(f) < o + B) /\ \A k \in 1..B : f[o + k] = Block(m, k)
    BY <1>1, <1>5 DEF Holds, o, B
  <2>2. \A k \in 1..B : s[k] = Block(m, k)
    BY <1>2, <2>1
  <2>3. s = [k \in 1..B |-> s[k]]
    BY <1>2, <2>1
  <2>4. s = Blocks(m)
    BY <2>2, <2>3 DEF Blocks, B
  <2>5. s[1].image = m
    BY <1>1, <2>2, BlockFacts
  <2>6. m # Damaged
    BY ImageFacts
  <2> QED BY <1>3, <1>4, <1>5, <2>1, <2>4, <2>5, <2>6
<1>6. ASSUME PageIn(f, p) # Damaged
      PROVE  PageIn(f, p) \in Images /\ PageIn(f, p).id = p /\ Holds(f, p, PageIn(f, p))
  <2> DEFINE m == s[1].image
  <2>1. ~(Len(f) < o + B) /\ PageIn(f, p) = m /\ m.id = p /\ s = Blocks(m)
    BY <1>3, <1>4, <1>6
  <2> HIDE DEF m
  <2>2. \A k \in 1..B : s[k] = Block(m, k)
    BY <2>1 DEF Blocks, B
  <2>3. m \in Images
    <3>1. s[1] \in FileBlocks /\ s[1].part \in 1..B
      BY <1>1, <1>2, <2>1, <2>2, BlockFacts
    <3> QED BY <3>1, BlockFacts DEF m, B
  <2>4. Holds(f, p, m)
    BY <1>2, <2>1, <2>2 DEF Holds, o, B
  <2> QED BY <2>1, <2>3, <2>4
<1> QED BY <1>5, <1>6

-----------------------------------------------------------------------------
(* One turn of the write loop. *)

\* What it leaves of the file, block by block.
LEMMA PutFacts ==
    ASSUME file \in Seq(FileBlocks), NEW x \in Nat, NEW bs \in Seq(FileBlocks)
    PROVE  /\ Put(x, bs) \in Seq(FileBlocks)
           /\ Len(Put(x, bs)) = IF x + Len(bs) > Len(file) THEN x + Len(bs) ELSE Len(file)
           /\ \A i \in 1..Len(Put(x, bs)) :
                 Put(x, bs)[i] = IF i \in (x + 1)..(x + Len(bs)) THEN bs[i - x]
                                 ELSE IF i <= Len(file) THEN file[i] ELSE Zero
<1> DEFINE n == Len(bs)
           N == IF x + n > Len(file) THEN x + n ELSE Len(file)
           f == Put(x, bs)
<1>1. n \in Nat /\ Len(file) \in Nat
  OBVIOUS
<1>2. N \in Nat /\ N >= Len(file)
  <2> HIDE DEF n
  <2> QED BY <1>1
<1>3. f = [i \in 1..N |-> IF i \in (x + 1)..(x + n) THEN bs[i - x]
                         ELSE IF i <= Len(file) THEN file[i] ELSE Zero]
  BY DEF Put
<1> HIDE DEF f, N
<1>4. ASSUME NEW i \in 1..N PROVE f[i] \in FileBlocks
  <2>1. CASE i \in (x + 1)..(x + n)
    <3>1. i - x \in 1..n
      <4> HIDE DEF n
      <4> QED BY <1>1, <2>1
    <3>2. bs[i - x] \in FileBlocks
      BY <3>1
    <3> QED BY <1>3, <2>1, <3>2
  <2>2. CASE i \notin (x + 1)..(x + n)
    <3>1. f[i] = IF i <= Len(file) THEN file[i] ELSE Zero
      BY <1>3, <2>2
    <3>2. i <= Len(file) => file[i] \in FileBlocks
      BY <1>1, <1>2
    <3> QED BY <3>1, <3>2, BlockFacts
  <2> QED BY <2>1, <2>2
<1>5. f \in [1..N -> FileBlocks]
  <2>1. f = [i \in 1..N |-> f[i]]
    BY <1>3
  <2> QED BY <1>4, <2>1
<1>6. f \in Seq(FileBlocks) /\ Len(f) = N
  BY <1>2, <1>5
<1> QED BY <1>3, <1>6 DEF f, N

LEMMA WriteFacts ==
    ASSUME Types, Transfer, WriteSome
    PROVE  LET p == io.page
           IN  /\ p \in 0..MaxPage /\ io.op = "write" /\ io.image \in Images /\ io.image.id = p
               /\ io' = [io EXCEPT !.done = io'.done]
               /\ io'.done \in 1..BlocksPerPage
               /\ cut' = (IF io'.done = BlocksPerPage THEN cut \ {p} ELSE cut) /\ faults' = faults
               /\ file' \in Seq(FileBlocks) /\ Len(file') > 0
               /\ \A k \in 1..io'.done : /\ PageOffset(p) + k <= Len(file')
                                         /\ file'[PageOffset(p) + k] = Block(io.image, k)
               /\ \A q \in Nat : q # p => PageIn(file', q) = PageIn(file, q)
               /\ PageIn(file', p) \in {Damaged, io.image}
               /\ io'.done = BlocksPerPage => PageIn(file', p) = io.image
<1> DEFINE p == io.page
           m == io.image
           B == BlocksPerPage
           d == io.done
           o == PageOffset(p)
<1>1. /\ file \in Seq(FileBlocks) /\ p \in 0..MaxPage /\ p \in Nat /\ d \in 0..B /\ d \in Nat
      /\ io \in Ios
  BY Constants DEF Types, Ios
<1>2. /\ io.op = "write" /\ d < B /\ m \in Images /\ m.id = p
      /\ \A k \in 1..d : o + k <= Len(file) /\ file[o + k] = Block(m, k)
  BY DEF WriteSome, Transfer
<1>3. PICK n \in 1..(B - d) :
        /\ file' = Put(o + d, SubSeq(Blocks(m), d + 1, d + n))
        /\ io' = [io EXCEPT !.done = d + n]
        /\ cut' = IF io'.done = B THEN cut \ {p} ELSE cut
  BY DEF WriteSome
<1>4. io'.done = d + n /\ io' = [io EXCEPT !.done = io'.done] /\ faults' = faults
  <2>1. faults' = faults
    BY DEF WriteSome
  <2>2. [io EXCEPT !.done = d + n].done = d + n
    BY <1>1 DEF Ios
  <2> HIDE DEF d
  <2> QED BY <1>3, <2>1, <2>2
<1>5. B \in Nat /\ B >= 1 /\ o \in Nat /\ Len(file) \in Nat
  <2>1. Len(file) \in Nat
    BY <1>1
  <2> QED BY <1>1, <2>1, Constants, Offsets
<1>6. /\ file' \in Seq(FileBlocks) /\ Len(file') >= Len(file) /\ Len(file') >= o + d + n
      /\ Len(file') = Len(file) \/ Len(file') = o + d + n
      /\ \A i \in 1..Len(file') :
            file'[i] = IF i \in (o + d + 1)..(o + d + n) THEN Block(m, i - o)
                       ELSE IF i <= Len(file) THEN file[i] ELSE Zero
  <2> DEFINE bs == SubSeq(Blocks(m), d + 1, d + n)
  <2>1. Blocks(m) \in [1..B -> FileBlocks] /\ \A k \in 1..B : Blocks(m)[k] = Block(m, k)
    BY <1>2, BlockFacts DEF Blocks
  <2>2. file' = Put(o + d, bs)
    BY <1>3
  <2> HIDE DEF m, d, o, B
  <2>3. n \in Nat /\ n >= 1 /\ d + n <= B /\ o + d \in Nat
    BY <1>1, <1>3, <1>5
  <2>4. Blocks(m) \in Seq(FileBlocks) /\ Len(Blocks(m)) = B
    BY <1>5, <2>1
  <2>5. bs \in Seq(FileBlocks) /\ Len(bs) = n /\ \A j \in 1..n : bs[j] = Blocks(m)[d + j]
    BY <1>1, <2>3, <2>4
  <2> HIDE DEF bs
  <2>6. /\ file' \in Seq(FileBlocks)
        /\ Len(file') = IF o + d + n > Len(file) THEN o + d + n ELSE Len(file)
        /\ \A i \in 1..Len(file') :
              file'[i] = IF i \in (o + d + 1)..(o + d + n) THEN bs[i - (o + d)]
                         ELSE IF i <= Len(file) THEN file[i] ELSE Zero
    <3> DEFINE x == o + d
    <3>1. x \in Nat /\ file' = Put(x, bs) /\ file \in Seq(FileBlocks)
      BY <1>1, <2>2, <2>3
    <3> HIDE DEF x
    <3>2. /\ file' \in Seq(FileBlocks)
          /\ Len(file') = IF x + n > Len(file) THEN x + n ELSE Len(file)
          /\ \A i \in 1..Len(file') :
                file'[i] = IF i \in (x + 1)..(x + n) THEN bs[i - x]
                           ELSE IF i <= Len(file) THEN file[i] ELSE Zero
      BY <2>5, <3>1, PutFacts
    <3> QED BY <3>2 DEF x
  <2>7. /\ Len(file') >= Len(file) /\ Len(file') >= o + d + n
        /\ Len(file') = Len(file) \/ Len(file') = o + d + n
    <3> DEFINE l == Len(file)
    <3>1. l \in Nat
      BY <1>5
    <3> HIDE DEF l
    <3>2. Len(file') = IF o + d + n > l THEN o + d + n ELSE l
      BY <2>6 DEF l
    <3>3. Len(file') >= l /\ Len(file') >= o + d + n
      BY <1>1, <1>5, <2>3, <3>1, <3>2
    <3> QED BY <3>2, <3>3 DEF l
  <2>8. ASSUME NEW i \in (o + d + 1)..(o + d + n) PROVE bs[i - (o + d)] = Block(m, i - o)
    <3>1. i - (o + d) \in 1..n /\ d + (i - (o + d)) = i - o /\ i - o \in 1..B
      BY <1>1, <1>5, <2>3
    <3>2. bs[i - (o + d)] = Blocks(m)[i - o]
      BY <2>5, <3>1
    <3> QED BY <2>1, <3>1, <3>2
  <2> QED BY <2>6, <2>7, <2>8
<1>7. Len(file') \in Nat
  BY <1>6
<1> HIDE DEF p, m, B, d, o
<1>8. d + n \in 1..B /\ n \in Nat /\ n >= 1
  BY <1>1, <1>2, <1>3, <1>5
<1>9. ASSUME NEW k \in 1..(d + n) PROVE o + k <= Len(file') /\ file'[o + k] = Block(m, k)
  <2>1. o + k \in 1..Len(file') /\ o + k <= Len(file') /\ (o + k) - o = k
    <3> DEFINE l == Len(file')
    <3>1. l \in Nat /\ l >= o + d + n
      BY <1>6, <1>7
    <3> HIDE DEF l
    <3>2. o + k \in 1..l /\ o + k <= l /\ (o + k) - o = k
      BY <1>1, <1>5, <1>8, <3>1
    <3> QED BY <3>2 DEF l
  <2>2. CASE k > d
    <3>1. o + k \in (o + d + 1)..(o + d + n)
      BY <1>1, <1>5, <1>8, <2>2
    <3> QED BY <1>6, <2>1, <3>1
  <2>3. CASE k <= d
    <3>1. k \in 1..d /\ o + k \notin (o + d + 1)..(o + d + n)
      BY <1>1, <1>5, <1>8, <2>3
    <3>2. o + k <= Len(file) /\ file[o + k] = Block(m, k)
      BY <1>2, <3>1
    <3> QED BY <1>6, <2>1, <3>1, <3>2
  <2> QED BY <1>1, <2>2, <2>3
<1>10. ASSUME NEW q \in Nat, q # p, NEW x \in Images
       PROVE  Holds(file', q, x) <=> Holds(file, q, x)
  <2> DEFINE r == PageOffset(q)
  <2>1. r \in Nat /\ (r + B <= o \/ o + B <= r)
    <3>1. q < p \/ p < q
      BY <1>1, <1>10
    <3> QED BY <1>1, <3>1, Offsets DEF o, B
  <2> HIDE DEF r
  <2>2. ASSUME NEW k \in 1..B, r + k <= Len(file')
        PROVE  file'[r + k] = IF r + k <= Len(file) THEN file[r + k] ELSE Zero
    <3>1. r + k \in 1..Len(file') /\ r + k \notin (o + d + 1)..(o + d + n)
      BY <1>1, <1>5, <1>7, <1>8, <2>1, <2>2
    <3> QED BY <1>6, <3>1
  <2>3. ASSUME Holds(file, q, x) PROVE Holds(file', q, x)
    <3>1. r + B <= Len(file) /\ \A k \in 1..B : file[r + k] = Block(x, k)
      BY <2>3 DEF Holds, r, B
    <3>2. r + B <= Len(file') /\ \A k \in 1..B : r + k <= Len(file) /\ r + k <= Len(file')
      BY <1>5, <1>6, <1>7, <2>1, <3>1
    <3>3. \A k \in 1..B : file'[r + k] = Block(x, k)
      BY <2>2, <3>1, <3>2
    <3> QED BY <3>2, <3>3 DEF Holds, r, B
  <2>4. ASSUME Holds(file', q, x) PROVE Holds(file, q, x)
    <3>1. r + B <= Len(file') /\ \A k \in 1..B : file'[r + k] = Block(x, k)
      BY <2>4 DEF Holds, r, B
    <3>2. \A k \in 1..B : r + k <= Len(file')
      BY <1>5, <1>7, <2>1, <3>1
    <3>3. \A k \in 1..B : Block(x, k) # Zero
      BY BlockFacts DEF B
    <3>4. \A k \in 1..B : r + k <= Len(file) /\ file[r + k] = Block(x, k)
      BY <2>2, <3>1, <3>2, <3>3
    <3>5. r + B <= Len(file)
      BY <1>5, <3>4
    <3> QED BY <3>4, <3>5 DEF Holds, r, B
  <2> QED BY <2>3, <2>4
<1>11. ASSUME NEW q \in Nat, q # p PROVE PageIn(file', q) = PageIn(file, q)
  <2>1. CASE PageIn(file, q) # Damaged
    <3> DEFINE x == PageIn(file, q)
    <3>1. x \in Images /\ x.id = q /\ Holds(file, q, x)
      BY <1>1, <2>1, PageInFacts
    <3> HIDE DEF x
    <3>2. Holds(file', q, x)
      BY <1>10, <1>11, <3>1
    <3>3. PageIn(file', q) = x
      BY <1>6, <3>1, <3>2, PageInFacts
    <3> QED BY <3>3 DEF x
  <2>2. CASE PageIn(file', q) # Damaged
    <3> DEFINE x == PageIn(file', q)
    <3>1. x \in Images /\ x.id = q /\ Holds(file', q, x)
      BY <1>6, <2>2, PageInFacts
    <3> HIDE DEF x
    <3>2. Holds(file, q, x)
      BY <1>10, <1>11, <3>1
    <3>3. PageIn(file, q) = x
      BY <1>1, <3>1, <3>2, PageInFacts
    <3> QED BY <3>3 DEF x
  <2> QED BY <2>1, <2>2
<1>12. ASSUME PageIn(file', p) # Damaged PROVE PageIn(file', p) = m
  <2> DEFINE x == PageIn(file', p)
  <2>1. Holds(file', p, x)
    BY <1>1, <1>6, <1>12, PageInFacts
  <2> HIDE DEF x
  <2>2. 1 \in 1..B /\ 1 \in 1..(d + n)
    BY <1>1, <1>5, <1>8
  <2>3. file'[o + 1] = Block(x, 1) /\ file'[o + 1] = Block(m, 1)
    BY <1>9, <2>1, <2>2 DEF Holds, o, B
  <2>4. x = m
    BY <2>3, BlockFacts
  <2> QED BY <2>4 DEF x
<1>13. ASSUME d + n = B PROVE PageIn(file', p) = m
  <2>1. Holds(file', p, m)
    <3>1. o + B <= Len(file')
      BY <1>5, <1>9, <1>13
    <3> QED BY <1>9, <1>13, <3>1 DEF Holds, o, B
  <2> QED BY <1>1, <1>2, <1>6, <2>1, PageInFacts
<1>14. Len(file') > 0
  BY <1>1, <1>5, <1>6, <1>7, <1>8
<1>15. PageIn(file', p) \in {Damaged, m}
  BY <1>12
<1> QED BY <1>1, <1>2, <1>3, <1>4, <1>6, <1>8, <1>9, <1>11, <1>13, <1>14, <1>15 DEF p, m, B, d, o

-----------------------------------------------------------------------------
(* Catalogs. *)

LEMMA RangeFacts ==
    ASSUME NEW S, NEW s \in Seq(S)
    PROVE  /\ \A x : x \in Range(s) <=> \E k \in 1..Len(s) : s[k] = x
           /\ Range(s) \subseteq S
           /\ \A x \in S : Range(Append(s, x)) = Range(s) \cup {x}
<1>1. DOMAIN s = 1..Len(s) /\ Len(s) \in Nat
  OBVIOUS
<1>2. ASSUME NEW x PROVE x \in Range(s) <=> \E k \in 1..Len(s) : s[k] = x
  BY <1>1 DEF Range
<1>3. \A k \in 1..Len(s) : s[k] \in S
  OBVIOUS
<1>4. ASSUME NEW x \in S PROVE Range(Append(s, x)) = Range(s) \cup {x}
  <2> DEFINE t == Append(s, x)
  <2>1. /\ DOMAIN t = 1..(Len(s) + 1) /\ t[Len(s) + 1] = x
        /\ \A k \in 1..Len(s) : t[k] = s[k]
    BY <1>1
  <2>2. \A k \in 1..(Len(s) + 1) : k \in 1..Len(s) \/ k = Len(s) + 1
    BY <1>1
  <2>3. Len(s) + 1 \in 1..(Len(s) + 1) /\ 1..Len(s) \subseteq 1..(Len(s) + 1)
    BY <1>1
  <2> HIDE DEF t
  <2>4. Range(t) = Range(s) \cup {x}
    BY <1>1, <2>1, <2>2, <2>3 DEF Range
  <2> QED BY <2>4 DEF t
<1> QED BY <1>2, <1>3, <1>4

LEMMA AppendFacts ==
    ASSUME NEW s \in Seq(1..MaxPage), NEW x \in 1..MaxPage
    PROVE  Append(s, x) \in Seq(1..MaxPage) /\ Append(s, x) # << >> /\ Range(Append(s, x)) = Range(s) \cup {x}
<1>1. Append(s, x) \in Seq(1..MaxPage) /\ Len(Append(s, x)) = Len(s) + 1 /\ Len(s) \in Nat
  OBVIOUS
<1>2. Append(s, x) # << >>
  BY <1>1
<1>3. Range(Append(s, x)) = Range(s) \cup {x}
  BY RangeFacts
<1> QED BY <1>1, <1>2, <1>3

\* The entry of a table, and the pages a catalog lists.
LEMMA CatalogFacts ==
    ASSUME NEW c \in GoodCatalogs
    PROVE  /\ c \in [nextPage : 1..(MaxPage + 1), tables : Seq(TableEntries)]
           /\ c.nextPage \in 1..(MaxPage + 1) /\ c.tables \in Seq(TableEntries)
           /\ DOMAIN c.tables = 1..Len(c.tables) /\ Len(c.tables) \in Nat
           /\ \A i \in 1..Len(c.tables) :
                 /\ c.tables[i] \in TableEntries
                 /\ c.tables[i].name \in Names /\ c.tables[i].pages \in Seq(1..MaxPage)
                 /\ c.tables[i].pages # << >>
                 /\ c.tables[i].name \in TableNames(c) /\ TableOf(c, c.tables[i].name) = c.tables[i]
           /\ \A name \in TableNames(c) : \E i \in 1..Len(c.tables) :
                 c.tables[i].name = name /\ TableOf(c, name) = c.tables[i]
           /\ \A p : p \in Listed(c) <=> \E i \in 1..Len(c.tables) : p \in Range(c.tables[i].pages)
           /\ \A p \in Listed(c) : p \in 1..MaxPage /\ p < c.nextPage
           /\ \A i, j \in 1..Len(c.tables) : i # j =>
                 /\ c.tables[i].name # c.tables[j].name
                 /\ Range(c.tables[i].pages) \cap Range(c.tables[j].pages) = {}
<1> DEFINE n == Len(c.tables)
<1>1. /\ c.nextPage \in 1..(MaxPage + 1) /\ c.tables \in Seq(TableEntries)
      /\ c \in [nextPage : 1..(MaxPage + 1), tables : Seq(TableEntries)]
  BY DEF GoodCatalogs
<1>2. DOMAIN c.tables = 1..n /\ n \in Nat /\ \A i \in 1..n : c.tables[i] \in TableEntries
  BY <1>1
<1>3. /\ \A i, j \in 1..n : i # j => c.tables[i].name # c.tables[j].name
      /\ \A i \in 1..n : c.tables[i].pages # << >> /\ \A p \in Range(c.tables[i].pages) : p < c.nextPage
  BY <1>2 DEF GoodCatalogs
<1>4. \A i \in 1..n : c.tables[i].name \in Names /\ c.tables[i].pages \in Seq(1..MaxPage)
  BY <1>2 DEF TableEntries
<1>5. \A x : x \in Range(c.tables) <=> \E i \in 1..n : c.tables[i] = x
  BY <1>1, RangeFacts
<1>6. ASSUME NEW i \in 1..n
      PROVE  c.tables[i].name \in TableNames(c) /\ TableOf(c, c.tables[i].name) = c.tables[i]
  <2>1. c.tables[i].name \in TableNames(c)
    BY <1>2 DEF TableNames
  <2>2. c.tables[i] \in Range(c.tables)
    BY <1>5
  <2>3. \A t \in Range(c.tables) : t.name = c.tables[i].name => t = c.tables[i]
    BY <1>3, <1>5
  <2> QED BY <2>1, <2>2, <2>3 DEF TableOf
<1>7. ASSUME NEW name \in TableNames(c)
      PROVE  \E i \in 1..n : c.tables[i].name = name /\ TableOf(c, name) = c.tables[i]
  <2>1. PICK i \in 1..n : c.tables[i].name = name
    BY <1>2 DEF TableNames
  <2> QED BY <1>6, <2>1
<1>8. ASSUME NEW p PROVE p \in Listed(c) <=> \E i \in 1..n : p \in Range(c.tables[i].pages)
  BY <1>5 DEF Listed
<1>9. ASSUME NEW p \in Listed(c) PROVE p \in 1..MaxPage /\ p < c.nextPage
  <2>1. PICK i \in 1..n : p \in Range(c.tables[i].pages)
    BY <1>8
  <2>2. Range(c.tables[i].pages) \subseteq 1..MaxPage
    BY <1>4, RangeFacts
  <2> QED BY <1>3, <2>1, <2>2
<1>10. \A i, j \in 1..n : i # j => Range(c.tables[i].pages) \cap Range(c.tables[j].pages) = {}
  BY <1>2 DEF GoodCatalogs
<1> QED BY <1>1, <1>2, <1>3, <1>4, <1>6, <1>7, <1>8, <1>9, <1>10

LEMMA EntryFound ==
    ASSUME NEW c \in GoodCatalogs, NEW i \in 1..Len(c.tables)
    PROVE  c.tables[i].name \in TableNames(c) /\ TableOf(c, c.tables[i].name) = c.tables[i]
  BY CatalogFacts

LEMMA GoodCriterion ==
    ASSUME NEW c \in [nextPage : 1..(MaxPage + 1), tables : Seq(TableEntries)], NEW n,
           DOMAIN c.tables = 1..n,
           \A i, j \in 1..n : i # j =>
              /\ c.tables[i].name # c.tables[j].name
              /\ Range(c.tables[i].pages) \cap Range(c.tables[j].pages) = {},
           \A i \in 1..n :
              c.tables[i].pages # << >> /\ \A q \in Range(c.tables[i].pages) : q < c.nextPage
    PROVE  c \in GoodCatalogs
  BY DEF GoodCatalogs

LEMMA PagesFacts ==
    ASSUME NEW c \in GoodCatalogs, NEW name \in TableNames(c)
    PROVE  /\ name \in Names /\ PagesOf(c, name) \in Seq(1..MaxPage) /\ PagesOf(c, name) # << >>
           /\ Len(PagesOf(c, name)) \in Nat /\ Len(PagesOf(c, name)) >= 1
           /\ Range(PagesOf(c, name)) \subseteq Listed(c)
           /\ \A k \in 1..Len(PagesOf(c, name)) :
                 PagesOf(c, name)[k] \in Range(PagesOf(c, name)) /\ PagesOf(c, name)[k] \in 1..MaxPage
<1>1. PICK i \in 1..Len(c.tables) : c.tables[i].name = name /\ TableOf(c, name) = c.tables[i]
  BY CatalogFacts
<1> DEFINE s == PagesOf(c, name)
<1>2. s = c.tables[i].pages /\ s \in Seq(1..MaxPage) /\ s # << >> /\ name \in Names
  BY <1>1, CatalogFacts DEF PagesOf
<1>3. Range(s) \subseteq Listed(c)
  BY <1>2, CatalogFacts
<1> HIDE DEF s
<1>4. Len(s) \in Nat /\ Len(s) >= 1
  BY <1>2
<1>5. \A k \in 1..Len(s) : s[k] \in Range(s)
  BY <1>2, RangeFacts
<1>6. \A k \in 1..Len(s) : s[k] \in 1..MaxPage
  BY <1>3, <1>5, CatalogFacts
<1> QED BY <1>2, <1>3, <1>4, <1>5, <1>6 DEF s

LEMMA EmptyCatalogFacts ==
    EmptyCatalog \in GoodCatalogs /\ Listed(EmptyCatalog) = {} /\ TableNames(EmptyCatalog) = {}
<1>1. EmptyCatalog.tables = << >> /\ EmptyCatalog.nextPage = 1
  BY DEF EmptyCatalog
<1>2. DOMAIN EmptyCatalog.tables = {}
  BY <1>1
<1>3. EmptyCatalog \in [nextPage : 1..(MaxPage + 1), tables : Seq(TableEntries)]
  BY Constants DEF EmptyCatalog
<1> QED BY <1>2, <1>3 DEF GoodCatalogs, Listed, TableNames, Range

\* A catalog grows: the tables and pages of c are those of d, too.
Grows(c, d) ==
    /\ d \in GoodCatalogs
    /\ \A name \in TableNames(c) :
          name \in TableNames(d) /\ Range(PagesOf(c, name)) \subseteq Range(PagesOf(d, name))

\* create_table_metadata.
LEMMA TableAdded ==
    ASSUME NEW c \in GoodCatalogs, NEW name \in Names \ TableNames(c), c.nextPage <= MaxPage,
           NEW d \in [nextPage : 1..(MaxPage + 1), tables : Seq(TableEntries)],
           d.nextPage = c.nextPage + 1,
           d.tables = Append(c.tables, [name |-> name, pages |-> <<c.nextPage>>])
    PROVE  Grows(c, d) /\ Listed(d) = Listed(c) \cup {c.nextPage} /\ c.nextPage \notin Listed(c)
<1> DEFINE n == Len(c.tables)
           p == c.nextPage
           t == [name |-> name, pages |-> <<p>>]
<1>1. /\ c.tables \in Seq(TableEntries) /\ n \in Nat /\ DOMAIN c.tables = 1..n /\ p \in 1..(MaxPage + 1)
      /\ \A i \in 1..n : c.tables[i].name \in TableNames(c) /\ TableOf(c, c.tables[i].name) = c.tables[i]
      /\ \A i \in 1..n : c.tables[i].pages # << >>
      /\ \A q : q \in Listed(c) <=> \E i \in 1..n : q \in Range(c.tables[i].pages)
      /\ \A q \in Listed(c) : q \in 1..MaxPage /\ q < p
  BY CatalogFacts
<1>2. /\ p \in 1..MaxPage /\ p + 1 \in 1..(MaxPage + 1) /\ p \notin Listed(c)
      /\ \A q \in Listed(c) : q < p + 1
  BY <1>1, Constants
<1>3. t \in TableEntries /\ t.name = name /\ t.pages = <<p>>
  BY <1>2 DEF TableEntries
<1>4. Range(<<p>>) = {p} /\ <<p>> # << >>
  BY DEF Range
<1>5. /\ d.nextPage = p + 1 /\ d.tables = Append(c.tables, t)
      /\ d.tables \in Seq(TableEntries) /\ DOMAIN d.tables = 1..(n + 1) /\ Len(d.tables) = n + 1
      /\ d.tables[n + 1] = t /\ \A i \in 1..n : d.tables[i] = c.tables[i]
  <2>1. d.nextPage = p + 1 /\ d.tables = Append(c.tables, t)
    OBVIOUS
  <2> HIDE DEF t
  <2> QED BY <1>1, <1>3, <2>1
<1>6. d \in [nextPage : 1..(MaxPage + 1), tables : Seq(TableEntries)]
  OBVIOUS
<1> HIDE DEF t, p
<1>7. \A i \in 1..(n + 1) : i \in 1..n \/ i = n + 1
  BY <1>1
<1>8. \A i \in 1..n : Range(c.tables[i].pages) \subseteq Listed(c)
  BY <1>1
<1>9. d \in GoodCatalogs
  <2>1. ASSUME NEW i \in 1..(n + 1), NEW j \in 1..(n + 1), i # j
        PROVE  /\ d.tables[i].name # d.tables[j].name
               /\ Range(d.tables[i].pages) \cap Range(d.tables[j].pages) = {}
    <3>1. CASE i \in 1..n /\ j \in 1..n
      <4>1. /\ c.tables[i].name # c.tables[j].name
            /\ Range(c.tables[i].pages) \cap Range(c.tables[j].pages) = {}
        BY <2>1, <3>1, CatalogFacts
      <4>2. d.tables[i] = c.tables[i] /\ d.tables[j] = c.tables[j]
        BY <1>5, <3>1
      <4> QED BY <4>1, <4>2
    <3>2. CASE i = n + 1 /\ j \in 1..n
      BY <1>1, <1>2, <1>3, <1>4, <1>5, <1>8, <3>2
    <3>3. CASE i \in 1..n /\ j = n + 1
      BY <1>1, <1>2, <1>3, <1>4, <1>5, <1>8, <3>3
    <3> QED BY <1>7, <2>1, <3>1, <3>2, <3>3
  <2>2. ASSUME NEW i \in 1..(n + 1)
        PROVE  d.tables[i].pages # << >> /\ \A q \in Range(d.tables[i].pages) : q < p + 1
    <3>1. CASE i \in 1..n
      BY <1>1, <1>2, <1>5, <1>8, <3>1
    <3>2. CASE i = n + 1
      <4>1. p < p + 1
        BY <1>2
      <4> QED BY <1>3, <1>4, <1>5, <3>2, <4>1
    <3> QED BY <1>7, <3>1, <3>2
  <2>3. DOMAIN d.tables = 1..(n + 1)
    BY <1>5
  <2>4. \A i \in 1..(n + 1) : d.tables[i].pages # << >> /\ \A q \in Range(d.tables[i].pages) : q < d.nextPage
    BY <1>5, <2>2, Zenon
  <2>5. \A i, j \in 1..(n + 1) : i # j =>
              /\ d.tables[i].name # d.tables[j].name
              /\ Range(d.tables[i].pages) \cap Range(d.tables[j].pages) = {}
    BY <2>1
  <2> QED BY <1>6, <2>3, <2>4, <2>5, GoodCriterion, Zenon
<1>10. Listed(d) = Listed(c) \cup {p}
  <2>1. \A q : q \in Listed(d) <=> \E i \in 1..(n + 1) : q \in Range(d.tables[i].pages)
    BY <1>5, <1>9, CatalogFacts
  <2>2. n + 1 \in 1..(n + 1) /\ 1..n \subseteq 1..(n + 1)
    BY <1>1
  <2>3. ASSUME NEW q \in Listed(d) PROVE q \in Listed(c) \cup {p}
    <3>1. PICK i \in 1..(n + 1) : q \in Range(d.tables[i].pages)
      BY <2>1
    <3>2. CASE i \in 1..n
      BY <1>1, <1>5, <3>1, <3>2
    <3>3. CASE i = n + 1
      BY <1>3, <1>4, <1>5, <3>1, <3>3
    <3> QED BY <1>7, <3>2, <3>3
  <2>4. ASSUME NEW q \in Listed(c) PROVE q \in Listed(d)
    <3>1. PICK i \in 1..n : q \in Range(c.tables[i].pages)
      BY <1>1
    <3>2. i \in 1..(n + 1) /\ q \in Range(d.tables[i].pages)
      BY <1>5, <2>2, <3>1
    <3> QED BY <2>1, <3>2
  <2>5. p \in Listed(d)
    <3>1. p \in Range(d.tables[n + 1].pages)
      BY <1>3, <1>4, <1>5
    <3> QED BY <2>1, <2>2, <3>1
  <2> QED BY <2>3, <2>4, <2>5
<1>11. ASSUME NEW x \in TableNames(c) PROVE x \in TableNames(d) /\ PagesOf(d, x) = PagesOf(c, x)
  <2>1. PICK i \in 1..n : c.tables[i].name = x /\ TableOf(c, x) = c.tables[i]
    BY CatalogFacts
  <2>2. i \in 1..Len(d.tables) /\ d.tables[i] = c.tables[i]
    BY <1>1, <1>5
  <2>3. x \in TableNames(d) /\ TableOf(d, x) = d.tables[i]
    <3>1. d.tables[i].name \in TableNames(d) /\ TableOf(d, d.tables[i].name) = d.tables[i]
      BY <1>9, <2>2, EntryFound
    <3> QED BY <2>1, <2>2, <3>1
  <2> QED BY <2>1, <2>2, <2>3 DEF PagesOf
<1> QED BY <1>2, <1>9, <1>10, <1>11 DEF Grows, p

\* allocate_page_id.
LEMMA PageTaken ==
    ASSUME NEW c \in GoodCatalogs, c.nextPage <= MaxPage,
           NEW d \in [nextPage : 1..(MaxPage + 1), tables : Seq(TableEntries)],
           d.nextPage = c.nextPage + 1, d.tables = c.tables
    PROVE  /\ Grows(c, d) /\ Listed(d) = Listed(c) /\ c.nextPage \notin Listed(c)
           /\ TableNames(d) = TableNames(c)
<1> DEFINE n == Len(c.tables)
<1>1. /\ n \in Nat /\ DOMAIN c.tables = 1..n /\ c.nextPage \in 1..(MaxPage + 1)
      /\ \A i \in 1..n : c.tables[i].pages # << >>
      /\ \A q : q \in Listed(c) <=> \E i \in 1..n : q \in Range(c.tables[i].pages)
      /\ \A q \in Listed(c) : q \in 1..MaxPage /\ q < c.nextPage
      /\ \A i, j \in 1..n : i # j =>
            /\ c.tables[i].name # c.tables[j].name
            /\ Range(c.tables[i].pages) \cap Range(c.tables[j].pages) = {}
  BY CatalogFacts
<1>2. \A q \in Listed(c) : q < d.nextPage /\ q # c.nextPage
  BY <1>1, Constants
<1>3. DOMAIN d.tables = 1..n
  BY <1>1
<1>4. \A i \in 1..n : d.tables[i].pages # << >> /\ \A q \in Range(d.tables[i].pages) : q < d.nextPage
  BY <1>1, <1>2
<1>5. \A i, j \in 1..n : i # j =>
            /\ d.tables[i].name # d.tables[j].name
            /\ Range(d.tables[i].pages) \cap Range(d.tables[j].pages) = {}
  BY <1>1
<1>6. d \in GoodCatalogs
  BY <1>3, <1>4, <1>5, GoodCriterion, Zenon
<1>7. Listed(d) = Listed(c) /\ TableNames(d) = TableNames(c)
  BY DEF Listed, TableNames
<1>8. \A name : PagesOf(d, name) = PagesOf(c, name)
  BY DEF PagesOf, TableOf
<1> QED BY <1>2, <1>6, <1>7, <1>8 DEF Grows

\* append_heap_page.
AppendedEntry(t, name, p) ==
    IF t.name = name THEN [name |-> name, pages |-> Append(t.pages, p)] ELSE t

Longer(t, u, name, p) ==
    /\ u.name = t.name /\ u.pages # << >>
    /\ Range(u.pages) = Range(t.pages) \cup (IF t.name = name THEN {p} ELSE {})

LEMMA EntryAppended ==
    ASSUME NEW t \in TableEntries, t.pages # << >>, NEW name, NEW p \in 1..MaxPage
    PROVE  /\ AppendedEntry(t, name, p) \in TableEntries
           /\ Longer(t, AppendedEntry(t, name, p), name, p)
<1> DEFINE s == t.pages
           u == AppendedEntry(t, name, p)
<1>1. t.name \in Names /\ s \in Seq(1..MaxPage)
  BY DEF TableEntries
<1>2. CASE t.name = name
  <2>1. u = [name |-> name, pages |-> Append(s, p)]
    BY <1>2 DEF AppendedEntry
  <2> HIDE DEF s
  <2>2. /\ Append(s, p) \in Seq(1..MaxPage) /\ Append(s, p) # << >>
        /\ Range(Append(s, p)) = Range(s) \cup {p}
    BY <1>1, AppendFacts
  <2> HIDE DEF u
  <2>4. u.name = t.name /\ u.pages = Append(s, p)
    BY <1>2, <2>1
  <2>5. u \in TableEntries
    BY <1>1, <1>2, <2>1, <2>2 DEF TableEntries
  <2> QED BY <1>2, <2>2, <2>4, <2>5 DEF s, u, Longer
<1>3. CASE t.name # name
  <2>1. u = t
    BY <1>3 DEF AppendedEntry
  <2> QED BY <1>1, <1>3, <2>1 DEF Longer
<1> QED BY <1>2, <1>3

LEMMA PageAppended ==
    ASSUME NEW c \in GoodCatalogs, NEW name \in TableNames(c), NEW p \in 1..MaxPage,
           p \notin Listed(c), p < c.nextPage,
           NEW d \in [nextPage : 1..(MaxPage + 1), tables : Seq(TableEntries)],
           d.nextPage = c.nextPage, DOMAIN d.tables = DOMAIN c.tables,
           \A i \in DOMAIN c.tables : d.tables[i] = AppendedEntry(c.tables[i], name, p)
    PROVE  /\ Grows(c, d) /\ Listed(d) = Listed(c) \cup {p}
           /\ name \in TableNames(d) /\ p \in Range(PagesOf(d, name))
<1> DEFINE n == Len(c.tables)
<1>1. /\ n \in Nat /\ DOMAIN c.tables = 1..n /\ c.nextPage \in 1..(MaxPage + 1)
      /\ \A i \in 1..n : c.tables[i] \in TableEntries /\ c.tables[i].pages # << >>
      /\ \A q : q \in Listed(c) <=> \E i \in 1..n : q \in Range(c.tables[i].pages)
      /\ \A q \in Listed(c) : q \in 1..MaxPage /\ q < c.nextPage
      /\ \A i, j \in 1..n : i # j =>
            /\ c.tables[i].name # c.tables[j].name
            /\ Range(c.tables[i].pages) \cap Range(c.tables[j].pages) = {}
  BY CatalogFacts
<1>2. \A i \in 1..n : Range(c.tables[i].pages) \subseteq Listed(c)
  BY <1>1
<1>3. ASSUME NEW i \in 1..n
      PROVE  /\ d.tables[i].name = c.tables[i].name /\ d.tables[i].pages # << >>
             /\ Range(d.tables[i].pages)
                  = Range(c.tables[i].pages) \cup (IF c.tables[i].name = name THEN {p} ELSE {})
  <2>1. /\ c.tables[i] \in TableEntries /\ c.tables[i].pages # << >>
        /\ d.tables[i] = AppendedEntry(c.tables[i], name, p)
    BY <1>1
  <2>2. Longer(c.tables[i], d.tables[i], name, p)
    BY <2>1, EntryAppended
  <2> QED BY <2>2 DEF Longer
<1>7. DOMAIN d.tables = 1..n /\ Len(d.tables) = n
  BY <1>1
<1>8. d \in GoodCatalogs
  <2>1. ASSUME NEW i \in 1..n, NEW j \in 1..n, i # j
        PROVE  /\ d.tables[i].name # d.tables[j].name
               /\ Range(d.tables[i].pages) \cap Range(d.tables[j].pages) = {}
    <3>1. /\ c.tables[i].name # c.tables[j].name
          /\ Range(c.tables[i].pages) \cap Range(c.tables[j].pages) = {}
      BY <1>1, <2>1
    <3>2. p \notin Range(c.tables[i].pages) /\ p \notin Range(c.tables[j].pages)
      BY <1>2
    <3> QED BY <1>3, <3>1, <3>2
  <2>2. ASSUME NEW i \in 1..n
        PROVE  d.tables[i].pages # << >> /\ \A q \in Range(d.tables[i].pages) : q < d.nextPage
    <3>1. \A q \in Range(c.tables[i].pages) : q < d.nextPage
      BY <1>1, <1>2
    <3>2. \A q \in Range(d.tables[i].pages) : q \in Range(c.tables[i].pages) \/ q = p
      BY <1>3
    <3>3. p < d.nextPage
      OBVIOUS
    <3> QED BY <1>3, <3>1, <3>2, <3>3, Zenon
  <2>3. \A i, j \in 1..n : i # j =>
            /\ d.tables[i].name # d.tables[j].name
            /\ Range(d.tables[i].pages) \cap Range(d.tables[j].pages) = {}
    BY <2>1
  <2> QED BY <1>7, <2>2, <2>3, GoodCriterion, Zenon
<1>9. PICK k \in 1..n : c.tables[k].name = name
  BY CatalogFacts
<1>10. Listed(d) = Listed(c) \cup {p}
  <2>1. \A q : q \in Listed(d) <=> \E i \in 1..n : q \in Range(d.tables[i].pages)
    BY <1>7, <1>8, CatalogFacts
  <2>2. ASSUME NEW q \in Listed(d) PROVE q \in Listed(c) \cup {p}
    <3>1. PICK i \in 1..n : q \in Range(d.tables[i].pages)
      BY <2>1
    <3> QED BY <1>2, <1>3, <3>1
  <2>3. ASSUME NEW q \in Listed(c) PROVE q \in Listed(d)
    <3>1. PICK i \in 1..n : q \in Range(c.tables[i].pages)
      BY <1>1
    <3> QED BY <1>3, <2>1, <3>1
  <2>4. p \in Listed(d)
    <3>1. p \in Range(d.tables[k].pages)
      BY <1>3, <1>9
    <3> QED BY <2>1, <3>1
  <2> QED BY <2>2, <2>3, <2>4
<1>11. ASSUME NEW x \in TableNames(c)
       PROVE  /\ x \in TableNames(d) /\ Range(PagesOf(c, x)) \subseteq Range(PagesOf(d, x))
              /\ x = name => p \in Range(PagesOf(d, x))
  <2>1. PICK i \in 1..n : c.tables[i].name = x /\ TableOf(c, x) = c.tables[i]
    BY CatalogFacts
  <2>2. i \in 1..Len(d.tables) /\ d.tables[i].name = x
    BY <1>3, <1>7, <2>1
  <2>3. x \in TableNames(d) /\ TableOf(d, x) = d.tables[i]
    <3>1. d.tables[i].name \in TableNames(d) /\ TableOf(d, d.tables[i].name) = d.tables[i]
      BY <1>8, <2>2, EntryFound
    <3> QED BY <2>2, <3>1
  <2>4. PagesOf(c, x) = c.tables[i].pages /\ PagesOf(d, x) = d.tables[i].pages
    BY <2>1, <2>3 DEF PagesOf
  <2> QED BY <1>3, <2>1, <2>3, <2>4
<1> QED BY <1>8, <1>10, <1>11 DEF Grows

LEMMA GrowsFacts ==
    ASSUME NEW c \in GoodCatalogs, NEW d, Grows(c, d)
    PROVE  /\ d \in GoodCatalogs
           /\ \A a : Lists(c, a) => Lists(d, a)
  BY DEF Grows, Lists

LEMMA ListsFacts ==
    ASSUME NEW c \in GoodCatalogs, NEW a, Lists(c, a)
    PROVE  a.page \in Listed(c) /\ a.page \in 1..MaxPage /\ a.page < c.nextPage
<1>1. a.page \in Listed(c)
  BY PagesFacts DEF Lists
<1> QED BY <1>1, CatalogFacts

-----------------------------------------------------------------------------
(* Reads and writes, as the store sees them. *)

LEMMA OnFileFacts ==
    ASSUME Types, NEW p \in 0..MaxPage, OnFile(p) # Damaged
    PROVE  /\ OnFile(p) \in Images /\ OnFile(p).id = p
           /\ p = 0 => OnFile(p).type = "catalog" /\ OnFile(p).catalog \in GoodCatalogs
           /\ p # 0 => /\ OnFile(p).type = "heap" /\ OnFile(p).rows \in Seq(1..MaxRows)
                       /\ OnFile(p) = HeapPage(p, OnFile(p).rows)
<1>1. file \in Seq(FileBlocks) /\ p \in Nat
  BY Constants DEF Types
<1>2. OnFile(p) \in Images /\ OnFile(p).id = p
  BY <1>1, PageInFacts DEF OnFile
<1> QED BY <1>2, ImageFacts

LEMMA WrittenFacts ==
    ASSUME Types, Transfer, Written
    PROVE  /\ io.image \in Images /\ io.image # Damaged /\ io.page \in 0..MaxPage
           /\ io.page = io.image.id /\ OnFile(io.page) = io.image
<1>1. file \in Seq(FileBlocks) /\ io.page \in 0..MaxPage /\ io.page \in Nat /\ Len(file) \in Nat
  <2>1. file \in Seq(FileBlocks) /\ io.page \in 0..MaxPage
    BY DEF Types, Ios
  <2> QED BY <2>1, Constants
<1>2. /\ io.image \in Images /\ io.page = io.image.id
      /\ \A k \in 1..BlocksPerPage : /\ PageOffset(io.page) + k <= Len(file)
                                     /\ file[PageOffset(io.page) + k] = Block(io.image, k)
  BY DEF Transfer, Written
<1>3. Holds(file, io.page, io.image)
  <2>1. BlocksPerPage \in 1..BlocksPerPage
    BY Constants
  <2> QED BY <1>2, <2>1 DEF Holds
<1>4. PageIn(file, io.page) = io.image
  BY <1>1, <1>2, <1>3, PageInFacts
<1> QED BY <1>1, <1>2, <1>4, ImageFacts DEF OnFile

LEMMA ReadFacts ==
    ASSUME Types, Transfer, HasRead
    PROVE  io.page \in 0..MaxPage /\ PageRead = OnFile(io.page)
<1> DEFINE B == BlocksPerPage
           p == io.page
           o == PageOffset(p)
           s == SubSeq(file, o + 1, o + B)
           g == io.got
<1>1. file \in Seq(FileBlocks) /\ p \in 0..MaxPage /\ g \in Seq(FileBlocks)
  BY DEF Types, Ios
<1>2. B \in Nat /\ B >= 1 /\ o \in Nat /\ Len(file) \in Nat
  <2>1. Len(file) \in Nat
    BY <1>1
  <2>2. p \in Nat
    BY <1>1, Constants
  <2> QED BY <2>1, <2>2, Constants, Offsets
<1>3. Len(g) = B /\ \A k \in 1..B : o + k <= Len(file) /\ file[o + k] = g[k]
  BY DEF Transfer, HasRead
<1>4. PageIn(file, p) = IF Len(file) < o + B THEN Damaged
                        ELSE IF FromBlocks(s) = Damaged \/ FromBlocks(s).id # p THEN Damaged
                        ELSE FromBlocks(s)
  BY DEF PageIn
<1>5. PageRead = IF FromBlocks(g) = Damaged \/ FromBlocks(g).id # p THEN Damaged ELSE FromBlocks(g)
  BY DEF PageRead
<1>6. o + B <= Len(file)
  BY <1>2, <1>3
<1>7. s \in Seq(FileBlocks) /\ Len(s) = B /\ \A k \in 1..B : s[k] = file[o + k]
  <2> HIDE DEF o, B
  <2> QED BY <1>1, <1>2, <1>6, SMTT(30)
<1>8. s = g
  <2> HIDE DEF s, g, o, B
  <2>1. \A k \in 1..B : s[k] = g[k]
    BY <1>3, <1>7
  <2>2. DOMAIN s = 1..B /\ DOMAIN g = 1..B
    BY <1>1, <1>3, <1>7
  <2>3. s = [k \in 1..B |-> s[k]] /\ g = [k \in 1..B |-> g[k]]
    BY <1>1, <1>7, <2>2
  <2> QED BY <2>1, <2>3
<1>9. ~(Len(file) < o + B)
  <2> HIDE DEF o, B
  <2> QED BY <1>2, <1>6
<1> HIDE DEF s, g, o, B
<1> QED BY <1>1, <1>4, <1>5, <1>8, <1>9 DEF OnFile, p

LEMMA NothingHalfWritten ==
    /\ io.op # "write" => HalfWritten = {}
    /\ io.done = 0 \/ io.done = BlocksPerPage => HalfWritten = {}
  BY Constants DEF HalfWritten

LEMMA NoIoFacts ==
    ASSUME io' = NoIo
    PROVE  /\ io' \in Ios /\ io'.op = "none" /\ io'.done = 0
           /\ Transfer' /\ HalfWritten' = {}
<1>1. io' \in Ios /\ io'.op = "none" /\ io'.done = 0
  BY Constants DEF NoIo, Ios
<1>2. Transfer'
  BY <1>1 DEF Transfer
<1> QED BY <1>1, <1>2 DEF HalfWritten

LEMMA StartWriteFacts ==
    ASSUME NEW m \in Images, StartWrite(m)
    PROVE  /\ io' \in Ios /\ io'.op = "write" /\ io'.page = m.id /\ io'.image = m /\ io'.done = 0
           /\ Transfer' /\ HalfWritten' = {}
<1>1. m.id \in 0..MaxPage
  BY ImageFacts
<1>2. io' \in Ios /\ io'.op = "write" /\ io'.page = m.id /\ io'.image = m /\ io'.done = 0
  <2>1. io' = [op |-> "write", page |-> m.id, image |-> m, done |-> 0, got |-> << >>]
    BY DEF StartWrite, NoIo
  <2>2. << >> \in Seq(FileBlocks) /\ 0 \in 0..BlocksPerPage /\ m \in Images \cup {Damaged}
    BY Constants
  <2>3. io' \in Ios
    BY <1>1, <2>1, <2>2 DEF Ios
  <2> QED BY <2>1, <2>3
<1>3. Transfer'
  BY <1>2 DEF Transfer
<1> QED BY <1>2, <1>3, Constants DEF HalfWritten

LEMMA StartReadFacts ==
    ASSUME NEW p \in 0..MaxPage, StartRead(p)
    PROVE  /\ io' \in Ios /\ io'.op = "read" /\ io'.page = p /\ io'.done = 0
           /\ Transfer' /\ HalfWritten' = {}
<1>1. io' \in Ios /\ io'.op = "read" /\ io'.page = p /\ io'.done = 0 /\ io'.got = << >>
  <2>1. io' = [op |-> "read", page |-> p, image |-> Damaged, done |-> 0, got |-> << >>]
    BY DEF StartRead, NoIo
  <2>2. << >> \in Seq(FileBlocks) /\ 0 \in 0..BlocksPerPage /\ Damaged \in Images \cup {Damaged}
    BY Constants
  <2>3. io' \in Ios
    BY <2>1, <2>2 DEF Ios
  <2> QED BY <2>1, <2>3
<1>2. Transfer'
  BY <1>1 DEF Transfer
<1> QED BY <1>1, <1>2 DEF HalfWritten

-----------------------------------------------------------------------------
(* The steps that leave the file as it is. *)

LEMMA Frame ==
    ASSUME file' = file, InDoubt' = InDoubt
    PROVE  /\ \A p : OnFile(p)' = OnFile(p)
           /\ \A p : Ready(p)' <=> Ready(p)
           /\ \A p, row : RowOn(p, row)' <=> RowOn(p, row)
<1>1. \A p : OnFile(p)' = OnFile(p)
  BY DEF OnFile
<1>2. \A p : Ready(p)' <=> Ready(p)
  BY <1>1 DEF Ready
<1>3. \A p, row : RowOn(p, row)' <=> RowOn(p, row)
  BY <1>1, <1>2 DEF RowOn
<1> QED BY <1>1, <1>2, <1>3

LEMMA DiskKept ==
    ASSUME Disk, file' = file, InDoubt' = InDoubt, mixed => mixed',
           file = << >> => pc' \in {"closed", "bootstrap"} /\ acked' = {},
           ~mixed' /\ ~erred' =>
               \A p \in Listed(catalog') : Ready(p) \/ (pc' = "tablePage" /\ p = io'.page),
           \A a \in Clean' : OnFile(0) # Damaged => Lists(OnFile(0).catalog, a),
           \A a \in Clean' : pc' \notin {"closed"} \cup Opening => Lists(catalog', a),
           ~erred' /\ pc' \in {"idle", "tryPage", "rowPage"} =>
               OnFile(0) # Damaged /\ OnFile(0).catalog = catalog',
           \A a \in Clean' : RowOn(a.page, a.row),
           \A a \in Clean' : io'.op = "write" /\ io'.page = a.page => a.row \in Range(io'.image.rows),
           pc' = "save" /\ call'.row # 0 => RowOn(call'.page, call'.row)
    PROVE  Disk'
<1>1. /\ \A p : OnFile(p)' = OnFile(p)
      /\ \A p : Ready(p)' <=> Ready(p)
      /\ \A p, row : RowOn(p, row)' <=> RowOn(p, row)
  BY Frame, Zenon
<1>2. CatalogOnFile'
  BY <1>1 DEF Disk, CatalogOnFile
<1>3. ListedReady'
  <2>1. ~mixed' /\ OnFile(0)' # Damaged => \A p \in Listed(OnFile(0)'.catalog) : Ready(p)'
    BY <1>1 DEF Disk, ListedReady
  <2>2. ~mixed' /\ ~erred' => \A p \in Listed(catalog') : Ready(p)' \/ (pc' = "tablePage" /\ p = io'.page)
    BY <1>1
  <2> QED BY <2>1, <2>2 DEF ListedReady, Listed
<1>4. AckedListed'
  <2>1. \A a \in Clean' : /\ OnFile(0)' # Damaged => Lists(OnFile(0)'.catalog, a)
                          /\ pc' \notin {"closed"} \cup Opening => Lists(catalog', a)
    BY <1>1
  <2> QED BY <2>1 DEF AckedListed, Lists, PagesOf, TableOf, TableNames
<1>5. CatalogCurrent'
  BY <1>1 DEF CatalogCurrent
<1>6. AckedKept'
  BY <1>1 DEF AckedKept
<1>7. SavedRow'
  BY <1>1 DEF SavedRow
<1> QED BY <1>2, <1>3, <1>4, <1>5, <1>6, <1>7 DEF Disk

LEMMA TypesKept ==
    ASSUME Types, file' = file, faults' = faults,
           io' \in Ios, catalog' \in GoodCatalogs, call' \in CallRecords,
           cut' \subseteq 0..MaxPage, pc' \in {"closed", "idle"} \cup Opening \cup Calls,
           inserted' \in 0..MaxRows, sessions' \in 0..MaxSessions,
           acked' \subseteq [table : Names, row : 1..MaxRows, page : 1..MaxPage, clean : BOOLEAN],
           erred' \in BOOLEAN, mixed' \in BOOLEAN
    PROVE  Types'
<1>1. io'.op \in {"none", "read", "write", "failed"} /\ io'.done \in 0..BlocksPerPage
  BY DEF Ios
<1>2. catalog'.nextPage \in 1..(MaxPage + 1)
  BY CatalogFacts
<1> QED BY <1>1, <1>2 DEF Types, TypeOK, Opening, Calls

LEMMA NoCallFacts == NoCall \in CallRecords /\ NoCall.row = 0
  BY Constants DEF NoCall, CallRecords

LEMMA GrowsSelf ==
    ASSUME NEW c \in GoodCatalogs
    PROVE  Grows(c, c)
  BY DEF Grows

\* A call returns, or the process ends.
LEMMA EndKeeps ==
    ASSUME CatalogInv, file' = file, faults' = faults, inserted' = inserted, mixed' = mixed,
           sessions' = sessions, io' = NoIo, call' = NoCall, InDoubt' = InDoubt, cut' \subseteq 0..MaxPage,
           pc' \in {"idle", "closed"}, catalog' \in GoodCatalogs, erred' \in BOOLEAN,
           acked' \subseteq [table : Names, row : 1..MaxRows, page : 1..MaxPage, clean : BOOLEAN],
           pc' = "closed" => catalog' = EmptyCatalog /\ ~erred',
           file = << >> => pc' = "closed" /\ acked' = {},
           ~mixed /\ ~erred' => \A p \in Listed(catalog') : Ready(p),
           \A a \in Clean' : OnFile(0) # Damaged => Lists(OnFile(0).catalog, a),
           \A a \in Clean' : pc' = "idle" => Lists(catalog', a),
           \A a \in Clean' : RowOn(a.page, a.row),
           ~erred' /\ pc' = "idle" => OnFile(0) # Damaged /\ OnFile(0).catalog = catalog'
    PROVE  CatalogInv'
<1>1. io' \in Ios /\ io'.op = "none" /\ Transfer'
  BY NoIoFacts
<1>2. Types'
  <2>1. call' \in CallRecords /\ pc' \in {"closed", "idle"} \cup Opening \cup Calls
    BY NoCallFacts DEF Opening, Calls
  <2>2. Types /\ inserted' \in 0..MaxRows /\ sessions' \in 0..MaxSessions /\ mixed' \in BOOLEAN
    BY DEF CatalogInv, Types, TypeOK
  <2> QED BY <1>1, <2>1, <2>2, TypesKept
<1>3. Places'
  BY DEF Places, NoTransfer, NoLocals, Empty, AtOpen, NewTable, Inserting, Trying, Adding, Growing,
         Saving, Opening
<1>4. Disk'
  <2>1. pc' # "save" /\ pc' # "tablePage" /\ io'.op # "write"
    BY <1>1
  <2>2. \A a \in Clean' : pc' \notin {"closed"} \cup Opening => Lists(catalog', a)
    BY DEF Opening
  <2>3. Disk
    BY DEF CatalogInv
  <2> QED BY <2>1, <2>2, <2>3, DiskKept
<1> QED BY <1>1, <1>2, <1>3, <1>4 DEF CatalogInv

LEMMA FailKeeps ==
    ASSUME CatalogInv, pc \in Calls, Fail, HalfWritten = {}, Grows(catalog, catalog'),
           UNCHANGED <<file, faults, cut, inserted, acked, mixed, sessions>>
    PROVE  CatalogInv'
<1>1. /\ file' = file /\ faults' = faults /\ inserted' = inserted /\ mixed' = mixed
      /\ sessions' = sessions /\ io' = NoIo /\ call' = NoCall /\ cut' = cut /\ acked' = acked
      /\ pc' = "idle" /\ erred' = TRUE
  BY DEF Fail
<1>2. /\ InDoubt' = InDoubt /\ cut' \subseteq 0..MaxPage
      /\ acked' \subseteq [table : Names, row : 1..MaxRows, page : 1..MaxPage, clean : BOOLEAN]
  BY <1>1, NoIoFacts DEF InDoubt, CatalogInv, Types, TypeOK
<1>3. Clean' = Clean
  BY <1>1 DEF Clean
<1>4. file # << >>
  BY DEF CatalogInv, Disk, CatalogOnFile, Calls
<1>5. \A a \in Clean : /\ OnFile(0) # Damaged => Lists(OnFile(0).catalog, a)
                       /\ Lists(catalog, a) /\ RowOn(a.page, a.row)
  BY DEF CatalogInv, Disk, AckedListed, AckedKept, Calls, Opening
<1>6. catalog \in GoodCatalogs
  BY DEF CatalogInv, Types
<1>7. catalog' \in GoodCatalogs /\ \A a \in Clean : Lists(catalog', a)
  BY <1>5, <1>6, GrowsFacts
<1> QED BY <1>1, <1>2, <1>3, <1>4, <1>5, <1>7, EndKeeps

LEMMA CallFailsKeeps ==
    ASSUME CatalogInv, CallFails
    PROVE  CatalogInv'
<1>1. catalog' = catalog /\ catalog \in GoodCatalogs
  BY DEF CallFails, CatalogInv, Types
<1>2. Grows(catalog, catalog')
  BY <1>1, GrowsSelf
<1>3. HalfWritten = {}
  BY NothingHalfWritten DEF CallFails
<1> QED BY <1>2, <1>3, FailKeeps DEF CallFails

LEMMA ExitKeeps ==
    ASSUME CatalogInv, Exit
    PROVE  CatalogInv'
<1>1. /\ file' = file /\ faults' = faults /\ inserted' = inserted /\ mixed' = mixed
      /\ sessions' = sessions /\ io' = NoIo /\ call' = NoCall /\ cut' = cut \cup HalfWritten
      /\ acked' = acked /\ pc' = "closed" /\ erred' = FALSE /\ catalog' = EmptyCatalog
  BY DEF Exit
<1>2. /\ InDoubt' = InDoubt
      /\ acked' \subseteq [table : Names, row : 1..MaxRows, page : 1..MaxPage, clean : BOOLEAN]
  BY <1>1, NoIoFacts DEF InDoubt, CatalogInv, Types, TypeOK
<1>3. cut' \subseteq 0..MaxPage
  BY <1>1 DEF HalfWritten, CatalogInv, Types, TypeOK, Ios
<1>4. Clean' = Clean
  BY <1>1 DEF Clean
<1>5. file = << >> => acked = {}
  BY DEF CatalogInv, Disk, CatalogOnFile
<1>6. \A a \in Clean : (OnFile(0) # Damaged => Lists(OnFile(0).catalog, a)) /\ RowOn(a.page, a.row)
  BY DEF CatalogInv, Disk, AckedListed, AckedKept
<1> QED BY <1>1, <1>2, <1>3, <1>4, <1>5, <1>6, EmptyCatalogFacts, EndKeeps

LEMMA OpenFailsKeeps ==
    ASSUME CatalogInv, OpenFails
    PROVE  CatalogInv'
<1>1. /\ file' = file /\ faults' = faults /\ inserted' = inserted /\ mixed' = mixed
      /\ sessions' = sessions /\ io' = NoIo /\ call' = call /\ cut' = cut
      /\ acked' = acked /\ pc' = "closed" /\ erred' = erred /\ catalog' = EmptyCatalog
  BY DEF OpenFails
<1>2. call' = NoCall /\ ~erred' /\ erred' \in BOOLEAN /\ HalfWritten = {}
  BY <1>1, NothingHalfWritten
  DEF OpenFails, CatalogInv, Places, NoLocals, Empty, Opening, Types, TypeOK
<1>3. /\ InDoubt' = InDoubt /\ cut' \subseteq 0..MaxPage
      /\ acked' \subseteq [table : Names, row : 1..MaxRows, page : 1..MaxPage, clean : BOOLEAN]
  BY <1>1, <1>2, NoIoFacts DEF InDoubt, CatalogInv, Types, TypeOK
<1>4. Clean' = Clean
  BY <1>1 DEF Clean
<1>5. file = << >> => acked = {}
  BY DEF CatalogInv, Disk, CatalogOnFile
<1>6. \A a \in Clean : (OnFile(0) # Damaged => Lists(OnFile(0).catalog, a)) /\ RowOn(a.page, a.row)
  BY DEF CatalogInv, Disk, AckedListed, AckedKept
<1> QED BY <1>1, <1>2, <1>3, <1>4, <1>5, <1>6, EmptyCatalogFacts, EndKeeps

LEMMA SomethingOnFile ==
    ASSUME Types, NEW p \in 0..MaxPage, OnFile(p) # Damaged
    PROVE  file # << >> /\ Len(file) >= BlocksPerPage
<1>1. file \in Seq(FileBlocks) /\ p \in Nat /\ Len(file) \in Nat
  BY Constants DEF Types
<1>2. PageOffset(p) + BlocksPerPage <= Len(file)
  BY <1>1, PageInFacts DEF OnFile, Holds
<1>3. PageOffset(p) \in Nat
  BY <1>1, Offsets
<1> QED BY <1>1, <1>2, <1>3, Constants

LEMMA BootstrappedKeeps ==
    ASSUME CatalogInv, Bootstrapped
    PROVE  CatalogInv'
<1>1. /\ file' = file /\ faults' = faults /\ inserted' = inserted /\ mixed' = mixed
      /\ sessions' = sessions /\ io' = NoIo /\ call' = call /\ cut' = cut
      /\ acked' = acked /\ pc' = "idle" /\ erred' = erred /\ catalog' = catalog
      /\ pc = "bootstrap" /\ Written
  BY DEF Bootstrapped
<1>2. /\ call' = NoCall /\ ~erred' /\ erred' \in BOOLEAN /\ acked = {} /\ catalog = EmptyCatalog
      /\ io.image = CatalogPage(EmptyCatalog)
  BY <1>1 DEF CatalogInv, Places, NoLocals, Empty, AtOpen, Opening, Types, TypeOK
<1>3. HalfWritten = {}
  BY <1>1, NothingHalfWritten DEF Written
<1>4. InDoubt' = InDoubt /\ cut' \subseteq 0..MaxPage
  BY <1>1, <1>3, NoIoFacts DEF InDoubt, CatalogInv, Types, TypeOK
<1>5. Types /\ Transfer
  BY DEF CatalogInv
<1>6. 0 \in 0..MaxPage /\ OnFile(0) # Damaged /\ OnFile(0).catalog = EmptyCatalog
  BY <1>1, <1>2, <1>5, WrittenFacts, EmptyCatalogFacts, CatalogPageFacts, Constants
<1>7. file # << >>
  BY <1>5, <1>6, SomethingOnFile
<1>8. acked' = {} /\ Clean' = {}
  BY <1>1, <1>2 DEF Clean
<1> QED BY <1>1, <1>2, <1>4, <1>6, <1>7, <1>8, EmptyCatalogFacts, EndKeeps

LEMMA LoadedKeeps ==
    ASSUME CatalogInv, Loaded
    PROVE  CatalogInv'
<1>1. /\ file' = file /\ faults' = faults /\ inserted' = inserted /\ mixed' = mixed
      /\ sessions' = sessions /\ io' = NoIo /\ call' = call /\ cut' = cut
      /\ acked' = acked /\ erred' = erred /\ pc = "load" /\ HasRead
  BY DEF Loaded
<1>2. call' = NoCall /\ ~erred' /\ erred' \in BOOLEAN /\ io.page = 0 /\ file # << >>
  BY <1>1 DEF CatalogInv, Places, NoLocals, Empty, AtOpen, Opening, Types, TypeOK, Disk, CatalogOnFile
<1>3. HalfWritten = {}
  BY <1>1, NothingHalfWritten DEF HasRead
<1>4. /\ InDoubt' = InDoubt /\ cut' \subseteq 0..MaxPage
      /\ acked' \subseteq [table : Names, row : 1..MaxRows, page : 1..MaxPage, clean : BOOLEAN]
  BY <1>1, <1>3, NoIoFacts DEF InDoubt, CatalogInv, Types, TypeOK
<1>5. Types /\ Transfer
  BY DEF CatalogInv
<1>6. 0 \in 0..MaxPage /\ PageRead = OnFile(0)
  BY <1>1, <1>2, <1>5, ReadFacts, Constants
<1>7. Clean' = Clean
  BY <1>1 DEF Clean
<1>8. \A a \in Clean : (OnFile(0) # Damaged => Lists(OnFile(0).catalog, a)) /\ RowOn(a.page, a.row)
  BY DEF CatalogInv, Disk, AckedListed, AckedKept
<1>9. CASE OnFile(0) # Damaged /\ OnFile(0).type = "catalog"
  <2>1. catalog' = OnFile(0).catalog /\ pc' = "idle"
    BY <1>6, <1>9 DEF Loaded
  <2>2. catalog' \in GoodCatalogs
    BY <1>5, <1>6, <1>9, <2>1, OnFileFacts
  <2>3. ~mixed => \A p \in Listed(catalog') : Ready(p)
    BY <1>9, <2>1 DEF CatalogInv, Disk, ListedReady
  <2> QED BY <1>1, <1>2, <1>4, <1>7, <1>8, <1>9, <2>1, <2>2, <2>3, EndKeeps
<1>10. CASE ~(OnFile(0) # Damaged /\ OnFile(0).type = "catalog")
  <2>1. catalog' = EmptyCatalog /\ pc' = "closed"
    BY <1>6, <1>10 DEF Loaded
  <2> QED BY <1>1, <1>2, <1>4, <1>7, <1>8, <2>1, EmptyCatalogFacts, EndKeeps
<1> QED BY <1>9, <1>10

\* insert_row or create_table returns Ok.
LEMMA ReturnKeeps ==
    ASSUME CatalogInv, pc \in Calls \ {"tablePage"}, Written, Return,
           UNCHANGED <<file, faults, cut, catalog, inserted, mixed, sessions>>,
           ~erred => OnFile(0) # Damaged /\ OnFile(0).catalog = catalog,
           \/ acked' = acked
           \/ /\ Acknowledge /\ call.row # 0 /\ RowOn(call.page, call.row)
              /\ call.table \in TableNames(catalog) /\ call.page \in Range(PagesOf(catalog, call.table))
    PROVE  CatalogInv'
<1> DEFINE new == [table |-> call.table, row |-> call.row, page |-> call.page, clean |-> ~erred]
<1>1. /\ file' = file /\ faults' = faults /\ inserted' = inserted /\ mixed' = mixed
      /\ sessions' = sessions /\ io' = NoIo /\ call' = NoCall /\ cut' = cut
      /\ pc' = "idle" /\ erred' = erred /\ catalog' = catalog
  BY DEF Return
<1>2. HalfWritten = {}
  BY NothingHalfWritten DEF Written
<1>3. /\ InDoubt' = InDoubt /\ cut' \subseteq 0..MaxPage /\ erred \in BOOLEAN
      /\ catalog \in GoodCatalogs /\ call \in CallRecords
      /\ acked \subseteq [table : Names, row : 1..MaxRows, page : 1..MaxPage, clean : BOOLEAN]
  BY <1>1, <1>2, NoIoFacts DEF InDoubt, CatalogInv, Types, TypeOK
<1>4. file # << >>
  BY DEF CatalogInv, Disk, CatalogOnFile, Calls
<1>5. \A a \in Clean : /\ OnFile(0) # Damaged => Lists(OnFile(0).catalog, a)
                       /\ Lists(catalog, a) /\ RowOn(a.page, a.row)
  BY DEF CatalogInv, Disk, AckedListed, AckedKept, Calls, Opening
<1>6. ~mixed /\ ~erred => \A p \in Listed(catalog) : Ready(p)
  BY DEF CatalogInv, Disk, ListedReady
<1>7. CASE acked' = acked
  <2>1. Clean' = Clean
    BY <1>7 DEF Clean
  <2> QED BY <1>1, <1>3, <1>4, <1>5, <1>6, <1>7, <2>1, EndKeeps
<1>8. CASE /\ Acknowledge /\ call.row # 0 /\ RowOn(call.page, call.row)
           /\ call.table \in TableNames(catalog) /\ call.page \in Range(PagesOf(catalog, call.table))
  <2>1. acked' = acked \cup {new}
    BY <1>8 DEF Acknowledge
  <2>2. new.table = call.table /\ new.row = call.row /\ new.page = call.page /\ new.clean = ~erred
    OBVIOUS
  <2>3. new \in [table : Names, row : 1..MaxRows, page : 1..MaxPage, clean : BOOLEAN]
    <3>1. call.row \in 1..MaxRows
      <4>1. call.row \in 0..MaxRows /\ call.row # 0
        BY <1>3, <1>8 DEF CallRecords
      <4> QED BY <4>1, Constants
    <3>2. call.table \in Names /\ call.page \in Listed(catalog)
      <4>1. /\ catalog \in GoodCatalogs /\ call.table \in TableNames(catalog)
            /\ call.page \in Range(PagesOf(catalog, call.table))
        BY <1>3, <1>8
      <4>2. call.table \in Names /\ Range(PagesOf(catalog, call.table)) \subseteq Listed(catalog)
        BY <4>1, PagesFacts
      <4> QED BY <4>1, <4>2
    <3>3. call.page \in 1..MaxPage
      BY <1>3, <3>2, CatalogFacts
    <3> QED BY <1>3, <3>1, <3>2, <3>3
  <2>4. Lists(catalog, new) /\ RowOn(new.page, new.row)
    BY <1>8, <2>2 DEF Lists
  <2> HIDE DEF new
  <2>5. acked' \subseteq [table : Names, row : 1..MaxRows, page : 1..MaxPage, clean : BOOLEAN]
    BY <1>3, <2>1, <2>3
  <2>6. \A a \in Clean' : a \in Clean \/ (a = new /\ ~erred)
    BY <2>1, <2>2 DEF Clean
  <2>7. \A a \in Clean' : OnFile(0) # Damaged => Lists(OnFile(0).catalog, a)
    BY <1>5, <2>4, <2>6
  <2>8. \A a \in Clean' : Lists(catalog', a) /\ RowOn(a.page, a.row)
    BY <1>1, <1>5, <2>4, <2>6
  <2> QED BY <1>1, <1>3, <1>4, <1>6, <2>5, <2>7, <2>8, EndKeeps
<1> QED BY <1>7, <1>8

LEMMA RowPageWrittenKeeps ==
    ASSUME CatalogInv, RowPageWritten
    PROVE  CatalogInv'
<1>1. /\ pc = "rowPage" /\ Written /\ Acknowledge /\ Return
      /\ UNCHANGED <<file, faults, cut, catalog, inserted, mixed, sessions>>
  BY DEF RowPageWritten
<1>2. /\ call.row # 0 /\ call.table \in TableNames(catalog) /\ io.page = call.page
      /\ call.page \in Range(PagesOf(catalog, call.table))
      /\ io.image = HeapPage(call.page, io.image.rows) /\ call.row \in Range(io.image.rows)
  BY <1>1 DEF CatalogInv, Places, Inserting, Adding
<1>3. ~erred => OnFile(0) # Damaged /\ OnFile(0).catalog = catalog
  BY <1>1 DEF CatalogInv, Disk, CatalogCurrent
<1>4. OnFile(call.page) = io.image /\ io.image # Damaged
  BY <1>1, <1>2, WrittenFacts DEF CatalogInv
<1>5. io.image.type = "heap"
  BY <1>2 DEF HeapPage
<1>6. RowOn(call.page, call.row)
  BY <1>2, <1>4, <1>5 DEF RowOn, Ready
<1> QED BY <1>1, <1>2, <1>3, <1>6, ReturnKeeps DEF Calls

LEMMA SavedKeeps ==
    ASSUME CatalogInv, Saved
    PROVE  CatalogInv'
<1>1. /\ pc = "save" /\ Written /\ Return /\ (IF call.row # 0 THEN Acknowledge ELSE acked' = acked)
      /\ UNCHANGED <<file, faults, cut, catalog, inserted, mixed, sessions>>
  BY DEF Saved
<1>2. /\ io.image = CatalogPage(catalog)
      /\ call.row # 0 =>
            call.table \in TableNames(catalog) /\ call.page \in Range(PagesOf(catalog, call.table))
  BY <1>1 DEF CatalogInv, Places, Saving
<1>3. catalog \in GoodCatalogs
  BY DEF CatalogInv, Types
<1>4. OnFile(0) # Damaged /\ OnFile(0).catalog = catalog
  BY <1>1, <1>2, <1>3, WrittenFacts, CatalogPageFacts DEF CatalogInv
<1>5. call.row # 0 => RowOn(call.page, call.row)
  BY <1>1 DEF CatalogInv, Disk, SavedRow
<1> QED BY <1>1, <1>2, <1>4, <1>5, ReturnKeeps DEF Calls

-----------------------------------------------------------------------------
(* Opening. *)

LEMMA OpenKeeps ==
    ASSUME CatalogInv, Open
    PROVE  CatalogInv'
<1>1. /\ pc = "closed" /\ sessions < MaxSessions /\ sessions' = sessions + 1
      /\ file' = file /\ faults' = faults /\ inserted' = inserted /\ mixed' = mixed /\ call' = call
      /\ cut' = cut /\ acked' = acked /\ erred' = erred
  BY DEF Open
<1>2. io = NoIo /\ call = NoCall /\ catalog = EmptyCatalog /\ ~erred
  BY <1>1 DEF CatalogInv, Places, NoTransfer, NoLocals, Empty
<1>3. HalfWritten = {}
  <2>1. io.op # "write"
    BY <1>2 DEF NoIo
  <2> QED BY <2>1, NothingHalfWritten
<1>4. /\ Types /\ Disk /\ cut' \subseteq 0..MaxPage /\ sessions' \in 0..MaxSessions
      /\ inserted' \in 0..MaxRows /\ erred' \in BOOLEAN /\ mixed' \in BOOLEAN
      /\ acked' \subseteq [table : Names, row : 1..MaxRows, page : 1..MaxPage, clean : BOOLEAN]
  BY <1>1, Constants DEF CatalogInv, Types, TypeOK
<1>5. Clean' = Clean
  BY <1>1 DEF Clean
<1>6. \A a \in Clean : (OnFile(0) # Damaged => Lists(OnFile(0).catalog, a)) /\ RowOn(a.page, a.row)
  BY DEF CatalogInv, Disk, AckedListed, AckedKept
<1>7. CASE /\ file = << >> /\ catalog' = EmptyCatalog
           /\ StartWrite(CatalogPage(EmptyCatalog)) /\ pc' = "bootstrap"
  <2>1. CatalogPage(EmptyCatalog) \in Images
    BY EmptyCatalogFacts, CatalogPageFacts
  <2>2. /\ io' \in Ios /\ io'.op = "write" /\ io'.image = CatalogPage(EmptyCatalog)
        /\ Transfer' /\ HalfWritten' = {}
    BY <1>7, <2>1, StartWriteFacts
  <2>3. acked = {}
    BY <1>7 DEF CatalogInv, Disk, CatalogOnFile
  <2>4. Types'
    BY <1>1, <1>2, <1>4, <1>7, <2>2, TypesKept, EmptyCatalogFacts, NoCallFacts DEF Opening
  <2>5. Places'
    BY <1>1, <1>2, <1>7, <2>2, <2>3
    DEF Places, NoTransfer, NoLocals, Empty, AtOpen, NewTable, Inserting, Trying, Adding, Growing,
        Saving, Opening
  <2>6. Disk'
    <3>1. InDoubt' = InDoubt
      BY <1>1, <1>3, <2>2 DEF InDoubt
    <3>2. Clean' = {}
      BY <1>5, <2>3 DEF Clean
    <3>3. Listed(catalog') = {} /\ acked' = {}
      BY <1>1, <1>7, <2>3, EmptyCatalogFacts
    <3> QED BY <1>1, <1>4, <1>7, <3>1, <3>2, <3>3, DiskKept
  <2> QED BY <2>2, <2>4, <2>5, <2>6 DEF CatalogInv
<1>8. CASE /\ Len(file) >= BlocksPerPage /\ StartRead(0) /\ pc' = "load" /\ catalog' = catalog
  <2>1. 0 \in 0..MaxPage
    BY Constants
  <2>2. io' \in Ios /\ io'.op = "read" /\ io'.page = 0 /\ Transfer' /\ HalfWritten' = {}
    BY <1>8, <2>1, StartReadFacts
  <2>3. file # << >>
    BY <1>8, Constants
  <2>4. Types'
    BY <1>1, <1>2, <1>4, <1>8, <2>2, TypesKept, EmptyCatalogFacts, NoCallFacts DEF Opening
  <2>5. Places'
    BY <1>1, <1>2, <1>8, <2>2
    DEF Places, NoTransfer, NoLocals, Empty, AtOpen, NewTable, Inserting, Trying, Adding, Growing,
        Saving, Opening
  <2>6. Disk'
    <3>1. InDoubt' = InDoubt
      BY <1>1, <1>3, <2>2 DEF InDoubt
    <3>2. Listed(catalog') = {}
      BY <1>2, <1>8, EmptyCatalogFacts
    <3>3. pc' \in {"closed"} \cup Opening /\ pc' \notin {"idle", "tryPage", "rowPage"} /\ pc' # "save"
      BY <1>8 DEF Opening
    <3> QED BY <1>1, <1>4, <1>5, <1>6, <2>2, <2>3, <3>1, <3>2, <3>3, DiskKept
  <2> QED BY <2>2, <2>4, <2>5, <2>6 DEF CatalogInv
<1> QED BY <1>7, <1>8 DEF Open

-----------------------------------------------------------------------------
(* create_table and insert_row. *)

\* What a call may rely on.
LEMMA CallFacts ==
    ASSUME CatalogInv, pc \in {"idle"} \cup Calls
    PROVE  /\ file # << >> /\ catalog \in GoodCatalogs /\ call \in CallRecords
           /\ \A a \in Clean : /\ OnFile(0) # Damaged => Lists(OnFile(0).catalog, a)
                               /\ Lists(catalog, a) /\ RowOn(a.page, a.row)
                               /\ a.page \in 1..MaxPage /\ a.page < catalog.nextPage
           /\ ~mixed /\ ~erred =>
                 \A p \in Listed(catalog) : Ready(p) \/ (pc = "tablePage" /\ p = io.page)
<1>1. file # << >>
  BY DEF CatalogInv, Disk, CatalogOnFile, Calls
<1>2. catalog \in GoodCatalogs /\ call \in CallRecords
  BY DEF CatalogInv, Types
<1>3. \A a \in Clean : /\ OnFile(0) # Damaged => Lists(OnFile(0).catalog, a)
                       /\ Lists(catalog, a) /\ RowOn(a.page, a.row)
  BY DEF CatalogInv, Disk, AckedListed, AckedKept, Calls, Opening
<1>4. \A a \in Clean : a.page \in 1..MaxPage /\ a.page < catalog.nextPage
  BY <1>2, <1>3, ListsFacts
<1>5. ~mixed /\ ~erred =>
          \A p \in Listed(catalog) : Ready(p) \/ (pc = "tablePage" /\ p = io.page)
  BY DEF CatalogInv, Disk, ListedReady
<1> QED BY <1>1, <1>2, <1>3, <1>4, <1>5

LEMMA CreateTableKeeps ==
    ASSUME CatalogInv, NEW name \in Names, CreateTable(name)
    PROVE  CatalogInv'
<1> DEFINE p == catalog.nextPage
           t == [name |-> name, pages |-> <<p>>]
<1>1. /\ pc = "idle" /\ name \notin TableNames(catalog) /\ p <= MaxPage /\ pc' = "tablePage"
      /\ catalog' = [nextPage |-> p + 1, tables |-> Append(catalog.tables, t)]
      /\ StartWrite(HeapPage(p, << >>))
      /\ file' = file /\ faults' = faults /\ inserted' = inserted /\ mixed' = mixed /\ call' = call
      /\ cut' = cut /\ acked' = acked /\ erred' = erred /\ sessions' = sessions
  BY DEF CreateTable
<1>2. io = NoIo /\ call = NoCall
  BY <1>1 DEF CatalogInv, Places, NoTransfer, NoLocals
<1>3. HalfWritten = {}
  <2>1. io.op # "write"
    BY <1>2 DEF NoIo
  <2> QED BY <2>1, NothingHalfWritten
<1>4. /\ Types /\ Disk /\ cut' \subseteq 0..MaxPage /\ sessions' \in 0..MaxSessions
      /\ inserted' \in 0..MaxRows /\ erred' \in BOOLEAN /\ mixed' \in BOOLEAN
      /\ acked' \subseteq [table : Names, row : 1..MaxRows, page : 1..MaxPage, clean : BOOLEAN]
  BY <1>1 DEF CatalogInv, Types, TypeOK
<1>5. /\ file # << >> /\ catalog \in GoodCatalogs
      /\ \A a \in Clean : /\ OnFile(0) # Damaged => Lists(OnFile(0).catalog, a)
                          /\ Lists(catalog, a) /\ RowOn(a.page, a.row)
                          /\ a.page \in 1..MaxPage /\ a.page < catalog.nextPage
      /\ ~mixed /\ ~erred => \A q \in Listed(catalog) : Ready(q)
  BY <1>1, CallFacts
<1>6. p \in 1..MaxPage /\ p + 1 \in 1..(MaxPage + 1) /\ catalog.tables \in Seq(TableEntries)
  <2>1. p \in 1..(MaxPage + 1) /\ catalog.tables \in Seq(TableEntries)
    BY <1>5, CatalogFacts
  <2> HIDE DEF p
  <2> QED BY <1>1, <2>1, Constants
<1>7. /\ catalog' \in [nextPage : 1..(MaxPage + 1), tables : Seq(TableEntries)]
      /\ catalog'.nextPage = p + 1 /\ catalog'.tables = Append(catalog.tables, t)
  <2>1. t \in TableEntries
    BY <1>6 DEF TableEntries
  <2> HIDE DEF t
  <2>2. Append(catalog.tables, t) \in Seq(TableEntries)
    BY <1>6, <2>1
  <2> QED BY <1>1, <1>6, <2>2
<1>8. Grows(catalog, catalog') /\ Listed(catalog') = Listed(catalog) \cup {p}
  BY <1>1, <1>5, <1>7, TableAdded
<1>9. catalog' \in GoodCatalogs /\ \A a \in Clean : Lists(catalog', a)
  BY <1>5, <1>8, GrowsFacts
<1>10. HeapPage(p, << >>) \in Images /\ HeapPage(p, << >>).id = p
  <2>1. << >> \in Seq(1..MaxRows)
    OBVIOUS
  <2> QED BY <1>6, <2>1, HeapPageFacts
<1> HIDE DEF t
<1>11. /\ io' \in Ios /\ io'.op = "write" /\ io'.page = p /\ io'.image = HeapPage(p, << >>)
       /\ Transfer' /\ HalfWritten' = {}
  BY <1>1, <1>10, StartWriteFacts
<1> HIDE DEF p
<1>12. p # 0
  BY <1>6
<1>13. Types'
  BY <1>1, <1>2, <1>4, <1>9, <1>11, TypesKept, NoCallFacts DEF Calls
<1>14. Places'
  BY <1>1, <1>2, <1>11, <1>12
  DEF Places, NoTransfer, NoLocals, Empty, AtOpen, NewTable, Inserting, Trying, Adding, Growing,
      Saving, Opening
<1>15. Disk'
  <2>1. InDoubt' = InDoubt
    BY <1>1, <1>3, <1>11 DEF InDoubt
  <2>2. Clean' = Clean
    BY <1>1 DEF Clean
  <2>3. \A a \in Clean : p # a.page
    BY <1>5, <1>6 DEF p
  <2>4. ~mixed' /\ ~erred' => \A q \in Listed(catalog') : Ready(q) \/ (pc' = "tablePage" /\ q = io'.page)
    BY <1>1, <1>5, <1>8, <1>11
  <2> QED BY <1>1, <1>4, <1>5, <1>9, <1>11, <2>1, <2>2, <2>3, <2>4, DiskKept
<1> QED BY <1>11, <1>13, <1>14, <1>15 DEF CatalogInv

LEMMA InsertRowKeeps ==
    ASSUME CatalogInv, NEW name \in Names, NEW large \in BOOLEAN, InsertRow(name, large)
    PROVE  CatalogInv'
<1> DEFINE s == PagesOf(catalog, name)
<1>1. /\ pc = "idle" /\ name \in TableNames(catalog) /\ inserted < MaxRows /\ inserted' = inserted + 1
      /\ call' = [table |-> name, row |-> inserted + 1, large |-> large, page |-> 0, tried |-> 1]
      /\ StartRead(s[1]) /\ pc' = "tryPage"
      /\ file' = file /\ faults' = faults /\ catalog' = catalog /\ mixed' = mixed
      /\ cut' = cut /\ acked' = acked /\ erred' = erred /\ sessions' = sessions
  BY DEF InsertRow, PagesOf
<1>2. io = NoIo
  BY <1>1 DEF CatalogInv, Places, NoTransfer
<1>3. HalfWritten = {}
  <2>1. io.op # "write"
    BY <1>2 DEF NoIo
  <2> QED BY <2>1, NothingHalfWritten
<1>4. /\ Types /\ Disk /\ cut' \subseteq 0..MaxPage /\ sessions' \in 0..MaxSessions
      /\ inserted \in 0..MaxRows /\ erred' \in BOOLEAN /\ mixed' \in BOOLEAN
      /\ acked' \subseteq [table : Names, row : 1..MaxRows, page : 1..MaxPage, clean : BOOLEAN]
  BY <1>1 DEF CatalogInv, Types, TypeOK
<1>5. /\ file # << >> /\ catalog \in GoodCatalogs
      /\ \A a \in Clean : /\ OnFile(0) # Damaged => Lists(OnFile(0).catalog, a)
                          /\ Lists(catalog, a) /\ RowOn(a.page, a.row)
      /\ ~mixed /\ ~erred => \A q \in Listed(catalog) : Ready(q)
  BY <1>1, CallFacts
<1>6. Len(s) \in Nat /\ Len(s) >= 1 /\ \A k \in 1..Len(s) : s[k] \in 1..MaxPage
  BY <1>1, <1>5, PagesFacts
<1>7. 1 \in 1..Len(s) /\ s[1] \in 0..MaxPage
  <2> HIDE DEF s
  <2>1. 1 \in 1..Len(s)
    BY <1>6
  <2>2. s[1] \in 1..MaxPage
    BY <1>6, <2>1
  <2> QED BY <2>1, <2>2, Constants
<1>8. io' \in Ios /\ io'.op = "read" /\ io'.page = s[1] /\ Transfer' /\ HalfWritten' = {}
  BY <1>1, <1>7, StartReadFacts
<1>9. /\ inserted' \in 0..MaxRows /\ call' \in CallRecords
      /\ call'.row # 0 /\ call'.table = name /\ call'.tried = 1
  <2>1. inserted + 1 \in 0..MaxRows /\ inserted + 1 # 0 /\ 0 \in 0..MaxPage
    BY <1>1, <1>4, Constants
  <2>2. name \in Names \cup {""} /\ 1 \in Nat
    OBVIOUS
  <2>3. [table |-> name, row |-> inserted + 1, large |-> large, page |-> 0, tried |-> 1] \in CallRecords
    BY <2>1, <2>2, Zenon DEF CallRecords
  <2> QED BY <1>1, <2>1, <2>3
<1>10. Types'
  BY <1>1, <1>4, <1>5, <1>8, <1>9, TypesKept DEF Calls
<1>11. Places'
  <2>1. Inserting'
    BY <1>1, <1>9 DEF Inserting, TableNames
  <2>2. Trying'
    <3>1. PagesOf(catalog', call'.table) = s
      BY <1>1, <1>9
    <3> HIDE DEF s
    <3>2. /\ io'.op \in {"read", "failed"}
          /\ call'.tried \in 1..Len(PagesOf(catalog', call'.table))
          /\ io'.page = PagesOf(catalog', call'.table)[call'.tried]
      BY <1>7, <1>8, <1>9, <3>1
    <3> QED BY <3>2 DEF Trying, PagesOf, TableOf
  <2> QED BY <1>1, <2>1, <2>2
      DEF Places, NoTransfer, NoLocals, Empty, AtOpen, NewTable, Adding, Growing, Saving, Opening
<1>12. Disk'
  <2>1. InDoubt' = InDoubt
    BY <1>1, <1>3, <1>8 DEF InDoubt
  <2>2. Clean' = Clean
    BY <1>1 DEF Clean
  <2>3. ~erred' => OnFile(0) # Damaged /\ OnFile(0).catalog = catalog'
    BY <1>1 DEF CatalogInv, Disk, CatalogCurrent
  <2> QED BY <1>1, <1>4, <1>5, <1>8, <2>1, <2>2, <2>3, DiskKept
<1> QED BY <1>8, <1>10, <1>11, <1>12 DEF CatalogInv

\* What insert_row knows of a page of the table that it has read.
LEMMA TriedFacts ==
    ASSUME CatalogInv, pc = "tryPage", HasRead
    PROVE  /\ io.page \in 1..MaxPage /\ PageRead = OnFile(io.page) /\ HalfWritten = {}
           /\ call \in CallRecords /\ call.row \in 1..MaxRows /\ call.tried \in Nat
           /\ call.table \in TableNames(catalog) /\ call.table \in Names
           /\ PagesOf(catalog, call.table) \in Seq(1..MaxPage)
           /\ call.tried \in 1..Len(PagesOf(catalog, call.table))
           /\ Len(PagesOf(catalog, call.table)) \in Nat
           /\ io.page \in Range(PagesOf(catalog, call.table))
           /\ PageRead # Damaged => PageRead.id = io.page /\ PageRead.rows \in Seq(1..MaxRows)
<1>1. Types /\ Transfer /\ catalog \in GoodCatalogs /\ call \in CallRecords
  BY DEF CatalogInv, Types
<1>2. /\ call.row # 0 /\ call.table \in TableNames(catalog)
      /\ call.tried \in 1..Len(PagesOf(catalog, call.table))
      /\ io.page = PagesOf(catalog, call.table)[call.tried]
  BY DEF CatalogInv, Places, Inserting, Trying
<1>3. call.row \in 1..MaxRows /\ call.tried \in Nat
  <2>1. call.row \in 0..MaxRows /\ call.tried \in Nat
    BY <1>1 DEF CallRecords
  <2> QED BY <1>2, <2>1, Constants
<1>4. /\ PagesOf(catalog, call.table) \in Seq(1..MaxPage) /\ Len(PagesOf(catalog, call.table)) \in Nat
      /\ call.table \in Names
      /\ \A k \in 1..Len(PagesOf(catalog, call.table)) :
            /\ PagesOf(catalog, call.table)[k] \in Range(PagesOf(catalog, call.table))
            /\ PagesOf(catalog, call.table)[k] \in 1..MaxPage
  BY <1>1, <1>2, PagesFacts
<1>5. io.page \in Range(PagesOf(catalog, call.table)) /\ io.page \in 1..MaxPage
  BY <1>2, <1>4
<1>6. PageRead = OnFile(io.page)
  BY <1>1, ReadFacts
<1>7. HalfWritten = {}
  BY NothingHalfWritten DEF HasRead
<1>8. PageRead # Damaged => PageRead.id = io.page /\ PageRead.rows \in Seq(1..MaxRows)
  <2>1. io.page \in 0..MaxPage /\ io.page # 0
    BY <1>5, Constants
  <2> QED BY <1>1, <1>6, <2>1, OnFileFacts
<1> QED BY <1>1, <1>2, <1>3, <1>4, <1>5, <1>6, <1>7, <1>8

LEMMA CallChanged ==
    ASSUME NEW c \in CallRecords
    PROVE  /\ \A p \in 0..MaxPage : /\ [c EXCEPT !.page = p] \in CallRecords
                                    /\ [c EXCEPT !.page = p].page = p
                                    /\ [c EXCEPT !.page = p].row = c.row
                                    /\ [c EXCEPT !.page = p].table = c.table
           /\ \A n \in Nat : /\ [c EXCEPT !.tried = n] \in CallRecords
                             /\ [c EXCEPT !.tried = n].tried = n
                             /\ [c EXCEPT !.tried = n].row = c.row
                             /\ [c EXCEPT !.tried = n].table = c.table
  BY DEF CallRecords

LEMMA RowAppended ==
    ASSUME NEW s \in Seq(1..MaxRows), NEW x \in 1..MaxRows
    PROVE  Append(s, x) \in Seq(1..MaxRows) /\ Range(Append(s, x)) = Range(s) \cup {x}
<1>1. Append(s, x) \in Seq(1..MaxRows)
  OBVIOUS
<1> QED BY <1>1, RangeFacts

LEMMA TryPageKeeps ==
    ASSUME CatalogInv, TryPage
    PROVE  CatalogInv'
<1> DEFINE s == PagesOf(catalog, call.table)
           page == PageRead
<1>1. /\ pc = "tryPage" /\ HasRead
      /\ file' = file /\ faults' = faults /\ catalog' = catalog /\ mixed' = mixed
      /\ cut' = cut /\ acked' = acked /\ sessions' = sessions /\ inserted' = inserted
  BY DEF TryPage
<1>2. /\ io.page \in 1..MaxPage /\ page = OnFile(io.page) /\ HalfWritten = {}
      /\ call \in CallRecords /\ call.row \in 1..MaxRows /\ call.tried \in Nat
      /\ call.table \in TableNames(catalog) /\ call.table \in Names
      /\ s \in Seq(1..MaxPage) /\ call.tried \in 1..Len(s) /\ Len(s) \in Nat
      /\ io.page \in Range(s)
      /\ page # Damaged => page.id = io.page /\ page.rows \in Seq(1..MaxRows)
  BY <1>1, TriedFacts
<1>3. /\ Types /\ Disk /\ cut' \subseteq 0..MaxPage /\ sessions' \in 0..MaxSessions
      /\ inserted' \in 0..MaxRows /\ erred \in BOOLEAN /\ mixed' \in BOOLEAN
      /\ acked' \subseteq [table : Names, row : 1..MaxRows, page : 1..MaxPage, clean : BOOLEAN]
  BY <1>1 DEF CatalogInv, Types, TypeOK
<1>4. /\ file # << >> /\ catalog \in GoodCatalogs
      /\ \A a \in Clean : /\ OnFile(0) # Damaged => Lists(OnFile(0).catalog, a)
                          /\ Lists(catalog, a) /\ RowOn(a.page, a.row)
      /\ ~mixed /\ ~erred => \A q \in Listed(catalog) : Ready(q)
  BY <1>1, CallFacts DEF Calls
<1>5. ~erred => OnFile(0) # Damaged /\ OnFile(0).catalog = catalog
  BY <1>1 DEF CatalogInv, Disk, CatalogCurrent
<1>6. Clean' = Clean
  BY <1>1 DEF Clean
<1>7. CASE page = Damaged /\ Fail
  <2>1. Grows(catalog, catalog')
    BY <1>1, <1>4, GrowsSelf
  <2> QED BY <1>1, <1>2, <1>7, <2>1, FailKeeps DEF Calls
<1>8. CASE /\ page # Damaged /\ StartWrite(HeapPage(page.id, Append(page.rows, call.row)))
           /\ pc' = "rowPage" /\ call' = [call EXCEPT !.page = page.id] /\ erred' = erred
  <2> DEFINE p == io.page
             rows == Append(OnFile(p).rows, call.row)
  <2>1. /\ OnFile(p) # Damaged /\ OnFile(p).rows \in Seq(1..MaxRows)
        /\ StartWrite(HeapPage(p, rows)) /\ call' = [call EXCEPT !.page = p]
    BY <1>2, <1>8
  <2>2. /\ rows \in Seq(1..MaxRows) /\ call.row \in Range(rows)
        /\ Range(OnFile(p).rows) \subseteq Range(rows)
    <3>1. rows \in Seq(1..MaxRows) /\ Range(rows) = Range(OnFile(p).rows) \cup {call.row}
      BY <1>2, <2>1, RowAppended
    <3> QED BY <2>1, <3>1
  <2> HIDE DEF rows
  <2>3. /\ HeapPage(p, rows) \in Images /\ HeapPage(p, rows).id = p /\ HeapPage(p, rows).rows = rows
    BY <1>2, <2>2, HeapPageFacts
  <2>4. /\ io' \in Ios /\ io'.op = "write" /\ io'.page = p /\ io'.image = HeapPage(p, rows)
        /\ io'.image.rows = rows /\ Transfer' /\ HalfWritten' = {}
    BY <2>1, <2>3, StartWriteFacts
  <2>5. /\ call' \in CallRecords /\ call'.page = p /\ call'.row = call.row /\ call'.table = call.table
    <3>1. p \in 0..MaxPage
      BY <1>2, Constants
    <3> QED BY <1>2, <2>1, <3>1, CallChanged
  <2>6. Types'
    BY <1>1, <1>3, <1>4, <1>8, <2>4, <2>5, TypesKept DEF Calls
  <2>7. Places'
    <3>1. Inserting'
      <4>1. call'.row # 0 /\ call'.table \in TableNames(catalog')
        BY <1>1, <1>2, <2>5
      <4> QED BY <4>1 DEF Inserting, TableNames
    <3>2. Adding'
      <4>1. call'.page \in Range(PagesOf(catalog', call'.table))
        BY <1>1, <1>2, <2>5
      <4> QED BY <2>2, <2>4, <2>5, <4>1 DEF Adding, PagesOf, TableOf, Range
    <3> QED BY <1>8, <3>1, <3>2
        DEF Places, NoTransfer, NoLocals, Empty, AtOpen, NewTable, Trying, Growing, Saving, Opening
  <2>8. Disk'
    <3>1. InDoubt' = InDoubt
      BY <1>1, <1>2, <2>4 DEF InDoubt
    <3>2. ASSUME NEW a \in Clean, io'.page = a.page PROVE a.row \in Range(io'.image.rows)
      <4>1. RowOn(p, a.row)
        BY <1>4, <2>4, <3>2
      <4>2. a.row \in Range(OnFile(p).rows)
        BY <2>1, <4>1 DEF RowOn
      <4> QED BY <2>2, <2>4, <4>2
    <3> QED BY <1>1, <1>3, <1>4, <1>5, <1>6, <1>8, <3>1, <3>2, DiskKept
  <2> QED BY <2>4, <2>6, <2>7, <2>8 DEF CatalogInv
<1>9. CASE /\ call.tried < Len(s) /\ StartRead(s[call.tried + 1])
           /\ call' = [call EXCEPT !.tried = @ + 1] /\ pc' = pc /\ erred' = erred
  <2> DEFINE n == call.tried + 1
  <2>1. n \in 1..Len(s) /\ n \in Nat
    <3> HIDE DEF s
    <3> QED BY <1>2, <1>9
  <2>2. s[n] \in 0..MaxPage
    <3>1. s[n] \in 1..MaxPage
      BY <1>2, <1>4, <2>1, PagesFacts
    <3> QED BY <3>1, Constants
  <2>3. StartRead(s[n]) /\ call' = [call EXCEPT !.tried = n]
    BY <1>9
  <2> HIDE DEF n
  <2>4. io' \in Ios /\ io'.op = "read" /\ io'.page = s[n] /\ Transfer' /\ HalfWritten' = {}
    BY <2>2, <2>3, StartReadFacts
  <2>5. /\ call' \in CallRecords /\ call'.tried = n /\ call'.row = call.row /\ call'.table = call.table
    BY <1>2, <2>1, <2>3, CallChanged
  <2>6. Types'
    BY <1>1, <1>3, <1>4, <1>9, <2>4, <2>5, TypesKept DEF Calls
  <2>7. Places'
    <3>1. Inserting'
      <4>1. call'.row # 0 /\ call'.table \in TableNames(catalog')
        BY <1>1, <1>2, <2>5
      <4> QED BY <4>1 DEF Inserting, TableNames
    <3>2. Trying'
      <4>1. PagesOf(catalog', call'.table) = s
        BY <1>1, <2>5
      <4> HIDE DEF s
      <4>2. /\ io'.op \in {"read", "failed"}
            /\ call'.tried \in 1..Len(PagesOf(catalog', call'.table))
            /\ io'.page = PagesOf(catalog', call'.table)[call'.tried]
        BY <2>1, <2>4, <2>5, <4>1
      <4> QED BY <4>2 DEF Trying, PagesOf, TableOf
    <3>3. pc' = "tryPage"
      BY <1>1, <1>9
    <3> QED BY <3>1, <3>2, <3>3
        DEF Places, NoTransfer, NoLocals, Empty, AtOpen, NewTable, Adding, Growing, Saving, Opening
  <2>8. Disk'
    <3>1. InDoubt' = InDoubt
      BY <1>1, <1>2, <2>4 DEF InDoubt
    <3> QED BY <1>1, <1>3, <1>4, <1>5, <1>6, <1>9, <2>4, <3>1, DiskKept
  <2> QED BY <2>4, <2>6, <2>7, <2>8 DEF CatalogInv
<1> QED BY <1>7, <1>8, <1>9 DEF TryPage, PagesOf

LEMMA TakePageKeeps ==
    ASSUME CatalogInv, TakePage
    PROVE  CatalogInv'
<1> DEFINE p == catalog.nextPage
<1>1. /\ pc = "tryPage" /\ HasRead
      /\ file' = file /\ faults' = faults /\ mixed' = mixed
      /\ cut' = cut /\ acked' = acked /\ sessions' = sessions /\ inserted' = inserted
  BY DEF TakePage
<1>2. /\ HalfWritten = {} /\ call \in CallRecords /\ call.row \in 1..MaxRows
      /\ call.table \in TableNames(catalog)
  BY <1>1, TriedFacts
<1>3. /\ Types /\ Disk /\ cut' \subseteq 0..MaxPage /\ sessions' \in 0..MaxSessions
      /\ inserted' \in 0..MaxRows /\ erred \in BOOLEAN /\ mixed' \in BOOLEAN
      /\ acked' \subseteq [table : Names, row : 1..MaxRows, page : 1..MaxPage, clean : BOOLEAN]
  BY <1>1 DEF CatalogInv, Types, TypeOK
<1>4. /\ file # << >> /\ catalog \in GoodCatalogs
      /\ \A a \in Clean : /\ OnFile(0) # Damaged => Lists(OnFile(0).catalog, a)
                          /\ Lists(catalog, a) /\ RowOn(a.page, a.row)
                          /\ a.page \in 1..MaxPage /\ a.page < p
      /\ ~mixed /\ ~erred => \A q \in Listed(catalog) : Ready(q)
  BY <1>1, CallFacts DEF Calls
<1>5. Clean' = Clean
  BY <1>1 DEF Clean
<1>6. CASE Fail /\ catalog' = catalog
  <2>1. Grows(catalog, catalog')
    BY <1>4, <1>6, GrowsSelf
  <2> QED BY <1>1, <1>2, <1>6, <2>1, FailKeeps DEF Calls
<1>7. CASE p <= MaxPage /\ catalog' = [catalog EXCEPT !.nextPage = @ + 1]
  <2>1. /\ p \in 1..MaxPage /\ p + 1 \in 1..(MaxPage + 1)
        /\ catalog \in [nextPage : 1..(MaxPage + 1), tables : Seq(TableEntries)]
    <3>1. /\ p \in 1..(MaxPage + 1)
          /\ catalog \in [nextPage : 1..(MaxPage + 1), tables : Seq(TableEntries)]
      BY <1>4, CatalogFacts
    <3> QED BY <1>7, <3>1, Constants
  <2>2. /\ catalog' \in [nextPage : 1..(MaxPage + 1), tables : Seq(TableEntries)]
        /\ catalog'.nextPage = p + 1 /\ catalog'.tables = catalog.tables
    BY <1>7, <2>1
  <2>3. /\ Grows(catalog, catalog') /\ Listed(catalog') = Listed(catalog) /\ p \notin Listed(catalog)
        /\ TableNames(catalog') = TableNames(catalog)
    BY <1>4, <1>7, <2>2, PageTaken
  <2>4. CASE Fail
    BY <1>1, <1>2, <2>3, <2>4, FailKeeps DEF Calls
  <2>5. CASE /\ StartWrite(HeapPage(p, <<call.row>>)) /\ pc' = "newPage"
             /\ call' = [call EXCEPT !.page = p] /\ erred' = erred
    <3> HIDE DEF p
    <3>1. HeapPage(p, <<call.row>>) \in Images /\ HeapPage(p, <<call.row>>).id = p
      <4>1. <<call.row>> \in Seq(1..MaxRows)
        BY <1>2
      <4> QED BY <2>1, <4>1, HeapPageFacts
    <3>2. /\ io' \in Ios /\ io'.op = "write" /\ io'.page = p /\ io'.image = HeapPage(p, <<call.row>>)
          /\ Transfer' /\ HalfWritten' = {}
      BY <2>5, <3>1, StartWriteFacts
    <3>3. /\ call' \in CallRecords /\ call'.page = p /\ call'.row = call.row /\ call'.table = call.table
      <4>1. p \in 0..MaxPage
        BY <2>1, Constants
      <4> QED BY <1>2, <2>5, <4>1, CallChanged
    <3>4. catalog' \in GoodCatalogs /\ \A a \in Clean : Lists(catalog', a)
      BY <1>4, <2>3, GrowsFacts
    <3>5. Types'
      BY <1>1, <1>3, <2>5, <3>2, <3>3, <3>4, TypesKept DEF Calls
    <3>6. Places'
      <4>1. Inserting'
        <5>1. call'.row # 0 /\ call'.table \in TableNames(catalog')
          BY <1>2, <2>3, <3>3
        <5> QED BY <5>1 DEF Inserting, TableNames
      <4>2. Growing'
        <5>1. p = catalog'.nextPage - 1 /\ p # 0
          BY <2>1, <2>2
        <5>2. \A t \in Range(catalog'.tables) : p \notin Range(t.pages)
          BY <2>3 DEF Listed
        <5>3. io'.image = HeapPage(call'.page, <<call'.row>>)
          BY <3>2, <3>3
        <5> QED BY <3>2, <3>3, <5>1, <5>2, <5>3 DEF Growing, Range, HeapPage, EmptyCatalog
      <4> QED BY <2>5, <4>1, <4>2
          DEF Places, NoTransfer, NoLocals, Empty, AtOpen, NewTable, Trying, Adding, Saving, Opening
    <3>7. Disk'
      <4>1. InDoubt' = InDoubt
        BY <1>1, <1>2, <3>2 DEF InDoubt
      <4>2. \A a \in Clean : p # a.page
        BY <1>4, <2>1 DEF p
      <4> QED BY <1>1, <1>3, <1>4, <1>5, <2>3, <2>5, <3>2, <3>4, <4>1, <4>2, DiskKept
    <3> QED BY <3>2, <3>5, <3>6, <3>7 DEF CatalogInv
  <2> QED BY <1>6, <1>7, <2>4, <2>5 DEF TakePage
<1> QED BY <1>6, <1>7 DEF TakePage

\* The heap page is written, and the catalog is saved.
LEMMA StartSaveKeeps ==
    ASSUME CatalogInv, pc \in {"tablePage", "newPage"}, Written, StartSave(catalog'),
           UNCHANGED <<file, faults, cut, inserted, acked, sessions>>,
           Grows(catalog, catalog'), io.image.type = "heap",
           \A p \in Listed(catalog') : p \in Listed(catalog) \/ p = io.page,
           call.row # 0 =>
              /\ call.table \in TableNames(catalog')
              /\ call.page \in Range(PagesOf(catalog', call.table))
              /\ RowOn(call.page, call.row)
    PROVE  CatalogInv'
<1>1. /\ file' = file /\ faults' = faults /\ cut' = cut /\ acked' = acked /\ sessions' = sessions
      /\ inserted' = inserted
  OBVIOUS
<1>2. HalfWritten = {}
  BY NothingHalfWritten DEF Written
<1>3. /\ Types /\ Transfer /\ Disk /\ cut' \subseteq 0..MaxPage /\ sessions' \in 0..MaxSessions
      /\ inserted' \in 0..MaxRows /\ erred \in BOOLEAN /\ mixed \in BOOLEAN
      /\ acked' \subseteq [table : Names, row : 1..MaxRows, page : 1..MaxPage, clean : BOOLEAN]
  BY <1>1 DEF CatalogInv, Types, TypeOK
<1>4. /\ file # << >> /\ catalog \in GoodCatalogs /\ call \in CallRecords
      /\ \A a \in Clean : /\ OnFile(0) # Damaged => Lists(OnFile(0).catalog, a)
                          /\ Lists(catalog, a) /\ RowOn(a.page, a.row)
                          /\ a.page \in 1..MaxPage
      /\ ~mixed /\ ~erred =>
            \A p \in Listed(catalog) : Ready(p) \/ (pc = "tablePage" /\ p = io.page)
  BY CallFacts DEF Calls
<1>5. Clean' = Clean
  BY <1>1 DEF Clean
<1>6. catalog' \in GoodCatalogs /\ \A a \in Clean : Lists(catalog', a)
  BY <1>4, GrowsFacts
<1>7. Ready(io.page)
  BY <1>3, WrittenFacts DEF Ready
<1>8. ~mixed /\ ~erred => \A p \in Listed(catalog') : Ready(p)
  BY <1>4, <1>7
<1>9. CASE Fail /\ mixed' = mixed
  BY <1>1, <1>2, <1>9, FailKeeps DEF Calls
<1>10. CASE /\ StartWrite(CatalogPage(catalog')) /\ pc' = "save" /\ mixed' = (mixed \/ erred)
            /\ call' = call /\ erred' = erred
  <2>1. CatalogPage(catalog') \in Images /\ CatalogPage(catalog').id = 0
    BY <1>6, CatalogPageFacts
  <2>2. /\ io' \in Ios /\ io'.op = "write" /\ io'.page = 0 /\ io'.image = CatalogPage(catalog')
        /\ Transfer' /\ HalfWritten' = {}
    BY <1>10, <2>1, StartWriteFacts
  <2>3. Types'
    BY <1>1, <1>3, <1>4, <1>6, <1>10, <2>2, TypesKept DEF Calls
  <2>4. Places'
    <3>1. Saving'
      <4>1. call'.row # 0 => /\ call'.table \in TableNames(catalog')
                             /\ call'.page \in Range(PagesOf(catalog', call'.table))
        BY <1>10
      <4>2. erred' => mixed'
        BY <1>10
      <4> QED BY <2>2, <4>1, <4>2 DEF Saving, TableNames, PagesOf, TableOf, Range, CatalogPage
    <3> QED BY <1>10, <3>1
        DEF Places, NoTransfer, NoLocals, Empty, AtOpen, NewTable, Inserting, Trying, Adding, Growing, Opening
  <2>5. Disk'
    <3>1. InDoubt' = InDoubt
      BY <1>1, <1>2, <2>2 DEF InDoubt
    <3>2. \A a \in Clean : a.page # 0
      BY <1>4
    <3>3. (mixed => mixed') /\ (~mixed' => ~mixed /\ ~erred)
      BY <1>10
    <3>4. pc' = "save" /\ call'.row # 0 => RowOn(call'.page, call'.row)
      BY <1>10
    <3>5. pc' \notin {"closed", "bootstrap", "idle", "tryPage", "rowPage"} /\ pc' # "tablePage"
      BY <1>10
    <3> QED BY <1>1, <1>3, <1>4, <1>5, <1>6, <1>8, <2>2, <3>1, <3>2, <3>3, <3>4, <3>5, DiskKept
  <2> QED BY <2>2, <2>3, <2>4, <2>5 DEF CatalogInv
<1> QED BY <1>9, <1>10 DEF StartSave

LEMMA TablePageWrittenKeeps ==
    ASSUME CatalogInv, TablePageWritten
    PROVE  CatalogInv'
<1>1. pc = "tablePage" /\ Written /\ catalog' = catalog /\ StartSave(catalog')
  BY DEF TablePageWritten
<1>2. call.row = 0 /\ io.image = HeapPage(io.page, << >>) /\ catalog \in GoodCatalogs
  BY <1>1, NoCallFacts DEF CatalogInv, Types, Places, NoLocals, NewTable
<1>3. io.image.type = "heap" /\ Grows(catalog, catalog')
  BY <1>1, <1>2, GrowsSelf DEF HeapPage
<1>4. \A p \in Listed(catalog') : p \in Listed(catalog)
  BY <1>1
<1> QED BY <1>1, <1>2, <1>3, <1>4, StartSaveKeeps DEF TablePageWritten

LEMMA NewPageWrittenKeeps ==
    ASSUME CatalogInv, NewPageWritten
    PROVE  CatalogInv'
<1> DEFINE p == call.page
           n == Len(catalog.tables)
<1>1. /\ pc = "newPage" /\ Written /\ StartSave(catalog')
      /\ catalog' = [catalog EXCEPT !.tables = [i \in DOMAIN catalog.tables |->
                       AppendedEntry(catalog.tables[i], call.table, p)]]
      /\ UNCHANGED <<file, faults, cut, inserted, acked, sessions>>
  BY DEF NewPageWritten, AppendedEntry
<1>2. /\ io.page = p /\ p = catalog.nextPage - 1 /\ p # 0 /\ io.image = HeapPage(p, <<call.row>>)
      /\ call.row # 0 /\ call.table \in TableNames(catalog)
      /\ \A t \in Range(catalog.tables) : p \notin Range(t.pages)
  BY <1>1 DEF CatalogInv, Places, Inserting, Growing
<1>3. Types /\ Transfer /\ catalog \in GoodCatalogs /\ call \in CallRecords
  BY DEF CatalogInv, Types
<1>4. p \notin Listed(catalog)
  BY <1>2 DEF Listed
<1>5. /\ catalog.nextPage \in 1..(MaxPage + 1) /\ n \in Nat /\ DOMAIN catalog.tables = 1..n
      /\ catalog \in [nextPage : 1..(MaxPage + 1), tables : Seq(TableEntries)]
      /\ \A i \in 1..n : catalog.tables[i] \in TableEntries /\ catalog.tables[i].pages # << >>
  BY <1>3, CatalogFacts
<1>6. p \in 1..MaxPage /\ p < catalog.nextPage
  BY <1>2, <1>5, Constants
<1> DEFINE T == [i \in 1..n |-> AppendedEntry(catalog.tables[i], call.table, p)]
<1>7. T \in Seq(TableEntries) /\ DOMAIN T = 1..n
  <2>1. \A i \in 1..n : AppendedEntry(catalog.tables[i], call.table, p) \in TableEntries
    BY <1>5, <1>6, EntryAppended
  <2> HIDE DEF n
  <2> QED BY <1>5, <2>1
<1>8. catalog' = [catalog EXCEPT !.tables = T]
  BY <1>1, <1>5
<1>9. \A i \in DOMAIN catalog.tables : T[i] = AppendedEntry(catalog.tables[i], call.table, p)
  BY <1>5
<1> HIDE DEF T
<1>10. /\ catalog' \in [nextPage : 1..(MaxPage + 1), tables : Seq(TableEntries)]
       /\ catalog'.nextPage = catalog.nextPage /\ catalog'.tables = T
  BY <1>5, <1>7, <1>8
<1>11. /\ Grows(catalog, catalog') /\ Listed(catalog') = Listed(catalog) \cup {p}
       /\ call.table \in TableNames(catalog') /\ p \in Range(PagesOf(catalog', call.table))
  <2>1. DOMAIN catalog'.tables = DOMAIN catalog.tables
    BY <1>5, <1>7, <1>10
  <2>2. \A i \in DOMAIN catalog.tables :
           catalog'.tables[i] = AppendedEntry(catalog.tables[i], call.table, p)
    BY <1>9, <1>10
  <2> QED BY <1>2, <1>3, <1>4, <1>6, <1>10, <2>1, <2>2, PageAppended
<1>12. io.image.type = "heap" /\ io.image.rows = <<call.row>>
  BY <1>2 DEF HeapPage
<1>13. RowOn(p, call.row)
  <2>1. OnFile(p) = io.image /\ io.image # Damaged
    BY <1>1, <1>2, <1>3, WrittenFacts
  <2>2. call.row \in Range(<<call.row>>)
    BY DEF Range
  <2> QED BY <1>12, <2>1, <2>2 DEF RowOn, Ready
<1> QED BY <1>1, <1>2, <1>11, <1>12, <1>13, StartSaveKeeps

-----------------------------------------------------------------------------
(* The turns of the read and the write loop. *)

LEMMA PlacesKept ==
    ASSUME Places, UNCHANGED storeVars, io.op \in {"read", "write"} \/ io' = io,
           io'.op \in {io.op, "failed"}, io'.page = io.page, io'.image = io.image
    PROVE  Places'
<1>1. /\ catalog' = catalog /\ pc' = pc /\ call' = call /\ erred' = erred /\ acked' = acked
      /\ mixed' = mixed
  BY DEF storeVars
<1>2. NoTransfer'
  <2>1. io = NoIo => io' = io
    BY DEF NoIo
  <2> QED BY <1>1, <2>1 DEF Places, NoTransfer
<1>3. NoLocals' /\ Empty'
  BY <1>1 DEF Places, NoLocals, Empty
<1>4. AtOpen' /\ NewTable'
  BY <1>1 DEF Places, AtOpen, NewTable, CatalogPage, HeapPage
<1>5. Inserting' /\ Trying'
  <2>1. Inserting'
    BY <1>1 DEF Places, Inserting, TableNames
  <2>2. pc = "tryPage" =>
            /\ io'.op \in {"read", "failed"}
            /\ call.tried \in 1..Len(PagesOf(catalog, call.table))
            /\ io'.page = PagesOf(catalog, call.table)[call.tried]
    BY DEF Places, Trying
  <2>3. Trying'
    BY <1>1, <2>2 DEF Trying, PagesOf, TableOf
  <2> QED BY <2>1, <2>3
<1>6. Adding'
  <2>1. pc = "rowPage" =>
            /\ io'.op \in {"write", "failed"}
            /\ io'.page = call.page /\ call.page \in Range(PagesOf(catalog, call.table))
            /\ io'.image = HeapPage(call.page, io'.image.rows) /\ call.row \in Range(io'.image.rows)
    BY DEF Places, Adding
  <2>2. pc' = "rowPage" =>
            /\ io'.op \in {"write", "failed"}
            /\ io'.page = call'.page /\ call'.page \in Range(PagesOf(catalog', call'.table))
            /\ io'.image = HeapPage(call'.page, io'.image.rows) /\ call'.row \in Range(io'.image.rows)
    BY <1>1, <2>1
  <2> QED BY <2>2 DEF Adding, HeapPage, PagesOf, TableOf, Range
<1>7. Growing'
  BY <1>1 DEF Places, Growing, HeapPage, Range
<1>8. Saving'
  <2>1. pc = "save" =>
            /\ io'.op \in {"write", "failed"} /\ io'.image = CatalogPage(catalog) /\ (erred => mixed)
            /\ call.row # 0 =>
                  call.table \in TableNames(catalog) /\ call.page \in Range(PagesOf(catalog, call.table))
    BY DEF Places, Saving
  <2>2. pc' = "save" =>
            /\ io'.op \in {"write", "failed"} /\ io'.image = CatalogPage(catalog') /\ (erred' => mixed')
            /\ call'.row # 0 => /\ call'.table \in TableNames(catalog')
                                /\ call'.page \in Range(PagesOf(catalog', call'.table))
    BY <1>1, <2>1
  <2> QED BY <2>2 DEF Saving, CatalogPage, TableNames, PagesOf, TableOf, Range
<1> QED BY <1>2, <1>3, <1>4, <1>5, <1>6, <1>7, <1>8 DEF Places

LEMMA DiskUnwritten ==
    ASSUME Disk, file' = file, InDoubt' = InDoubt, UNCHANGED storeVars,
           io'.page = io.page, io'.op # "write" \/ io' = io
    PROVE  Disk'
<1>1. /\ catalog' = catalog /\ pc' = pc /\ call' = call /\ erred' = erred /\ acked' = acked
      /\ mixed' = mixed /\ Clean' = Clean
  BY DEF storeVars, Clean
<1>2. /\ file = << >> => pc' \in {"closed", "bootstrap"} /\ acked' = {}
      /\ ~mixed' /\ ~erred' =>
             \A p \in Listed(catalog') : Ready(p) \/ (pc' = "tablePage" /\ p = io'.page)
  BY <1>1 DEF Disk, CatalogOnFile, ListedReady
<1>3. \A a \in Clean' : /\ OnFile(0) # Damaged => Lists(OnFile(0).catalog, a)
                        /\ pc' \notin {"closed"} \cup Opening => Lists(catalog', a)
                        /\ RowOn(a.page, a.row)
                        /\ io'.op = "write" /\ io'.page = a.page => a.row \in Range(io'.image.rows)
  BY <1>1 DEF Disk, AckedListed, AckedKept
<1>4. /\ ~erred' /\ pc' \in {"idle", "tryPage", "rowPage"} =>
             OnFile(0) # Damaged /\ OnFile(0).catalog = catalog'
      /\ pc' = "save" /\ call'.row # 0 => RowOn(call'.page, call'.row)
  BY <1>1 DEF Disk, CatalogCurrent, SavedRow
<1> QED BY <1>1, <1>2, <1>3, <1>4, DiskKept

LEMMA IoFailsKeeps ==
    ASSUME CatalogInv, IoFails, UNCHANGED storeVars
    PROVE  CatalogInv'
<1>1. /\ io.op \in {"read", "write"} /\ faults < MaxFaults /\ faults' = faults + 1
      /\ io' = [io EXCEPT !.op = "failed"] /\ cut' = cut \cup HalfWritten /\ file' = file
      /\ catalog' = catalog /\ pc' = pc /\ call' = call /\ erred' = erred /\ acked' = acked
      /\ mixed' = mixed /\ inserted' = inserted /\ sessions' = sessions
  BY DEF IoFails, storeVars
<1>2. Types /\ Places /\ Disk /\ io \in Ios
  BY DEF CatalogInv, Types
<1>3. io' \in Ios /\ io'.op = "failed" /\ io'.page = io.page /\ io'.image = io.image
  BY <1>1, <1>2 DEF Ios
<1>4. Transfer' /\ HalfWritten' = {}
  BY <1>3 DEF Transfer, HalfWritten
<1>5. HalfWritten \subseteq 0..MaxPage
  BY <1>2 DEF HalfWritten, Ios
<1>6. Types'
  <2>1. faults' \in 0..MaxFaults /\ cut' \subseteq 0..MaxPage
    BY <1>1, <1>2, <1>5, Constants, SMTT(30) DEF Types, TypeOK
  <2>2. io'.done \in 0..BlocksPerPage
    BY <1>3 DEF Ios
  <2> QED BY <1>1, <1>2, <1>3, <2>1, <2>2 DEF Types, TypeOK
<1>7. Places'
  BY <1>1, <1>2, <1>3, PlacesKept
<1>8. InDoubt' = InDoubt
  BY <1>1, <1>4 DEF InDoubt
<1>9. Disk'
  BY <1>1, <1>2, <1>3, <1>8, DiskUnwritten
<1> QED BY <1>4, <1>6, <1>7, <1>9 DEF CatalogInv

\* What read_at may give.
LEMMA AvailableFacts ==
    ASSUME Types, io.op = "read"
    PROVE  /\ Available \in Seq(FileBlocks) /\ Len(Available) \in Nat
           /\ io.done + Len(Available) <= BlocksPerPage
           /\ \A k \in 1..Len(Available) :
                 /\ PageOffset(io.page) + io.done + k <= Len(file)
                 /\ Available[k] = file[PageOffset(io.page) + io.done + k]
<1> DEFINE B == BlocksPerPage
           o == PageOffset(io.page)
           d == io.done
           L == Len(file)
           e == IF o + B <= L THEN o + B ELSE L
           s == SubSeq(file, o + d + 1, e)
<1>1. file \in Seq(FileBlocks) /\ L \in Nat /\ io.page \in Nat /\ d \in 0..B
  <2>1. file \in Seq(FileBlocks) /\ io.page \in 0..MaxPage /\ d \in 0..B
    BY DEF Types, Ios
  <2> QED BY <2>1, Constants
<1>2. o \in Nat /\ B \in Nat /\ d \in Nat /\ d <= B
  <2>1. o \in Nat /\ B \in Nat
    BY <1>1, Constants, Offsets
  <2> HIDE DEF d, B
  <2> QED BY <1>1, <2>1
<1>3. Available = s
  BY DEF Available
<1> HIDE DEF o, B, d
<1>4. e \in Nat /\ e <= L /\ e <= o + B
  BY <1>1, <1>2
<1> HIDE DEF e
<1>5. /\ s \in Seq(FileBlocks)
      /\ Len(s) = IF o + d + 1 <= e THEN (e - (o + d + 1)) + 1 ELSE 0
      /\ \A k \in 1..Len(s) : s[k] = file[(o + d + 1 + k) - 1]
  BY <1>1, <1>2, <1>4
<1>6. Len(s) \in Nat /\ d + Len(s) <= B
  <2> HIDE DEF s
  <2> QED BY <1>1, <1>2, <1>4, <1>5
<1>7. ASSUME NEW k \in 1..Len(s) PROVE o + d + k <= L /\ s[k] = file[o + d + k]
  <2> HIDE DEF s
  <2>1. (o + d + 1 + k) - 1 = o + d + k
    BY <1>2, <1>6
  <2>2. o + d + k <= L
    BY <1>1, <1>2, <1>4, <1>5, <1>6
  <2> QED BY <1>5, <2>1, <2>2
<1> QED BY <1>3, <1>5, <1>6, <1>7 DEF o, B, d

LEMMA ConcatFacts ==
    ASSUME NEW s \in Seq(FileBlocks), NEW t \in Seq(FileBlocks)
    PROVE  /\ s \o t \in Seq(FileBlocks) /\ Len(s \o t) = Len(s) + Len(t)
           /\ \A k \in 1..(Len(s) + Len(t)) : (s \o t)[k] = IF k <= Len(s) THEN s[k] ELSE t[k - Len(s)]
  OBVIOUS

\* What has been read, and n blocks more.
LEMMA ReadMore ==
    ASSUME Types, Transfer, io.op = "read", NEW n \in 1..Len(Available),
           NEW g, g = io.got \o SubSeq(Available, 1, n)
    PROVE  /\ g \in Seq(FileBlocks) /\ Len(g) = io.done + n
           /\ io.done + n \in 0..BlocksPerPage
           /\ \A k \in 1..(io.done + n) : /\ PageOffset(io.page) + k <= Len(file)
                                          /\ file[PageOffset(io.page) + k] = g[k]
<1> DEFINE B == BlocksPerPage
           o == PageOffset(io.page)
           d == io.done
           s == io.got
           v == Available
           t == SubSeq(v, 1, n)
<1>1. /\ v \in Seq(FileBlocks) /\ Len(v) \in Nat /\ d + Len(v) <= B
      /\ \A k \in 1..Len(v) : o + d + k <= Len(file) /\ v[k] = file[o + d + k]
  BY AvailableFacts
<1>2. s \in Seq(FileBlocks) /\ d \in 0..B /\ io.page \in 0..MaxPage
  BY DEF Types, Ios
<1>3. Len(s) = d /\ \A k \in 1..d : o + k <= Len(file) /\ file[o + k] = s[k]
  BY DEF Transfer
<1>4. o \in Nat /\ B \in Nat
  <2>1. io.page \in Nat
    BY <1>2, Constants
  <2> QED BY <2>1, Constants, Offsets
<1> HIDE DEF o, B, d, s, v
<1>5. d \in Nat /\ n \in Nat /\ n >= 1 /\ n <= Len(v) /\ d + n \in 0..B
  BY <1>1, <1>2, <1>4 DEF v
<1>6. t \in Seq(FileBlocks) /\ Len(t) = n /\ \A k \in 1..n : t[k] = v[k]
  BY <1>1, <1>5
<1> HIDE DEF t
<1>7. g = s \o t
  BY DEF s, t, v
<1>8. /\ g \in Seq(FileBlocks) /\ Len(g) = d + n
      /\ \A k \in 1..(d + n) : g[k] = IF k <= d THEN s[k] ELSE t[k - d]
  <2>1. /\ s \o t \in Seq(FileBlocks) /\ Len(s \o t) = Len(s) + Len(t)
        /\ \A k \in 1..(Len(s) + Len(t)) : (s \o t)[k] = IF k <= Len(s) THEN s[k] ELSE t[k - Len(s)]
    BY <1>2, <1>6, ConcatFacts
  <2> QED BY <1>3, <1>6, <1>7, <2>1
<1>9. ASSUME NEW k \in 1..(d + n) PROVE o + k <= Len(file) /\ file[o + k] = g[k]
  <2>1. CASE k <= d
    <3>1. k \in 1..d
      BY <1>5, <2>1
    <3> QED BY <1>3, <1>8, <2>1, <3>1
  <2>2. CASE ~(k <= d)
    <3>1. k - d \in 1..n /\ k - d \in 1..Len(v) /\ o + d + (k - d) = o + k
      BY <1>1, <1>4, <1>5, <2>2
    <3>2. g[k] = v[k - d]
      BY <1>6, <1>8, <2>2, <3>1
    <3>3. o + k <= Len(file) /\ v[k - d] = file[o + k]
      BY <1>1, <3>1
    <3> QED BY <3>2, <3>3
  <2> QED BY <2>1, <2>2
<1> QED BY <1>5, <1>8, <1>9 DEF o, B, d

LEMMA ReadSomeKeeps ==
    ASSUME CatalogInv, ReadSome, UNCHANGED storeVars
    PROVE  CatalogInv'
<1>1. /\ io.op = "read" /\ file' = file /\ faults' = faults /\ cut' = cut
      /\ catalog' = catalog /\ pc' = pc /\ call' = call /\ erred' = erred /\ acked' = acked
      /\ mixed' = mixed /\ inserted' = inserted /\ sessions' = sessions
  BY DEF ReadSome, storeVars
<1>2. Types /\ Transfer /\ Places /\ Disk /\ io \in Ios
  BY DEF CatalogInv, Types
<1>3. /\ io' \in Ios /\ io'.op \in {"read", "failed"} /\ io'.page = io.page /\ io'.image = io.image
      /\ Transfer'
  <2>1. CASE io' = [io EXCEPT !.op = "failed"]
    <3>1. io' \in Ios /\ io'.op = "failed" /\ io'.page = io.page /\ io'.image = io.image
      BY <1>2, <2>1 DEF Ios
    <3>2. Transfer'
      BY <3>1 DEF Transfer
    <3> QED BY <3>1, <3>2
  <2>2. ASSUME NEW n \in 1..Len(Available),
               io' = [io EXCEPT !.got = @ \o SubSeq(Available, 1, n), !.done = @ + n]
        PROVE  /\ io' \in Ios /\ io'.op = "read" /\ io'.page = io.page /\ io'.image = io.image
               /\ Transfer'
    <3> DEFINE g == io.got \o SubSeq(Available, 1, n)
               m == io.done + n
    <3>1. /\ g \in Seq(FileBlocks) /\ Len(g) = m /\ m \in 0..BlocksPerPage
          /\ \A k \in 1..m : /\ PageOffset(io.page) + k <= Len(file)
                             /\ file[PageOffset(io.page) + k] = g[k]
      BY <1>1, <1>2, ReadMore
    <3>2. io' = [io EXCEPT !.got = g, !.done = m]
      BY <2>2
    <3> HIDE DEF g, m
    <3>3. /\ io' \in Ios /\ io'.op = "read" /\ io'.page = io.page /\ io'.image = io.image
          /\ io'.done = m /\ io'.got = g
      BY <1>1, <1>2, <3>1, <3>2 DEF Ios
    <3>4. Transfer'
      <4>1. /\ Len(io'.got) = io'.done
            /\ \A k \in 1..io'.done : /\ PageOffset(io'.page) + k <= Len(file')
                                      /\ file'[PageOffset(io'.page) + k] = io'.got[k]
        BY <1>1, <3>1, <3>3
      <4> QED BY <3>3, <4>1 DEF Transfer, PageOffset
    <3> QED BY <3>3, <3>4
  <2> QED BY <2>1, <2>2 DEF ReadSome
<1>4. Types'
  <2>1. /\ cut' \subseteq 0..MaxPage /\ pc' \in {"closed", "idle"} \cup Opening \cup Calls
        /\ catalog' \in GoodCatalogs /\ call' \in CallRecords
        /\ inserted' \in 0..MaxRows /\ sessions' \in 0..MaxSessions
        /\ acked' \subseteq [table : Names, row : 1..MaxRows, page : 1..MaxPage, clean : BOOLEAN]
        /\ erred' \in BOOLEAN /\ mixed' \in BOOLEAN
    BY <1>1, <1>2 DEF Types, TypeOK
  <2> QED BY <1>1, <1>2, <1>3, <2>1, TypesKept
<1>5. Places'
  BY <1>1, <1>2, <1>3, PlacesKept
<1>6. Disk'
  <2>1. HalfWritten = {} /\ HalfWritten' = {}
    BY <1>1, <1>3 DEF HalfWritten
  <2>2. InDoubt' = InDoubt /\ io'.op # "write"
    BY <1>1, <1>3, <2>1 DEF InDoubt
  <2> QED BY <1>1, <1>2, <1>3, <2>2, DiskUnwritten
<1> QED BY <1>3, <1>4, <1>5, <1>6 DEF CatalogInv

\* One turn of the write loop puts the page that is written in doubt, or on file.
LEMMA WriteDisk ==
    ASSUME CatalogInv, WriteSome, NEW p, p = io.page
    PROVE  /\ OnFile(p)' \in {Damaged, io.image} /\ (OnFile(p)' = io.image \/ p \in InDoubt')
           /\ \A q \in Nat : q # p => OnFile(q)' = OnFile(q) /\ (q \in InDoubt' <=> q \in InDoubt)
           /\ \A q \in 1..MaxPage : Ready(q) \/ q = p => Ready(q)'
           /\ \A q \in 1..MaxPage : \A row : q # p => (RowOn(q, row)' <=> RowOn(q, row))
<1>1. Types /\ Transfer
  BY DEF CatalogInv
<1>2. /\ p \in 0..MaxPage /\ io.op = "write" /\ io.image \in Images /\ io.image.id = p
      /\ io' = [io EXCEPT !.done = io'.done] /\ io'.done \in 1..BlocksPerPage
      /\ cut' = (IF io'.done = BlocksPerPage THEN cut \ {p} ELSE cut)
      /\ \A q \in Nat : q # p => PageIn(file', q) = PageIn(file, q)
      /\ PageIn(file', p) \in {Damaged, io.image}
      /\ io'.done = BlocksPerPage => PageIn(file', p) = io.image
  BY <1>1, WriteFacts
<1>3. io'.op = "write" /\ io'.page = p
  BY <1>1, <1>2 DEF Types, Ios
<1>4. \A q : OnFile(q)' = PageIn(file', q)
  BY DEF OnFile
<1>5. OnFile(p)' = io.image \/ p \in InDoubt'
  <2>1. CASE io'.done = BlocksPerPage
    BY <1>2, <1>4, <2>1
  <2>2. CASE io'.done # BlocksPerPage
    <3>1. io'.done \in 1..(BlocksPerPage - 1)
      BY <1>2, <2>2, Constants
    <3> QED BY <1>3, <3>1 DEF InDoubt, HalfWritten
  <2> QED BY <2>1, <2>2
<1>6. ASSUME NEW q \in Nat, q # p
      PROVE  OnFile(q)' = OnFile(q) /\ (q \in InDoubt' <=> q \in InDoubt)
  <2>1. OnFile(q)' = OnFile(q)
    BY <1>2, <1>4, <1>6 DEF OnFile
  <2>2. q \notin HalfWritten /\ q \notin HalfWritten'
    BY <1>3, <1>6 DEF HalfWritten
  <2>3. q \in cut' <=> q \in cut
    BY <1>2, <1>6
  <2> QED BY <2>1, <2>2, <2>3 DEF InDoubt
<1>7. ASSUME NEW q \in 1..MaxPage, Ready(q) \/ q = p PROVE Ready(q)'
  <2>1. CASE q # p
    <3>1. q \in Nat
      BY Constants
    <3> QED BY <1>6, <1>7, <2>1, <3>1 DEF Ready
  <2>2. CASE q = p
    <3>1. io.image # Damaged /\ io.image.type = "heap"
      <4>1. io.image.id # 0
        BY <1>2, <2>2, Constants
      <4> QED BY <1>2, <4>1, ImageFacts
    <3> QED BY <1>5, <2>2, <3>1 DEF Ready
  <2> QED BY <2>1, <2>2
<1>8. ASSUME NEW q \in 1..MaxPage, NEW row, q # p PROVE RowOn(q, row)' <=> RowOn(q, row)
  <2>1. q \in Nat
    BY Constants
  <2> QED BY <1>6, <1>8, <2>1 DEF RowOn, Ready
<1> QED BY <1>2, <1>4, <1>5, <1>6, <1>7, <1>8

\* Where the program is when it writes page 0, and when it writes another.
LEMMA WritingFacts ==
    ASSUME CatalogInv, io.op = "write"
    PROVE  /\ pc \in {"bootstrap", "tablePage", "rowPage", "newPage", "save"}
           /\ io.page = 0 => \/ pc = "bootstrap" /\ io.image.catalog = EmptyCatalog /\ acked = {}
                             \/ pc = "save" /\ io.image.catalog = catalog
           /\ pc \in {"bootstrap", "save"} => io.page = 0
<1>1. /\ Types /\ Transfer /\ Places /\ catalog \in GoodCatalogs
      /\ pc \in {"closed", "idle"} \cup Opening \cup Calls
  BY DEF CatalogInv, Types, TypeOK
<1>2. pc \in {"bootstrap", "tablePage", "rowPage", "newPage", "save"}
  <2>1. NoIo.op # "write"
    BY DEF NoIo
  <2> QED BY <1>1, <2>1 DEF Places, NoTransfer, AtOpen, Trying, Opening, Calls
<1>3. io.page = io.image.id
  BY <1>1 DEF Transfer
<1>4. CASE pc = "bootstrap"
  <2>1. io.image = CatalogPage(EmptyCatalog) /\ acked = {}
    BY <1>1, <1>4 DEF Places, AtOpen
  <2> QED BY <1>2, <1>3, <1>4, <2>1 DEF CatalogPage
<1>5. CASE pc = "save"
  <2>1. io.image = CatalogPage(catalog)
    BY <1>1, <1>5 DEF Places, Saving
  <2> QED BY <1>2, <1>3, <1>5, <2>1 DEF CatalogPage
<1>6. CASE pc = "tablePage"
  <2>1. io.page # 0
    BY <1>1, <1>6 DEF Places, NewTable
  <2> QED BY <1>6, <2>1
<1>7. CASE pc = "newPage"
  <2>1. io.page # 0
    BY <1>1, <1>7 DEF Places, Growing
  <2> QED BY <1>7, <2>1
<1>8. CASE pc = "rowPage"
  <2>1. /\ call.table \in TableNames(catalog) /\ io.page \in Range(PagesOf(catalog, call.table))
    BY <1>1, <1>8 DEF Places, Inserting, Adding
  <2>2. io.page \in Listed(catalog)
    BY <1>1, <2>1, PagesFacts
  <2>3. io.page \in 1..MaxPage
    BY <1>1, <2>2, CatalogFacts
  <2>4. io.page # 0
    BY <2>3, Constants
  <2> QED BY <1>8, <2>4
<1> QED BY <1>2, <1>4, <1>5, <1>6, <1>7, <1>8

LEMMA WriteSomeKeeps ==
    ASSUME CatalogInv, WriteSome, UNCHANGED storeVars
    PROVE  CatalogInv'
<1>1. /\ catalog' = catalog /\ pc' = pc /\ call' = call /\ erred' = erred /\ acked' = acked
      /\ mixed' = mixed /\ inserted' = inserted /\ sessions' = sessions /\ Clean' = Clean
  BY DEF storeVars, Clean
<1>2. Types /\ Transfer /\ Places /\ Disk /\ io \in Ios /\ catalog \in GoodCatalogs
  BY DEF CatalogInv, Types
<1>3. PICK p : p = io.page
  OBVIOUS
<1>4. /\ p \in 0..MaxPage /\ io.op = "write" /\ io.image \in Images /\ io.image.id = p
      /\ io' = [io EXCEPT !.done = io'.done] /\ io'.done \in 1..BlocksPerPage
      /\ cut' = (IF io'.done = BlocksPerPage THEN cut \ {p} ELSE cut) /\ faults' = faults
      /\ file' \in Seq(FileBlocks) /\ Len(file') > 0
      /\ \A k \in 1..io'.done : /\ PageOffset(p) + k <= Len(file')
                                /\ file'[PageOffset(p) + k] = Block(io.image, k)
  BY <1>2, <1>3, WriteFacts
<1>5. /\ io' \in Ios /\ io'.op = "write" /\ io'.page = p /\ io'.image = io.image
  <2>1. io'.done \in 0..BlocksPerPage
    BY <1>4, Constants
  <2> QED BY <1>2, <1>3, <1>4, <2>1 DEF Ios
<1>6. Transfer'
  <2>1. /\ io'.image \in Images /\ io'.page = io'.image.id
        /\ \A k \in 1..io'.done : /\ PageOffset(io'.page) + k <= Len(file')
                                  /\ file'[PageOffset(io'.page) + k] = Block(io'.image, k)
    BY <1>4, <1>5
  <2> QED BY <1>5, <2>1 DEF Transfer, PageOffset, Block
<1>7. Types'
  <2>1. io'.op \in {"none", "read", "write", "failed"} /\ io'.done \in 0..BlocksPerPage
    BY <1>5 DEF Ios
  <2>2. cut' \subseteq 0..MaxPage
    BY <1>2, <1>4 DEF Types, TypeOK
  <2> QED BY <1>1, <1>2, <1>4, <1>5, <2>1, <2>2 DEF Types, TypeOK
<1>8. Places'
  BY <1>2, <1>3, <1>4, <1>5, PlacesKept
<1>9. /\ OnFile(p)' \in {Damaged, io.image} /\ (OnFile(p)' = io.image \/ p \in InDoubt')
      /\ \A q \in Nat : q # p => OnFile(q)' = OnFile(q) /\ (q \in InDoubt' <=> q \in InDoubt)
      /\ \A q \in 1..MaxPage : Ready(q) \/ q = p => Ready(q)'
      /\ \A q \in 1..MaxPage : \A row : q # p => (RowOn(q, row)' <=> RowOn(q, row))
  BY <1>3, WriteDisk
<1>10. /\ pc \in {"bootstrap", "tablePage", "rowPage", "newPage", "save"}
       /\ p = 0 => \/ pc = "bootstrap" /\ io.image.catalog = EmptyCatalog /\ acked = {}
                   \/ pc = "save" /\ io.image.catalog = catalog
       /\ pc \in {"bootstrap", "save"} => p = 0
  BY <1>3, <1>4, WritingFacts
<1>11. io.image # Damaged /\ 0 \in Nat /\ \A q \in Listed(catalog) : q \in 1..MaxPage
  BY <1>2, <1>4, ImageFacts, CatalogFacts
<1>12. p # 0 => OnFile(0)' = OnFile(0) /\ (0 \in InDoubt' <=> 0 \in InDoubt)
  BY <1>9, <1>11
<1>13. p = 0 /\ OnFile(0)' # Damaged => OnFile(0)' = io.image
  BY <1>9
<1>14. CatalogOnFile'
  <2>1. file' # << >>
    BY <1>4
  <2>2. p # 0 => file # << >>
    BY <1>2, <1>10 DEF Disk, CatalogOnFile
  <2>3. OnFile(0)' # Damaged \/ 0 \in InDoubt'
    <3>1. CASE p = 0
      BY <1>9, <1>11, <3>1
    <3>2. CASE p # 0
      BY <1>2, <1>12, <2>2, <3>2 DEF Disk, CatalogOnFile
    <3> QED BY <3>1, <3>2
  <2> QED BY <2>1, <2>3 DEF CatalogOnFile
<1>15. ~mixed /\ ~erred => \A q \in Listed(catalog) : Ready(q)' \/ (pc = "tablePage" /\ q = io'.page)
  BY <1>2, <1>3, <1>5, <1>9, <1>11 DEF Disk, ListedReady
<1>16. ListedReady'
  <2>1. ASSUME ~mixed, OnFile(0)' # Damaged, NEW q \in Listed(OnFile(0)'.catalog) PROVE Ready(q)'
    <3>1. CASE p # 0
      <4>1. OnFile(0) # Damaged /\ q \in Listed(OnFile(0).catalog)
        BY <1>12, <2>1, <3>1
      <4>2. Ready(q)
        BY <1>2, <2>1, <4>1 DEF Disk, ListedReady
      <4>3. OnFile(0).catalog \in GoodCatalogs
        BY <1>2, <4>1, OnFileFacts, Constants
      <4>4. q \in 1..MaxPage
        BY <4>1, <4>3, CatalogFacts
      <4> QED BY <1>9, <4>2, <4>4
    <3>2. CASE p = 0 /\ pc = "bootstrap"
      <4>1. q \in Listed(EmptyCatalog)
        BY <1>10, <1>13, <2>1, <3>2
      <4> QED BY <4>1, EmptyCatalogFacts
    <3>3. CASE p = 0 /\ pc = "save"
      <4>1. q \in Listed(catalog)
        BY <1>10, <1>13, <2>1, <3>3
      <4>2. ~erred
        BY <1>2, <2>1, <3>3 DEF Places, Saving
      <4> QED BY <1>15, <2>1, <3>3, <4>1, <4>2
    <3> QED BY <1>10, <3>1, <3>2, <3>3
  <2>2. /\ ~mixed' /\ OnFile(0)' # Damaged => \A q \in Listed(OnFile(0)'.catalog) : Ready(q)'
        /\ ~mixed' /\ ~erred' => \A q \in Listed(catalog') : Ready(q)' \/ (pc' = "tablePage" /\ q = io'.page)
    BY <1>1, <1>15, <2>1
  <2> QED BY <2>2 DEF ListedReady, Listed
<1>17. AckedListed'
  <2>1. ASSUME NEW a \in Clean, OnFile(0)' # Damaged PROVE Lists(OnFile(0)'.catalog, a)
    <3>1. CASE p # 0
      BY <1>2, <1>12, <2>1, <3>1 DEF Disk, AckedListed
    <3>2. CASE p = 0 /\ pc = "bootstrap"
      BY <1>10, <3>2 DEF Clean
    <3>3. CASE p = 0 /\ pc = "save"
      <4>1. OnFile(0)'.catalog = catalog
        BY <1>10, <1>13, <2>1, <3>3
      <4>2. Lists(catalog, a)
        BY <1>2, <3>3 DEF Disk, AckedListed, Opening
      <4> QED BY <4>1, <4>2
    <3> QED BY <1>10, <3>1, <3>2, <3>3
  <2>2. \A a \in Clean' : /\ OnFile(0)' # Damaged => Lists(OnFile(0)'.catalog, a)
                          /\ pc' \notin {"closed"} \cup Opening => Lists(catalog', a)
    BY <1>1, <1>2, <2>1 DEF Disk, AckedListed
  <2> QED BY <2>2 DEF AckedListed, Lists, PagesOf, TableOf, TableNames
<1>18. CatalogCurrent'
  <2>1. pc = "rowPage" => p # 0
    BY <1>10
  <2> QED BY <1>1, <1>2, <1>10, <1>12, <2>1 DEF Disk, CatalogCurrent
<1>19. AckedKept'
  <2>1. ASSUME NEW a \in Clean
        PROVE  /\ RowOn(a.page, a.row)'
               /\ io'.op = "write" /\ io'.page = a.page => a.row \in Range(io'.image.rows)
    <3>1. /\ RowOn(a.page, a.row) /\ (p = a.page => a.row \in Range(io.image.rows))
      BY <1>2, <1>3, <1>4 DEF Disk, AckedKept
    <3>2. a.page \in 1..MaxPage
      BY <1>2 DEF Types, TypeOK, Clean
    <3>3. CASE a.page # p
      BY <1>5, <1>9, <3>1, <3>2, <3>3
    <3>4. CASE a.page = p
      <4>1. Ready(p)'
        BY <1>9, <3>2, <3>4
      <4>2. OnFile(p)' # Damaged => a.row \in Range(OnFile(p)'.rows)
        BY <1>9, <3>1, <3>4
      <4>3. RowOn(p, a.row)'
        BY <4>1, <4>2 DEF RowOn, Range
      <4> QED BY <1>5, <3>1, <3>4, <4>3
    <3> QED BY <3>3, <3>4
  <2> QED BY <1>1, <2>1 DEF AckedKept
<1>20. SavedRow'
  <2>1. ASSUME pc = "save", call.row # 0 PROVE RowOn(call.page, call.row)'
    <3>1. p = 0 /\ RowOn(call.page, call.row)
      BY <1>2, <1>10, <2>1 DEF Disk, SavedRow
    <3>2. call.table \in TableNames(catalog) /\ call.page \in Range(PagesOf(catalog, call.table))
      BY <1>2, <2>1 DEF Places, Saving
    <3>3. call.page \in Listed(catalog)
      BY <1>2, <3>2, PagesFacts
    <3>4. PICK q : q = call.page
      OBVIOUS
    <3>5. PICK row : row = call.row
      OBVIOUS
    <3>6. q \in 1..MaxPage /\ q # p /\ RowOn(q, row)
      BY <1>11, <3>1, <3>3, <3>4, <3>5
    <3>7. RowOn(q, row)'
      BY <1>9, <3>6
    <3> QED BY <1>1, <3>4, <3>5, <3>7
  <2> QED BY <1>1, <2>1 DEF SavedRow
<1>21. Disk'
  BY <1>14, <1>16, <1>17, <1>18, <1>19, <1>20 DEF Disk
<1> QED BY <1>6, <1>7, <1>8, <1>21 DEF CatalogInv

-----------------------------------------------------------------------------
(* The invariant, and what it says. *)

LEMMA InitInv == Init => CatalogInv
<1> SUFFICES ASSUME Init PROVE CatalogInv
  OBVIOUS
<1>1. /\ file = << >> /\ io = NoIo /\ faults = 0 /\ cut = {} /\ catalog = EmptyCatalog
      /\ pc = "closed" /\ call = NoCall /\ inserted = 0 /\ erred = FALSE /\ acked = {}
      /\ mixed = FALSE /\ sessions = 0
  BY DEF Init, FileInit
<1>2. io \in Ios /\ io.op = "none" /\ io.done = 0
  BY <1>1, Constants DEF NoIo, Ios
<1>3. catalog \in GoodCatalogs /\ call \in CallRecords /\ Listed(catalog) = {}
  BY <1>1, EmptyCatalogFacts, NoCallFacts
<1>4. Types
  <2>1. file \in Seq(FileBlocks)
    BY <1>1
  <2>2. catalog.nextPage \in 1..(MaxPage + 1)
    BY <1>3, CatalogFacts
  <2>3. /\ 0 \in 0..MaxFaults /\ 0 \in 0..MaxRows /\ 0 \in 0..MaxSessions /\ 0 \in 0..BlocksPerPage
    BY Constants
  <2>4. TypeOK
    BY <1>1, <1>2, <2>2, <2>3 DEF TypeOK
  <2> QED BY <1>2, <1>3, <2>1, <2>4 DEF Types
<1>5. Transfer
  BY <1>2 DEF Transfer
<1>6. Places
  BY <1>1 DEF Places, NoTransfer, NoLocals, Empty, AtOpen, NewTable, Inserting, Trying, Adding,
              Growing, Saving, Opening
<1>7. Disk
  <2>1. OnFile(0) = Damaged
    <3>1. Len(file) = 0
      BY <1>1
    <3>2. PageOffset(0) \in Nat
      BY Offsets
    <3>3. Len(file) < PageOffset(0) + BlocksPerPage
      BY <3>1, <3>2, Constants
    <3> QED BY <3>3 DEF OnFile, PageIn
  <2>2. Clean = {}
    BY <1>1 DEF Clean
  <2> QED BY <1>1, <1>3, <2>1, <2>2
      DEF Disk, CatalogOnFile, ListedReady, AckedListed, CatalogCurrent, AckedKept, SavedRow
<1> QED BY <1>4, <1>5, <1>6, <1>7 DEF CatalogInv

LEMMA StepInv == CatalogInv /\ [Next]_vars => CatalogInv'
<1> SUFFICES ASSUME CatalogInv, [Next]_vars PROVE CatalogInv'
  OBVIOUS
<1>1. CASE IoStep /\ UNCHANGED storeVars
  BY <1>1, WriteSomeKeeps, ReadSomeKeeps DEF IoStep
<1>2. CASE Bootstrapped \/ Loaded \/ OpenFails \/ Open \/ Exit
  BY <1>2, BootstrappedKeeps, LoadedKeeps, OpenFailsKeeps, OpenKeeps, ExitKeeps
<1>3. CASE TablePageWritten \/ TryPage \/ TakePage \/ RowPageWritten
  BY <1>3, TablePageWrittenKeeps, TryPageKeeps, TakePageKeeps, RowPageWrittenKeeps
<1>4. CASE NewPageWritten \/ Saved \/ CallFails
  BY <1>4, NewPageWrittenKeeps, SavedKeeps, CallFailsKeeps
<1>5. CASE \E name \in Names : CreateTable(name) \/ \E large \in BOOLEAN : InsertRow(name, large)
  BY <1>5, CreateTableKeeps, InsertRowKeeps
<1>6. CASE IoFails /\ UNCHANGED storeVars
  BY <1>6, IoFailsKeeps
<1>7. CASE UNCHANGED vars
  <2>1. /\ file' = file /\ io' = io /\ faults' = faults /\ cut' = cut
        /\ catalog' = catalog /\ pc' = pc /\ call' = call /\ inserted' = inserted
        /\ erred' = erred /\ acked' = acked /\ mixed' = mixed /\ sessions' = sessions
    BY <1>7 DEF vars, fileVars, storeVars
  <2>2. Types' /\ Transfer'
    BY <2>1 DEF CatalogInv, Types, TypeOK, Transfer, PageOffset, Block
  <2>3. UNCHANGED storeVars
    BY <2>1 DEF storeVars
  <2>4. Places'
    BY <2>1, <2>3, PlacesKept DEF CatalogInv
  <2>5. InDoubt' = InDoubt
    BY <2>1 DEF InDoubt, HalfWritten
  <2>6. Disk'
    BY <2>1, <2>3, <2>5, DiskUnwritten DEF CatalogInv
  <2> QED BY <2>2, <2>4, <2>6 DEF CatalogInv
<1> QED BY <1>1, <1>2, <1>3, <1>4, <1>5, <1>6, <1>7 DEF Next, Step

\* The invariant holds of every behaviour: what the catalog in memory and on file, the pages
\* on file and the call in progress have to do with each other, after every system call.
THEOREM CatalogInvHolds == Spec => []CatalogInv
  BY InitInv, StepInv, PTL DEF Spec

\* Every variable of the store and of its page file has a value of its kind.
THEOREM StoreTypeCorrect == Spec => []TypeOK
<1>1. CatalogInv => TypeOK
  BY DEF CatalogInv, Types
<1> QED BY <1>1, CatalogInvHolds, PTL

\* No page is given to two tables, in memory or on file.
THEOREM PagesTakenOnceHolds == Spec => []PagesTakenOnce
<1>1. CatalogInv => PagesTakenOnce
  <2> SUFFICES ASSUME CatalogInv PROVE PagesTakenOnce
    OBVIOUS
  <2>1. Types /\ catalog \in GoodCatalogs /\ 0 \in 0..MaxPage
    BY Constants DEF CatalogInv, Types
  <2>2. \A c \in {catalog} \cup (IF OnFile(0) = Damaged THEN {} ELSE {OnFile(0).catalog}) :
           c \in GoodCatalogs
    BY <2>1, OnFileFacts
  <2> QED BY <2>2 DEF PagesTakenOnce, GoodCatalogs
<1> QED BY <1>1, CatalogInvHolds, PTL

\* The catalog on file never runs ahead of the pages it lists.
THEOREM ListedPagesWrittenHolds == Spec => []ListedPagesWritten
<1>1. CatalogInv => ListedPagesWritten
  <2> SUFFICES ASSUME CatalogInv, ~mixed, OnFile(0) # Damaged,
                      NEW t \in Range(OnFile(0).catalog.tables), NEW p \in Range(t.pages)
               PROVE  \/ OnFile(p) # Damaged /\ OnFile(p).type = "heap"
                      \/ p \in cut \/ HalfWritten = {p}
    BY DEF ListedPagesWritten
  <2>1. p \in Listed(OnFile(0).catalog)
    BY DEF Listed
  <2>2. Ready(p)
    BY <2>1 DEF CatalogInv, Disk, ListedReady
  <2>3. p \in HalfWritten => HalfWritten = {p}
    BY DEF HalfWritten
  <2> QED BY <2>2, <2>3 DEF Ready, InDoubt
<1> QED BY <1>1, CatalogInvHolds, PTL

\* A database whose catalog page was never cut short can be opened.
THEOREM OpensUnlessCutHolds == Spec => []OpensUnlessCut
<1>1. CatalogInv => OpensUnlessCut
  <2> SUFFICES ASSUME CatalogInv PROVE OpensUnlessCut
    OBVIOUS
  <2>1. Types /\ Transfer /\ 0 \in 0..MaxPage
    BY Constants DEF CatalogInv
  <2>2. file # << >> /\ 0 \notin InDoubt => OnFile(0) # Damaged
    BY DEF CatalogInv, Disk, CatalogOnFile
  <2>3. ASSUME pc = "load", HasRead, 0 \notin cut
        PROVE  PageRead # Damaged /\ PageRead.type = "catalog"
    <3>1. io.page = 0 /\ file # << >>
      BY <2>3 DEF CatalogInv, Places, AtOpen, Disk, CatalogOnFile
    <3>2. 0 \notin InDoubt
      BY <2>3 DEF InDoubt, HalfWritten, HasRead
    <3>3. PageRead = OnFile(0) /\ OnFile(0) # Damaged
      BY <2>1, <2>2, <2>3, <3>1, <3>2, ReadFacts
    <3> QED BY <2>1, <3>3, OnFileFacts
  <2>4. ASSUME pc = "closed", file # << >>, 0 \notin cut PROVE Len(file) >= BlocksPerPage
    <3>1. io = NoIo
      BY <2>4 DEF CatalogInv, Places, NoTransfer
    <3>2. 0 \notin InDoubt
      BY <2>4, <3>1 DEF InDoubt, HalfWritten, NoIo
    <3> QED BY <2>1, <2>2, <2>4, <3>2, SomethingOnFile
  <2> QED BY <2>3, <2>4 DEF OpensUnlessCut
<1> QED BY <1>1, CatalogInvHolds, PTL

-----------------------------------------------------------------------------
(* A page that a catalog lists although nobody wrote it (create_table failed, and a later *)
(* call of the same handle saved the catalog) is the only one of its table: insert_row    *)
(* reads the pages of a table from the first, and fails on that one.                      *)

Whole(t) == \A q \in Range(t.pages) : Ready(q)
Sound(c) == \A t \in Range(c.tables) : Len(t.pages) = 1 \/ Whole(t)
TablesSound ==
    /\ OnFile(0) # Damaged => Sound(OnFile(0).catalog)
    /\ Sound(catalog)
    /\ pc = "newPage" => \A t \in Range(catalog.tables) : t.name = call.table => Whole(t)

\* The entries of a catalog, and their pages.
LEMMA EntryFacts ==
    ASSUME NEW c \in GoodCatalogs, NEW t \in Range(c.tables)
    PROVE  /\ t \in TableEntries /\ t.pages \in Seq(1..MaxPage) /\ t.pages # << >>
           /\ Range(t.pages) \subseteq 1..MaxPage
           /\ t.name \in TableNames(c) /\ TableOf(c, t.name) = t
<1>1. c.tables \in Seq(TableEntries)
  BY CatalogFacts
<1>2. PICK i \in 1..Len(c.tables) : c.tables[i] = t
  BY <1>1, RangeFacts
<1>3. /\ t \in TableEntries /\ t.pages \in Seq(1..MaxPage) /\ t.pages # << >>
      /\ t.name \in TableNames(c) /\ TableOf(c, t.name) = t
  BY <1>2, CatalogFacts
<1>4. Range(t.pages) \subseteq 1..MaxPage
  BY <1>3, RangeFacts
<1> QED BY <1>3, <1>4

\* No step takes a page that is on file, or in doubt, away.
LEMMA ReadyStays ==
    ASSUME CatalogInv, [Next]_vars
    PROVE  /\ \A q \in 1..MaxPage : Ready(q) => Ready(q)'
           /\ file' = file \/ WriteSome
<1>1. CASE WriteSome
  <2>1. PICK p : p = io.page
    OBVIOUS
  <2>2. \A q \in 1..MaxPage : Ready(q) \/ q = p => Ready(q)'
    BY <1>1, <2>1, WriteDisk
  <2> QED BY <1>1, <2>2
<1>2. ASSUME file' = file, InDoubt \subseteq InDoubt'
      PROVE  \A q \in 1..MaxPage : Ready(q) => Ready(q)'
  <2>1. \A q : OnFile(q)' = OnFile(q)
    BY <1>2 DEF OnFile
  <2> QED BY <1>2, <2>1 DEF Ready
<1>3. CASE Exit \/ IoFails
  <2>1. file' = file /\ cut' = cut \cup HalfWritten
    BY <1>3 DEF Exit, IoFails
  <2> QED BY <1>2, <2>1 DEF InDoubt
<1>4. ASSUME file' = file, cut' = cut, HalfWritten = {}
      PROVE  \A q \in 1..MaxPage : Ready(q) => Ready(q)'
  BY <1>2, <1>4 DEF InDoubt
<1>5. pc \in {"closed", "idle"} => HalfWritten = {}
  BY DEF CatalogInv, Places, NoTransfer, HalfWritten, NoIo
<1>6. CASE Open \/ \E name \in Names : CreateTable(name) \/ \E large \in BOOLEAN : InsertRow(name, large)
  <2>1. file' = file /\ cut' = cut /\ pc \in {"closed", "idle"}
    BY <1>6 DEF Open, CreateTable, InsertRow
  <2> QED BY <1>4, <1>5, <2>1
<1>7. CASE ReadSome \/ Loaded \/ TryPage \/ TakePage
  <2>1. file' = file /\ cut' = cut /\ io.op = "read"
    BY <1>7 DEF ReadSome, Loaded, TryPage, TakePage, HasRead
  <2>2. HalfWritten = {}
    BY <2>1, NothingHalfWritten
  <2> QED BY <1>4, <2>1, <2>2
<1>8. CASE Bootstrapped \/ TablePageWritten \/ RowPageWritten \/ NewPageWritten \/ Saved
  <2>1. file' = file /\ cut' = cut /\ io.done = BlocksPerPage
    BY <1>8 DEF Bootstrapped, TablePageWritten, RowPageWritten, NewPageWritten, Saved, Written
  <2>2. HalfWritten = {}
    BY <2>1, NothingHalfWritten
  <2> QED BY <1>4, <2>1, <2>2
<1>9. CASE OpenFails \/ CallFails
  <2>1. file' = file /\ cut' = cut /\ io.op # "write"
    BY <1>9 DEF OpenFails, CallFails
  <2>2. HalfWritten = {}
    BY <2>1, NothingHalfWritten
  <2> QED BY <1>4, <2>1, <2>2
<1>10. CASE UNCHANGED vars
  <2>1. file' = file /\ cut' = cut /\ io' = io
    BY <1>10 DEF vars, fileVars
  <2>2. InDoubt' = InDoubt
    BY <2>1 DEF InDoubt, HalfWritten
  <2> QED BY <1>2, <2>1, <2>2
<1> QED BY <1>1, <1>3, <1>6, <1>7, <1>8, <1>9, <1>10 DEF Next, Step, IoStep

LEMMA SoundStays ==
    ASSUME \A q \in 1..MaxPage : Ready(q) => Ready(q)', NEW c \in GoodCatalogs
    PROVE  /\ \A t \in Range(c.tables) : Whole(t) => \A q \in Range(t.pages) : Ready(q)'
           /\ Sound(c) =>
                \A t \in Range(c.tables) : Len(t.pages) = 1 \/ \A q \in Range(t.pages) : Ready(q)'
<1>1. \A t \in Range(c.tables) : Range(t.pages) \subseteq 1..MaxPage
  BY EntryFacts
<1> QED BY <1>1 DEF Sound, Whole

\* The catalog on file.
LEMMA SoundOnFile ==
    ASSUME CatalogInv, TablesSound, [Next]_vars
    PROVE  OnFile(0)' # Damaged => Sound(OnFile(0).catalog)'
<1> SUFFICES ASSUME OnFile(0)' # Damaged PROVE Sound(OnFile(0).catalog)'
  OBVIOUS
<1>1. (\A q \in 1..MaxPage : Ready(q) => Ready(q)') /\ (file' = file \/ WriteSome)
  BY ReadyStays
<1>2. \E c \in GoodCatalogs : Sound(c) /\ OnFile(0)'.catalog = c
  <2>1. Types /\ 0 \in 0..MaxPage /\ 0 \in Nat /\ catalog \in GoodCatalogs
    BY Constants DEF CatalogInv, Types
  <2>2. CASE OnFile(0)' = OnFile(0)
    BY <2>1, <2>2, OnFileFacts DEF TablesSound
  <2>3. CASE WriteSome /\ OnFile(0)' # OnFile(0)
    <3>1. PICK p : p = io.page
      OBVIOUS
    <3>2. /\ OnFile(p)' \in {Damaged, io.image}
          /\ \A q \in Nat : q # p => OnFile(q)' = OnFile(q)
      BY <2>3, <3>1, WriteDisk
    <3>3. p = 0
      BY <2>1, <2>3, <3>2
    <3>4. OnFile(0)' = io.image
      BY <3>2, <3>3
    <3>5. io.image.catalog = EmptyCatalog \/ io.image.catalog = catalog
      BY <2>3, <3>1, <3>3, WritingFacts DEF WriteSome
    <3>6. Sound(EmptyCatalog)
      BY DEF Sound, EmptyCatalog, Range
    <3> QED BY <2>1, <3>4, <3>5, <3>6, EmptyCatalogFacts DEF TablesSound
  <2>4. file' = file => OnFile(0)' = OnFile(0)
    BY DEF OnFile
  <2> QED BY <1>1, <2>2, <2>3, <2>4
<1>3. PICK c \in GoodCatalogs : Sound(c) /\ OnFile(0)'.catalog = c
  BY <1>2
<1>4. \A t \in Range(c.tables) : Len(t.pages) = 1 \/ \A q \in Range(t.pages) : Ready(q)'
  BY <1>1, <1>3, SoundStays
<1> QED BY <1>3, <1>4 DEF Sound, Whole, Range

\* create_table adds a table of one page.
LEMMA CreateTableSound ==
    ASSUME CatalogInv, TablesSound, NEW name \in Names, CreateTable(name)
    PROVE  Sound(catalog')
<1> DEFINE u == [name |-> name, pages |-> <<catalog.nextPage>>]
<1>1. catalog'.tables = Append(catalog.tables, u) /\ catalog \in GoodCatalogs
  BY DEF CreateTable, CatalogInv, Types
<1>2. catalog.tables \in Seq(TableEntries) /\ Sound(catalog)
  BY <1>1, CatalogFacts DEF TablesSound
<1>3. Len(u.pages) = 1
  OBVIOUS
<1> HIDE DEF u
<1>4. \A t \in Range(Append(catalog.tables, u)) : t \in Range(catalog.tables) \/ t = u
  <2> DEFINE s == catalog.tables
  <2>1. s \in Seq(TableEntries)
    BY <1>2
  <2> HIDE DEF s
  <2>2. DOMAIN Append(s, u) = 1..(Len(s) + 1) /\ DOMAIN s = 1..Len(s) /\ Len(s) \in Nat
    BY <2>1
  <2>3. \A i \in 1..(Len(s) + 1) : Append(s, u)[i] = IF i \in 1..Len(s) THEN s[i] ELSE u
    BY <2>1
  <2> QED BY <2>2, <2>3 DEF Range, s
<1> QED BY <1>1, <1>2, <1>3, <1>4 DEF Sound

\* insert_row takes a new page for a table only after it has read every page of it.
LEMMA TakePageWhole ==
    ASSUME CatalogInv, TablesSound, pc = "tryPage", HasRead, PageRead # Damaged,
           call.tried = Len(TableOf(catalog, call.table).pages)
    PROVE  \A t \in Range(catalog.tables) : t.name = call.table => Whole(t)
<1> SUFFICES ASSUME NEW t \in Range(catalog.tables), t.name = call.table PROVE Whole(t)
  OBVIOUS
<1>1. /\ io.page \in 1..MaxPage /\ PageRead = OnFile(io.page)
      /\ io.page = TableOf(catalog, call.table).pages[call.tried]
  BY TriedFacts DEF CatalogInv, Places, Trying, PagesOf
<1>2. catalog \in GoodCatalogs /\ Types
  BY DEF CatalogInv, Types
<1>3. t.pages \in Seq(1..MaxPage) /\ TableOf(catalog, call.table) = t
  BY <1>2, EntryFacts
<1>4. Ready(io.page)
  <2>1. io.page \in 0..MaxPage /\ io.page # 0
    BY <1>1, Constants
  <2> QED BY <1>1, <1>2, <2>1, OnFileFacts DEF Ready
<1>5. CASE Len(t.pages) = 1
  <2>1. io.page = t.pages[1]
    BY <1>1, <1>3, <1>5
  <2>2. \A q \in Range(t.pages) : q = t.pages[1]
    BY <1>3, <1>5, RangeFacts
  <2> QED BY <1>4, <2>1, <2>2 DEF Whole
<1> QED BY <1>5 DEF TablesSound, Sound

\* append_heap_page adds a page that is written to a table whose pages are.
LEMMA NewPageWrittenSound ==
    ASSUME CatalogInv, TablesSound, NewPageWritten
    PROVE  Sound(catalog')
<1>1. /\ pc = "newPage" /\ Written /\ catalog \in GoodCatalogs /\ Types /\ Transfer
      /\ catalog'.tables = [i \in DOMAIN catalog.tables |->
                               AppendedEntry(catalog.tables[i], call.table, call.page)]
  <2>1. /\ pc = "newPage" /\ Written /\ catalog \in GoodCatalogs /\ Types /\ Transfer
        /\ catalog' = [catalog EXCEPT !.tables = [i \in DOMAIN catalog.tables |->
                         AppendedEntry(catalog.tables[i], call.table, call.page)]]
    BY DEF NewPageWritten, AppendedEntry, CatalogInv, Types
  <2>2. catalog \in [nextPage : 1..(MaxPage + 1), tables : Seq(TableEntries)]
    BY <2>1, CatalogFacts
  <2> QED BY <2>1, <2>2
<1>2. io.page = call.page /\ io.image.type = "heap" /\ call.page \in 1..MaxPage
  <2>1. io.page = call.page /\ call.page # 0 /\ io.image = HeapPage(call.page, <<call.row>>)
    BY <1>1 DEF CatalogInv, Places, Growing
  <2>2. io.page \in 0..MaxPage
    BY <1>1, WrittenFacts
  <2> QED BY <2>1, <2>2, Constants DEF HeapPage
<1>3. Ready(call.page)
  BY <1>1, <1>2, WrittenFacts DEF Ready
<1>4. ASSUME NEW u \in Range(catalog'.tables) PROVE Len(u.pages) = 1 \/ Whole(u)
  <2>1. PICK i \in DOMAIN catalog.tables : u = AppendedEntry(catalog.tables[i], call.table, call.page)
    BY <1>1 DEF Range
  <2>2. PICK t \in Range(catalog.tables) : t = catalog.tables[i]
    BY DEF Range
  <2>3. t \in TableEntries /\ t.pages # << >>
    BY <1>1, EntryFacts
  <2>4. CASE t.name = call.table
    <3>1. Whole(t)
      BY <1>1, <2>4 DEF TablesSound
    <3>2. Longer(t, u, call.table, call.page)
      BY <1>2, <2>1, <2>2, <2>3, EntryAppended
    <3> QED BY <1>3, <2>4, <3>1, <3>2 DEF Longer, Whole
  <2>5. CASE t.name # call.table
    BY <2>1, <2>2, <2>5 DEF AppendedEntry, TablesSound, Sound
  <2> QED BY <2>4, <2>5
<1> QED BY <1>4 DEF Sound

\* The catalog in memory.
LEMMA SoundInMemory ==
    ASSUME CatalogInv, TablesSound, [Next]_vars
    PROVE  Sound(catalog')
<1>1. Sound(catalog)
  BY DEF TablesSound
<1>2. Sound(EmptyCatalog)
  BY DEF Sound, EmptyCatalog, Range
<1>3. CASE catalog' = catalog \/ catalog' = EmptyCatalog
  BY <1>1, <1>2, <1>3
<1>4. CASE Loaded
  <2>1. io.page = 0 /\ Types /\ Transfer /\ HasRead
    BY <1>4 DEF Loaded, CatalogInv, Places, AtOpen
  <2>2. PageRead = OnFile(0)
    BY <2>1, ReadFacts
  <2> QED BY <1>2, <1>4, <2>2 DEF Loaded, TablesSound
<1>5. CASE TakePage
  <2>1. catalog \in GoodCatalogs
    BY DEF CatalogInv, Types
  <2>2. catalog \in [nextPage : 1..(MaxPage + 1), tables : Seq(TableEntries)]
    BY <2>1, CatalogFacts
  <2>3. catalog'.tables = catalog.tables
    BY <1>5, <2>2 DEF TakePage
  <2> QED BY <1>1, <2>3 DEF Sound
<1>6. CASE NewPageWritten
  BY <1>6, NewPageWrittenSound
<1>7. CASE \E name \in Names : CreateTable(name)
  BY <1>7, CreateTableSound
<1>8. CASE Open \/ Exit \/ OpenFails \/ Bootstrapped
  BY <1>3, <1>8 DEF Open, Exit, OpenFails, Bootstrapped
<1>9. CASE \/ TablePageWritten \/ TryPage \/ RowPageWritten \/ Saved \/ CallFails
           \/ \E name \in Names : \E large \in BOOLEAN : InsertRow(name, large)
  BY <1>3, <1>9 DEF TablePageWritten, TryPage, RowPageWritten, Saved, CallFails, InsertRow
<1>10. CASE UNCHANGED storeVars \/ UNCHANGED vars
  BY <1>3, <1>10 DEF vars, storeVars
<1> QED BY <1>4, <1>5, <1>6, <1>7, <1>8, <1>9, <1>10 DEF Next, Step

\* insert_row with its new page.
LEMMA GrowingWhole ==
    ASSUME CatalogInv, TablesSound, [Next]_vars, pc' = "newPage"
    PROVE  \A t \in Range(catalog'.tables) : t.name = call'.table => Whole(t)
<1>1. CASE TakePage
  <2>1. catalog \in GoodCatalogs /\ call \in CallRecords
    BY DEF CatalogInv, Types
  <2>2. catalog \in [nextPage : 1..(MaxPage + 1), tables : Seq(TableEntries)]
    BY <2>1, CatalogFacts
  <2>3. catalog'.tables = catalog.tables /\ call'.table = call.table
    BY <1>1, <2>1, <2>2 DEF TakePage, Fail, CallRecords
  <2>4. \A t \in Range(catalog.tables) : t.name = call.table => Whole(t)
    BY <1>1, TakePageWhole DEF TakePage
  <2> QED BY <2>3, <2>4
<1>2. CASE UNCHANGED storeVars \/ UNCHANGED vars
  BY <1>2 DEF vars, storeVars, TablesSound
<1>3. pc' # "newPage" \/ TakePage \/ UNCHANGED storeVars \/ UNCHANGED vars
  BY DEF Next, Step, Open, Exit, OpenFails, Bootstrapped, Loaded, TablePageWritten, TryPage,
         RowPageWritten, NewPageWritten, Saved, CallFails, CreateTable, InsertRow, StartSave, Return, Fail
<1> QED BY <1>1, <1>2, <1>3

LEMMA TablesSoundStep ==
    ASSUME CatalogInv, CatalogInv', TablesSound, [Next]_vars
    PROVE  TablesSound'
<1>1. (\A q \in 1..MaxPage : Ready(q) => Ready(q)')
  BY ReadyStays
<1>2. PICK c : c = catalog'
  OBVIOUS
<1>3. c \in GoodCatalogs /\ Sound(c)
  BY <1>2, SoundInMemory DEF CatalogInv, Types
<1>4. \A t \in Range(c.tables) : Len(t.pages) = 1 \/ \A q \in Range(t.pages) : Ready(q)'
  BY <1>1, <1>3, SoundStays
<1>5. Sound(catalog)'
  BY <1>2, <1>4 DEF Sound, Whole, Range
<1>6. pc' = "newPage" => \A t \in Range(c.tables) : t.name = call'.table => Whole(t)
  BY <1>2, GrowingWhole
<1>7. pc' = "newPage" =>
          \A t \in Range(c.tables) : t.name = call'.table => \A q \in Range(t.pages) : Ready(q)'
  BY <1>1, <1>3, <1>6, SoundStays
<1>8. (pc = "newPage" => \A t \in Range(catalog.tables) : t.name = call.table => Whole(t))'
  BY <1>2, <1>7 DEF Whole, Range
<1>9. OnFile(0)' # Damaged => Sound(OnFile(0).catalog)'
  BY SoundOnFile
<1> QED BY <1>5, <1>8, <1>9 DEF TablesSound

\* No table, in memory or on file, has an unwritten page among others, whatever failed and
\* whichever handle went on after an error.
THEOREM TablesSoundHolds == Spec => []TablesSound
<1>1. Init => TablesSound
  <2> SUFFICES ASSUME Init PROVE TablesSound
    OBVIOUS
  <2>1. file = << >> /\ catalog = EmptyCatalog /\ pc = "closed"
    BY DEF Init, FileInit
  <2>2. Len(file) < PageOffset(0) + BlocksPerPage
    BY <2>1, Offsets, Constants
  <2>3. OnFile(0) = Damaged
    BY <2>2 DEF OnFile, PageIn
  <2>4. Sound(catalog)
    BY <2>1 DEF Sound, EmptyCatalog, Range
  <2> QED BY <2>1, <2>3, <2>4 DEF TablesSound
<1> QED BY <1>1, CatalogInvHolds, TablesSoundStep, PTL DEF Spec

\* A row that insert_row has acknowledged is found by full_scan after the process ends, also
\* when another handle has saved a catalog after an error, unless a write of the catalog or of
\* a page of its table was cut short or its own handle had returned an error before.
THEOREM AckedRowsFoundHolds == Spec => []AckedRowsFound
<1>1. CatalogInv /\ TablesSound => AckedRowsFound
  <2> SUFFICES ASSUME CatalogInv, TablesSound, pc \in {"idle", "closed"}, NEW a \in acked, a.clean,
                      cut \cap ({0} \cup ListedPages(a.table)) = {}
               PROVE  a.row \in FoundAfterReopen(a.table)
    BY DEF AckedRowsFound
  <2>1. Types /\ 0 \in 0..MaxPage /\ a \in Clean
    BY Constants DEF CatalogInv, Clean
  <2>2. io = NoIo
    BY DEF CatalogInv, Places, NoTransfer
  <2>3. InDoubt = cut
    BY <2>2 DEF InDoubt, HalfWritten, NoIo
  <2>4. file # << >>
    BY DEF CatalogInv, Disk, CatalogOnFile
  <2>5. OnFile(0) # Damaged
    BY <2>3, <2>4 DEF CatalogInv, Disk, CatalogOnFile
  <2> DEFINE c == OnFile(0).catalog
  <2>6. c \in GoodCatalogs /\ a.table \in TableNames(c) /\ a.page \in Range(TableOf(c, a.table).pages)
    BY <2>1, <2>5, OnFileFacts DEF CatalogInv, Disk, AckedListed, Lists, PagesOf
  <2>7. Sound(c) /\ ListedPages(a.table) = Range(TableOf(c, a.table).pages)
    BY <2>5, <2>6 DEF ListedPages, TablesSound
  <2> HIDE DEF c
  <2>8. PICK t \in Range(c.tables) : t = TableOf(c, a.table)
    <3>1. PICK i \in 1..Len(c.tables) : TableOf(c, a.table) = c.tables[i]
      BY <2>6, CatalogFacts
    <3> QED BY <2>6, <3>1, CatalogFacts DEF Range
  <2>9. RowOn(a.page, a.row)
    BY <2>1 DEF CatalogInv, Disk, AckedKept
  <2>10. Whole(t)
    <3>1. t.pages \in Seq(1..MaxPage) /\ a.page \in Range(t.pages)
      BY <2>6, <2>8, EntryFacts
    <3>2. CASE Len(t.pages) = 1
      <4>1. \A q \in Range(t.pages) : q = t.pages[1]
        BY <3>1, <3>2, RangeFacts
      <4>2. \A q \in Range(t.pages) : q = a.page
        BY <3>1, <4>1
      <4> QED BY <2>9, <4>2 DEF Whole, RowOn
    <3> QED BY <2>7, <3>2 DEF Sound
  <2>11. \A p \in ListedPages(a.table) : OnFile(p) # Damaged /\ OnFile(p).type = "heap"
    BY <2>3, <2>7, <2>8, <2>10 DEF Whole, Ready
  <2>12. FoundAfterReopen(a.table) = UNION {Range(OnFile(p).rows) : p \in ListedPages(a.table)}
    BY <2>11 DEF FoundAfterReopen
  <2>13. a.page \in ListedPages(a.table) /\ a.row \in Range(OnFile(a.page).rows)
    <3>1. a.page \in ListedPages(a.table)
      BY <2>6, <2>7
    <3> QED BY <2>9, <2>11, <3>1 DEF RowOn
  <2> QED BY <2>12, <2>13
<1> QED BY <1>1, CatalogInvHolds, TablesSoundHolds, PTL

=============================================================================
