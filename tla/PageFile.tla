------------------------------ MODULE PageFile ------------------------------
(***************************************************************************)
(* The page file of crates/rdbms_vfs: one read_page or write_page call at  *)
(* a time, each a loop over system calls that may transfer less than was   *)
(* asked for, or fail.                                                     *)
(*                                                                         *)
(* A page is BlocksPerPage blocks, the pieces that a system call transfers *)
(* whole.  A block on file is a part of some page image, or Zero where a   *)
(* write behind the end of the file has left a hole.  A page image is a    *)
(* record with an id and a type, among others.                             *)
(***************************************************************************)
EXTENDS Integers, SequencesExt

CONSTANTS
    BlocksPerPage,  \* PAGE_SIZE, in blocks
    MaxFaults       \* bound: system calls that fail

ASSUME PageFileAssumption == BlocksPerPage \in Nat \ {0} /\ MaxFaults \in Nat

VARIABLES
    file,    \* the file, block by block
    io,      \* the call in progress
    faults,
    cut      \* history: the pages whose last write stopped part-way

fileVars == <<file, io, faults, cut>>

\* What Page::from_bytes makes of blocks that are not one page.
Damaged == [type |-> "damaged"]

\* No call; "image" is what a write writes, "got" what a read has read.
NoIo == [op |-> "none", page |-> 0, image |-> Damaged, done |-> 0, got |-> << >>]

FileInit == file = << >> /\ io = NoIo /\ faults = 0 /\ cut = {}

\* An image as blocks, and blocks as an image: Page::from_bytes accepts what was
\* written as one page.  A block of zero bytes is no part of one.
Block(image, k) == [image |-> image, part |-> k]
Zero == Block(Damaged, 0)
Blocks(image) == [k \in 1..BlocksPerPage |-> Block(image, k)]
FromBlocks(blocks) ==
    IF blocks = Blocks(blocks[1].image) THEN blocks[1].image ELSE Damaged

\* page_offset, in blocks.
PageOffset(p) == p * BlocksPerPage

\* write_page of a page: it validates, and goes where its own page id says.
StartWrite(image) == io' = [NoIo EXCEPT !.op = "write", !.page = image.id, !.image = image]
StartRead(p) == io' = [NoIo EXCEPT !.op = "read", !.page = p]

\* write_at of some blocks: the file grows if it has to.
Put(offset, blocks) ==
    LET end == offset + Len(blocks)
    IN  [i \in 1..(IF end > Len(file) THEN end ELSE Len(file)) |->
            IF i \in (offset + 1)..end THEN blocks[i - offset]
            ELSE IF i <= Len(file) THEN file[i] ELSE Zero]

\* Mutant: after a short write the rest goes to the place of the first part.
WriteSomeOffsetKept ==
    /\ io.op = "write" /\ io.done < BlocksPerPage
    /\ \E n \in 1..(BlocksPerPage - io.done) :
         /\ file' = Put(PageOffset(io.page), SubSeq(Blocks(io.image), io.done + 1, io.done + n))
         /\ io' = [io EXCEPT !.done = @ + n]
         /\ cut' = IF io'.done = BlocksPerPage THEN cut \ {io.page} ELSE cut
    /\ UNCHANGED faults

\* One turn of write_all_at: write_at writes some of what is left.
WriteSome ==
    /\ io.op = "write" /\ io.done < BlocksPerPage
    /\ \E n \in 1..(BlocksPerPage - io.done) :
         /\ file' = Put(PageOffset(io.page) + io.done,
                        SubSeq(Blocks(io.image), io.done + 1, io.done + n))
         /\ io' = [io EXCEPT !.done = @ + n]
         /\ cut' = IF io'.done = BlocksPerPage THEN cut \ {io.page} ELSE cut
    /\ UNCHANGED faults

\* The blocks that read_at could give.
Available ==
    LET end == PageOffset(io.page) + BlocksPerPage
    IN  SubSeq(file, PageOffset(io.page) + io.done + 1,
               IF end <= Len(file) THEN end ELSE Len(file))

\* Mutant: a read of nothing, at the end of the file, is tried again.
ReadSomeStuckAtEnd ==
    /\ io.op = "read" /\ io.done < BlocksPerPage
    /\ IF Available = << >>
       THEN UNCHANGED io
       ELSE \E n \in 1..Len(Available) :
              io' = [io EXCEPT !.got = @ \o SubSeq(Available, 1, n), !.done = @ + n]
    /\ UNCHANGED <<file, faults, cut>>

\* One turn of read_exact_at: read_at reads some of what is left, and nothing at the
\* end of the file, which is an error.
ReadSome ==
    /\ io.op = "read" /\ io.done < BlocksPerPage
    /\ IF Available = << >>
       THEN io' = [io EXCEPT !.op = "failed"]
       ELSE \E n \in 1..Len(Available) :
              io' = [io EXCEPT !.got = @ \o SubSeq(Available, 1, n), !.done = @ + n]
    /\ UNCHANGED <<file, faults, cut>>

\* Was the write in progress begun and not finished?
HalfWritten ==
    IF io.op = "write" /\ io.done \in 1..(BlocksPerPage - 1) THEN {io.page} ELSE {}

\* A system call of either loop fails, or writes nothing (WriteZero).
IoFails ==
    /\ io.op \in {"read", "write"} /\ io.done < BlocksPerPage
    /\ faults < MaxFaults
    /\ faults' = faults + 1
    /\ io' = [io EXCEPT !.op = "failed"]
    /\ cut' = cut \cup HalfWritten
    /\ UNCHANGED file

\* What the caller sees: a write that is complete, and the page that was read, whose
\* header must have the id that was asked for.
Written == io.op = "write" /\ io.done = BlocksPerPage
HasRead == io.op = "read" /\ io.done = BlocksPerPage
PageRead ==
    LET page == FromBlocks(io.got)
    IN  IF page = Damaged \/ page.id # io.page THEN Damaged ELSE page

IoStep == WriteSome \/ ReadSome
=============================================================================
