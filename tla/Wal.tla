-------------------------------- MODULE Wal --------------------------------
(***************************************************************************)
(* The write-ahead log of crates/rdbms_wal: the records a log file holds,  *)
(* what a full scan of the file accepts, and which page images the redo    *)
(* pass replays.                                                           *)
(*                                                                         *)
(* A log file is a sequence of extents.  An extent is a well-formed record *)
(* or Garbage, the bytes that WalReader::read_all refuses: a record cut    *)
(* short by a failed or torn write, or the zero bytes of an extent the LSN *)
(* allocator handed out and nobody wrote.  The LSN of a record (its byte   *)
(* offset) is its position in the sequence.                                *)
(*                                                                         *)
(* The field "by" is a history variable: the transaction that wrote the    *)
(* record, whatever id the record carries.  No operator of this module     *)
(* reads it.                                                               *)
(***************************************************************************)
EXTENDS Naturals, Sequences

CONSTANTS Blank,    \* a page the data file does not hold (past its end, or zero bytes)
          Torn      \* a page whose bytes fail Page::validate

\* The record kinds that the program appends.  The sixth kind of the source,
\* Checkpoint, is never appended and is ignored by the redo pass.
RecordKinds == {"begin", "image", "commit", "abort"}

Record(kind, tx, page, image, by) ==
    [kind |-> kind, tx |-> tx, page |-> page, image |-> image, by |-> by]

BeginTx(tx, by) == Record("begin", tx, 0, Blank, by)
PageImage(tx, page, image, by) == Record("image", tx, page, image, by)
CommitTx(tx, by) == Record("commit", tx, 0, Blank, by)
AbortTx(tx, by) == Record("abort", tx, 0, Blank, by)
Garbage == Record("garbage", 0, 0, Blank, 0)

\* WalWriter::append writes a record at the LSN the allocator returned.  The
\* allocator may be past the end of the file (an earlier append failed): the
\* bytes in between read back as zeros.
WriteAt(log, lsn, rec) ==
    [k \in 1..lsn |-> IF k = lsn THEN rec
                      ELSE IF k <= Len(log) THEN log[k] ELSE Garbage]

\* WalReader::read_all accepts a log only when every extent decodes: there is
\* no skipping of a damaged tail.
ReadAllOk(log) == \A k \in DOMAIN log : log[k].kind # "garbage"

\* The ids with a commit marker, and the ids with an abort marker, anywhere in
\* the log.
Committed(log) == {log[k].tx : k \in {j \in DOMAIN log : log[j].kind = "commit"}}
Aborted(log) == {log[k].tx : k \in {j \in DOMAIN log : log[j].kind = "abort"}}

\* Mutant: the redo pass forgets the commit markers.
RedoneUncommitted(log, k) ==
    log[k].kind = "image" /\ log[k].tx \notin Aborted(log)

\* redo_committed_page_images replays record k.
Redone(log, k) ==
    /\ log[k].kind = "image"
    /\ log[k].tx \in Committed(log)
    /\ log[k].tx \notin Aborted(log)

\* The records that the redo pass writes to page p.
RedoneOn(log, p) == {k \in DOMAIN log : log[k].page = p /\ Redone(log, k)}

\* The image of page p once the whole log has been replayed over "old": the
\* replay is in log order, so the last record wins.
AfterRedo(log, p, old) ==
    LET ks == RedoneOn(log, p)
    IN  IF ks = {} THEN old
        ELSE log[CHOOSE k \in ks : \A j \in ks : j <= k].image
=============================================================================
