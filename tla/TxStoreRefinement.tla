------------------------- MODULE TxStoreRefinement -------------------------
(***************************************************************************)
(* TxStore, its log, its data file and its recovery pass, seen as an       *)
(* AtomicStore.  A transaction takes effect when its commit marker is in   *)
(* the log; what a reader finds is what recovery would make of the files.  *)
(***************************************************************************)
EXTENDS TxStore

\* Where the commit markers are, how many of them the first n records hold, and where
\* the j-th one is.
MarkerPositions(log) == {k \in DOMAIN log : log[k].kind = "commit"}
MarkersUpTo(log, n) == Cardinality({k \in MarkerPositions(log) : k <= n})
MarkerAt(log, j) == CHOOSE k \in MarkerPositions(log) : MarkersUpTo(log, k) = j

\* The committed transactions, in the order of their markers.
CommitHistory ==
    [j \in 1..MarkersUpTo(wal, Len(wal)) |->
        LET i == wal[MarkerAt(wal, j)].by IN [tx |-> i, pages |-> hist[i].pages]]

Acknowledged == {i \in DOMAIN hist : hist[i].outcome = "acked"}

Visible(p) == LET image == View(p) IN IF Valid(image) THEN image.txs ELSE {}

Atomic ==
    INSTANCE AtomicStore WITH
        history <- CommitHistory,
        durable <- MarkersUpTo(wal, walDurable),
        acked <- Acknowledged,
        store <- [p \in Pages |-> Visible(p)]

\* The store, its log and its recovery implement transactions that take effect
\* one after another and all at once, of which a power loss takes the latest at
\* most and never one whose Transaction::commit has returned Ok.
ImplementsAtomicStore == Atomic!AbsSpec
=============================================================================
