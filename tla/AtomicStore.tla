---------------------------- MODULE AtomicStore ----------------------------
(***************************************************************************)
(* What a database with a write-ahead log promises its user, without a     *)
(* log, a data file or a recovery pass: transactions take effect one after *)
(* another, each on all of its pages at once; a power loss takes away the  *)
(* latest ones at most, and none of those whose commit has returned Ok.    *)
(***************************************************************************)
EXTENDS Naturals, Sequences

CONSTANTS
    Pages,      \* the pages of the database
    TxNumbers   \* the transactions that may commit

VARIABLES
    history,  \* the committed transactions with their pages, in commit order
    durable,  \* how many of them no power loss can take away
    acked,    \* the transactions whose commit has returned Ok
    store     \* for each page, the transactions whose changes a reader finds

absVars == <<history, durable, acked, store>>

\* What a reader finds after the transactions of h, and nothing else.
Contents(h) ==
    [p \in Pages |-> {h[k].tx : k \in {j \in DOMAIN h : p \in h[j].pages}}]

AbsInit ==
    /\ history = << >> /\ durable = 0
    /\ acked = {}
    /\ store = Contents(<< >>)

\* A transaction takes effect, on every page it changed and in one step.
AbsCommit(i, pages) ==
    /\ \A k \in DOMAIN history : history[k].tx # i
    /\ history' = Append(history, [tx |-> i, pages |-> pages])
    /\ store' = Contents(history')
    /\ UNCHANGED <<durable, acked>>

\* Everything that has taken effect is there to stay.
AbsSync ==
    /\ durable' = Len(history)
    /\ UNCHANGED <<history, acked, store>>

\* The user learns that a transaction has been committed.
AbsAck(i) ==
    /\ \E k \in 1..durable : history[k].tx = i
    /\ acked' = acked \cup {i}
    /\ UNCHANGED <<history, durable, store>>

\* A power loss takes away the transactions after the k-th.
AbsCrash(k) ==
    /\ history' = SubSeq(history, 1, k)
    /\ durable' = k
    /\ store' = Contents(history')
    /\ UNCHANGED acked

AbsNext ==
    \/ AbsSync
    \/ \E i \in TxNumbers : AbsAck(i) \/ \E pages \in SUBSET Pages : AbsCommit(i, pages)
    \/ \E k \in durable..Len(history) : AbsCrash(k)

AbsSpec == AbsInit /\ [][AbsNext]_absVars

-----------------------------------------------------------------------------
\* A transaction that the user knows to be committed is among those that no power
\* loss takes away, and its changes are found on every page it changed.
AckedStay ==
    \A i \in acked : \E k \in 1..durable :
        /\ history[k].tx = i
        /\ \A p \in Pages : p \in history[k].pages => i \in store[p]

\* Nothing is found but the changes of committed transactions, each of them whole.
AllOrNothing ==
    \A p \in Pages : \A i \in store[p] :
        \E k \in 1..Len(history) :
            /\ history[k].tx = i
            /\ \A q \in Pages : q \in history[k].pages => i \in store[q]
=============================================================================
