------------------------- MODULE AtomicStoreProofs -------------------------
(***************************************************************************)
(* What AtomicStore promises, for every set of pages and of transactions,  *)
(* and so what every specification that implements it keeps.               *)
(***************************************************************************)
EXTENDS AtomicStore, TLAPS

Committed == [tx : TxNumbers, pages : SUBSET Pages]

\* The durable transactions are some of the first, what the user knows of is among
\* them, and a reader finds what the history says.
AbsInv ==
    /\ history \in Seq(Committed)
    /\ durable \in 0..Len(history)
    /\ \A i \in acked : \E k \in 1..durable : history[k].tx = i
    /\ store = Contents(history)

LEMMA AbsInvInit == AbsInit => AbsInv
BY DEF AbsInit, AbsInv

LEMMA AbsInvStep ==
    ASSUME AbsInv, [AbsNext]_absVars
    PROVE  AbsInv'
<1> USE DEF AbsInv
<1>1. CASE AbsSync
  BY <1>1 DEF AbsSync
<1>2. ASSUME NEW i \in TxNumbers, AbsAck(i)
      PROVE  AbsInv'
  BY <1>2 DEF AbsAck
<1>3. ASSUME NEW i \in TxNumbers, NEW pages \in SUBSET Pages, AbsCommit(i, pages)
      PROVE  AbsInv'
  <2>1. [tx |-> i, pages |-> pages] \in Committed
    BY DEF Committed
  <2>2. history' \in Seq(Committed) /\ Len(history') = Len(history) + 1
    BY <1>3, <2>1 DEF AbsCommit
  <2>3. \A k \in 1..durable : history'[k] = history[k]
    BY <1>3, <2>1 DEF AbsCommit
  <2> QED
    BY <1>3, <2>2, <2>3 DEF AbsCommit
<1>4. ASSUME NEW n \in durable..Len(history), AbsCrash(n)
      PROVE  AbsInv'
  <2>1. history' \in Seq(Committed) /\ Len(history') = n
    BY <1>4 DEF AbsCrash
  <2>2. \A k \in 1..durable : history'[k] = history[k]
    BY <1>4 DEF AbsCrash
  <2> QED
    BY <1>4, <2>1, <2>2 DEF AbsCrash
<1>5. CASE UNCHANGED absVars
  BY <1>5 DEF absVars, Contents
<1> QED
  BY <1>1, <1>2, <1>3, <1>4, <1>5 DEF AbsNext

LEMMA ContentsFound ==
    ASSUME NEW h \in Seq(Committed), NEW k \in 1..Len(h), NEW p \in Pages,
           p \in h[k].pages
    PROVE  h[k].tx \in Contents(h)[p]
BY DEF Contents

\* The history of the store explains all that is ever found in it, and a power loss
\* takes away nothing that Transaction::commit has acknowledged.
THEOREM AtomicStorePromises == AbsSpec => [](AckedStay /\ AllOrNothing)
<1>1. AbsInv => AckedStay
  <2> SUFFICES ASSUME AbsInv, NEW i \in acked
               PROVE  \E k \in 1..durable :
                        /\ history[k].tx = i
                        /\ \A p \in Pages : p \in history[k].pages => i \in store[p]
    BY DEF AckedStay
  <2>1. PICK k \in 1..durable : history[k].tx = i
    BY DEF AbsInv
  <2>2. \A p \in Pages : p \in history[k].pages => i \in store[p]
    BY <2>1, ContentsFound DEF AbsInv
  <2> QED
    BY <2>1, <2>2
<1>2. AbsInv => AllOrNothing
  <2> SUFFICES ASSUME AbsInv, NEW p \in Pages, NEW i \in store[p]
               PROVE  \E k \in 1..Len(history) :
                        /\ history[k].tx = i
                        /\ \A q \in Pages : q \in history[k].pages => i \in store[q]
    BY DEF AllOrNothing
  <2>1. PICK k \in 1..Len(history) : history[k].tx = i
    BY DEF AbsInv, Contents
  <2>2. \A q \in Pages : q \in history[k].pages => i \in store[q]
    BY <2>1, ContentsFound DEF AbsInv
  <2> QED
    BY <2>1, <2>2
<1> QED
  BY <1>1, <1>2, AbsInvInit, AbsInvStep, PTL DEF AbsSpec
============================================================================
