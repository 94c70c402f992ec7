-------------------------- MODULE BPlusTreeProofs --------------------------
(***************************************************************************)
(* The B+Tree of BPlusTree keeps its shape, and its lookups are exact, for *)
(* every set of keys and rows, every MAX_KEYS of at least 2, every page    *)
(* capacity, and trees of every height.                                    *)
(***************************************************************************)
EXTENDS BPlusTree, TLAPS, FiniteSetTheorems, WellFoundedInduction

-----------------------------------------------------------------------------
(* Induction over numbers, by a set of numbers. *)

\* A nonempty set of natural numbers has a least one.
LEMMA LeastNat ==
    ASSUME NEW S \in SUBSET Nat, S # {}
    PROVE  \E k \in S : \A j \in S : k <= j
<1> DEFINE R == OpToRel(<, Nat)
<1>1. \E u \in S : \A v \in S : ~ (<<v, u>> \in R)
  <2> HIDE DEF R
  <2>1. IsWellFoundedOn(R, Nat)
    BY NatLessThanWellFounded DEF R
  <2> QED BY <2>1, WFMin
<1>2. \A u, v \in Nat : ~ (<<v, u>> \in R) => u <= v
  BY DEF OpToRel
<1> HIDE DEF R
<1> QED BY <1>1, <1>2

\* What holds at 0, and at n + 1 if it holds at n, holds up to N: T is the set of the
\* numbers where it holds.
LEMMA UpTo ==
    ASSUME NEW N \in Nat, NEW T, 0 \in T,
           \A n \in 0..(N - 1) : n \in T => n + 1 \in T
    PROVE  0..N \subseteq T
<1> DEFINE S == {n \in 0..N : n \notin T}
<1> SUFFICES ASSUME S # {} PROVE FALSE
  OBVIOUS
<1>1. S \in SUBSET Nat
  OBVIOUS
<1>2. PICK k \in S : \A j \in S : k <= j
  <2> HIDE DEF S
  <2> QED BY <1>1, LeastNat
<1>3. k \in Nat /\ k # 0 /\ k <= N /\ k \notin T
  BY <1>2
<1>4. k - 1 \in 0..(N - 1) /\ k - 1 \in 0..N /\ k = (k - 1) + 1 /\ ~(k <= k - 1)
  BY <1>3
<1>5. k - 1 \in T
  BY <1>2, <1>4
<1> QED BY <1>3, <1>4, <1>5

-----------------------------------------------------------------------------
(* Sequences, and counting a part of a sequence. *)

LEMMA ConcatFacts ==
    ASSUME NEW S, NEW a \in Seq(S), NEW b \in Seq(S)
    PROVE  /\ a \o b \in Seq(S) /\ Len(a \o b) = Len(a) + Len(b)
           /\ \A n \in 1..(Len(a) + Len(b)) :
                (a \o b)[n] = IF n <= Len(a) THEN a[n] ELSE b[n - Len(a)]
  OBVIOUS

LEMMA SubSeqFacts ==
    ASSUME NEW S, NEW s \in Seq(S), NEW i \in 1..(Len(s) + 1), NEW j \in (i - 1)..Len(s)
    PROVE  /\ SubSeq(s, i, j) \in Seq(S) /\ Len(SubSeq(s, i, j)) = j - i + 1
           /\ \A n \in 1..(j - i + 1) : SubSeq(s, i, j)[n] = s[i + n - 1]
  OBVIOUS

LEMMA InsertAtFacts ==
    ASSUME NEW S, NEW s \in Seq(S), NEW i \in 1..(Len(s) + 1), NEW e \in S
    PROVE  /\ InsertAt(s, i, e) \in Seq(S)
           /\ Len(InsertAt(s, i, e)) = Len(s) + 1
           /\ \A n \in 1..(Len(s) + 1) :
                InsertAt(s, i, e)[n] = IF n < i THEN s[n] ELSE IF n = i THEN e ELSE s[n - 1]
<1> DEFINE N == Len(s)
           a == SubSeq(s, 1, i - 1)
           b == SubSeq(s, i, Len(s))
           c == a \o <<e>>
<1>0. N \in Nat /\ i \in 1..(N + 1) /\ InsertAt(s, i, e) = c \o b
  BY DEF InsertAt
<1>1. /\ a \in Seq(S) /\ Len(a) = i - 1 /\ \A n \in 1..(i - 1) : a[n] = s[n]
  <2>1. 1 \in 1..(Len(s) + 1) /\ i - 1 \in (1 - 1)..Len(s) /\ (i - 1) - 1 + 1 = i - 1
    OBVIOUS
  <2>2. \A n \in Int : 1 + n - 1 = n
    OBVIOUS
  <2> QED BY <2>1, <2>2, SubSeqFacts
<1>2. /\ b \in Seq(S) /\ Len(b) = N - i + 1
      /\ \A n \in 1..(N - i + 1) : b[n] = s[i + n - 1]
  <2>1. Len(s) \in (i - 1)..Len(s)
    OBVIOUS
  <2> QED BY <2>1, SubSeqFacts
<1> HIDE DEF N, a, b
<1>3. <<e>> \in Seq(S) /\ Len(<<e>>) = 1 /\ <<e>>[1] = e
  OBVIOUS
<1>4. /\ c \in Seq(S) /\ Len(c) = i
      /\ \A n \in 1..i : c[n] = IF n < i THEN s[n] ELSE e
  <2>1. c \in Seq(S) /\ Len(c) = Len(a) + 1
    BY <1>1, <1>3, ConcatFacts
  <2>2. \A n \in 1..(Len(a) + 1) : c[n] = IF n <= Len(a) THEN a[n] ELSE <<e>>[n - Len(a)]
    BY <1>1, <1>3, ConcatFacts
  <2> HIDE DEF c
  <2>3. (i - 1) + 1 = i /\ i - (i - 1) = 1
    BY <1>0
  <2>4. ASSUME NEW n \in 1..i PROVE c[n] = IF n < i THEN s[n] ELSE e
    <3>1. CASE n < i
      <4>1. n <= i - 1 /\ n \in 1..(i - 1)
        BY <1>0, <3>1
      <4> QED BY <1>1, <2>2, <2>3, <3>1, <4>1
    <3>2. CASE n = i
      <4>1. ~(i <= i - 1) /\ i \in 1..i
        BY <1>0
      <4> QED BY <1>1, <1>3, <2>2, <2>3, <3>2, <4>1
    <3>3. n < i \/ n = i
      BY <1>0
    <3> QED BY <3>1, <3>2, <3>3
  <2> QED BY <1>1, <2>1, <2>3, <2>4
<1> HIDE DEF c
<1>5. Len(c) + Len(b) = N + 1
  BY <1>0, <1>2, <1>4
<1>6. (c \o b) \in Seq(S) /\ Len(c \o b) = N + 1
  BY <1>2, <1>4, <1>5, ConcatFacts
<1>7. ASSUME NEW n \in 1..(N + 1)
      PROVE  (c \o b)[n] = IF n < i THEN s[n] ELSE IF n = i THEN e ELSE s[n - 1]
  <2>1. (c \o b)[n] = IF n <= i THEN c[n] ELSE b[n - i]
    BY <1>2, <1>4, <1>5, ConcatFacts, SMTT(30)
  <2>2. n > i => n - i \in 1..(N - i + 1) /\ i + (n - i) - 1 = n - 1
    BY <1>0
  <2>3. n <= i => n \in 1..i
    BY <1>0
  <2>4. n \in Int /\ i \in Int
    BY <1>0
  <2> QED BY <1>2, <1>4, <2>1, <2>2, <2>3, <2>4
<1> QED BY <1>0, <1>6, <1>7 DEF N

LEMMA PartFacts ==
    ASSUME NEW S, NEW s \in Seq(S), NEW n \in 0..Len(s)
    PROVE  /\ Front_(s, n) \in Seq(S) /\ Len(Front_(s, n)) = n
           /\ \A i \in 1..n : Front_(s, n)[i] = s[i]
           /\ Rest(s, n) \in Seq(S) /\ Len(Rest(s, n)) = Len(s) - n
           /\ \A i \in 1..(Len(s) - n) : Rest(s, n)[i] = s[n + i]
<1>0. Len(s) \in Nat
  OBVIOUS
<1>1. 1 \in 1..(Len(s) + 1) /\ n \in (1 - 1)..Len(s) /\ n - 1 + 1 = n
  BY <1>0
<1>2. /\ n + 1 \in 1..(Len(s) + 1) /\ Len(s) \in ((n + 1) - 1)..Len(s)
      /\ Len(s) - (n + 1) + 1 = Len(s) - n
  BY <1>0
<1>3. \A i \in Int : 1 + i - 1 = i /\ n + 1 + i - 1 = n + i
  BY <1>0
<1>4. /\ SubSeq(s, 1, n) \in Seq(S) /\ Len(SubSeq(s, 1, n)) = n
      /\ \A i \in 1..n : SubSeq(s, 1, n)[i] = s[i]
  BY <1>1, <1>3, SubSeqFacts
<1>5. /\ SubSeq(s, n + 1, Len(s)) \in Seq(S) /\ Len(SubSeq(s, n + 1, Len(s))) = Len(s) - n
      /\ \A i \in 1..(Len(s) - n) : SubSeq(s, n + 1, Len(s))[i] = s[n + i]
  <2> DEFINE j == n + 1
  <2>1. j \in 1..(Len(s) + 1) /\ Len(s) \in (j - 1)..Len(s) /\ Len(s) - j + 1 = Len(s) - n
    BY <1>2
  <2>2. \A i \in Int : j + i - 1 = n + i
    BY <1>3
  <2> HIDE DEF j
  <2>3. /\ SubSeq(s, j, Len(s)) \in Seq(S) /\ Len(SubSeq(s, j, Len(s))) = Len(s) - n
        /\ \A i \in 1..(Len(s) - n) : SubSeq(s, j, Len(s))[i] = s[n + i]
    BY <2>1, <2>2, SubSeqFacts
  <2> QED BY <2>3 DEF j
<1> QED BY <1>4, <1>5 DEF Front_, Rest

LEMMA CountBounds ==
    ASSUME NEW n \in Nat, NEW D \in SUBSET (1..n)
    PROVE  Cardinality(D) \in 0..n
<1>1. IsFiniteSet(1..n) /\ Cardinality(1..n) = n
  BY FS_Interval
<1>2. IsFiniteSet(D) /\ Cardinality(D) <= n
  BY <1>1, FS_Subset
<1>3. Cardinality(D) \in Nat
  BY <1>2, FS_CardinalityType
<1> QED BY <1>2, <1>3

\* A set of positions that has with each position all those before it is a prefix.
LEMMA CountOfPrefix ==
    ASSUME NEW n \in Nat, NEW D \in SUBSET (1..n),
           \A i \in D : \A j \in 1..i : j \in D
    PROVE  Cardinality(D) \in 0..n /\ D = 1..Cardinality(D)
<1> DEFINE S == {k \in 0..n : k + 1 \notin D}
<1>1. S \in SUBSET Nat /\ n \in S
  OBVIOUS
<1>2. PICK k \in S : \A j \in S : k <= j
  <2> HIDE DEF S
  <2> QED BY <1>1, LeastNat
<1>3. k \in 0..n /\ k + 1 \notin D
  BY <1>2
<1>4. \A j \in 1..k : j \in D
  <2> SUFFICES ASSUME NEW j \in 1..k, j \notin D PROVE FALSE
    OBVIOUS
  <2>1. j - 1 \in 0..n /\ (j - 1) + 1 = j /\ ~(k <= j - 1)
    BY <1>3
  <2> QED BY <1>2, <2>1
<1>5. \A j \in D : j <= k
  <2> SUFFICES ASSUME NEW j \in D, j > k PROVE FALSE
    BY <1>3
  <2>1. k + 1 \in 1..j
    BY <1>3
  <2> QED BY <1>3, <2>1
<1>6. D = 1..k
  <2>1. \A j \in D : j \in 1..k
    BY <1>3, <1>5
  <2> QED BY <1>4, <2>1
<1>7. Cardinality(1..k) = k
  <2>1. 1 \in Int /\ k \in Int
    BY <1>3
  <2>2. Cardinality(1..k) = IF 1 > k THEN 0 ELSE k - 1 + 1
    BY <2>1, FS_Interval
  <2> QED BY <1>3, <2>2
<1> QED BY <1>3, <1>6, <1>7

LEMMA ChildForRange ==
    ASSUME NEW ks \in Seq(Keys), NEW k
    PROVE  ChildFor(ks, k) \in 1..(Len(ks) + 1)
<1> DEFINE D == {i \in DOMAIN ks : k > ks[i]}
<1>1. D \in SUBSET (1..Len(ks)) /\ Len(ks) \in Nat
  OBVIOUS
<1>2. Cardinality(D) \in 0..Len(ks)
  BY <1>1, CountBounds
<1> HIDE DEF D
<1>3. Cardinality(D) + 1 \in 1..(Len(ks) + 1)
  BY <1>1, <1>2
<1> QED BY <1>3 DEF ChildFor, D

LEMMA WithEntryType ==
    ASSUME NEW es \in Seq(Entry), NEW e \in Entry
    PROVE  WithEntry(es, e) \in Seq(Entry) /\ Len(WithEntry(es, e)) = Len(es) + 1
<1> DEFINE D == {i \in DOMAIN es : Before(es[i], e)}
<1>1. D \in SUBSET (1..Len(es)) /\ Len(es) \in Nat
  OBVIOUS
<1>2. Cardinality(D) \in 0..Len(es)
  BY <1>1, CountBounds
<1> HIDE DEF D
<1>3. Cardinality(D) + 1 \in 1..(Len(es) + 1)
  BY <1>1, <1>2
<1>4. WithEntry(es, e) = InsertAt(es, Cardinality(D) + 1, e)
  BY DEF WithEntry, D
<1> QED BY <1>3, <1>4, InsertAtFacts

-----------------------------------------------------------------------------
(***************************************************************************)
(* The shape of single nodes and the way an insert has come.  None of this *)
(* depends on what a caller does after a failed insert.                    *)
(***************************************************************************)

\* Every stored node is well made, its children are stored, and no page id that is
\* still to be given out is in use.
Shaped(pgs, np) ==
    /\ pgs \in [PageIds -> Node]
    /\ \A p \in PageIds : p >= np => pgs[p].kind = "missing"
    /\ \A p \in PageIds : Len(pgs[p].entries) <= MaxKeys /\ Len(pgs[p].keys) <= MaxKeys
    /\ \A p \in PageIds : pgs[p].kind = "internal" =>
            Len(pgs[p].children) = Len(pgs[p].keys) + 1
    /\ \A p \in PageIds : \A i \in DOMAIN pgs[p].children :
            pgs[pgs[p].children[i]].kind # "missing"

\* lev counts the levels below a page.
Levels(pgs, lev) ==
    /\ lev \in [PageIds -> Nat]
    /\ \A p \in PageIds : pgs[p].kind = "leaf" => lev[p] = 0
    /\ \A p \in PageIds : \A i \in DOMAIN pgs[p].children : lev[pgs[p].children[i]] + 1 = lev[p]

\* The frames fs lead from page rt down to page c.
Trail(pgs, rt, fs, c) ==
    /\ \A k \in DOMAIN fs :
        /\ pgs[fs[k].page].kind = "internal"
        /\ fs[k].child \in DOMAIN pgs[fs[k].page].children
        /\ pgs[fs[k].page].children[fs[k].child] = IF k = Len(fs) THEN c ELSE fs[k + 1].page
    /\ rt = IF Len(fs) = 0 THEN c ELSE fs[1].page

\* The page whose split the caller in the last frame has still to record.
Pending == IF Len(path) = 0 THEN root
           ELSE pages[path[Len(path)].page].children[path[Len(path)].child]

\* The inductive invariant behind TypeOK.
WalkInv ==
    /\ TypeOK
    /\ Shaped(pages, nextPage) /\ pages[root].kind # "missing"
    /\ Shaped(saved.pages, saved.nextPage) /\ saved.pages[saved.root].kind # "missing"
    /\ pc = "down" => Trail(pages, root, path, at) /\ pages[at].kind # "missing"
    /\ pc = "up" => /\ Trail(pages, root, path, Pending)
                    /\ split.right \in PageIds /\ pages[split.right].kind # "missing"
    /\ \E lev : /\ Levels(pages, lev)
                /\ pc = "up" => lev[split.right] = lev[Pending]
    /\ \E lev : Levels(saved.pages, lev)

-----------------------------------------------------------------------------
(* Constants and nodes. *)

LEMMA Constants ==
    /\ Keys \subseteq Int /\ Rows \subseteq Nat
    /\ MaxKeys \in Nat /\ MaxKeys >= 2 /\ MaxPage \in Nat /\ MaxPage >= 1
    /\ 1 \in PageIds /\ PageIds \subseteq Nat /\ None \notin PageIds
    /\ AnyEntry \in Entry
    /\ NoSplit \in [separator : Keys, right : PageIds \cup {None}]
<1>1. /\ Keys \subseteq Int /\ Rows \subseteq Nat /\ Keys # {} /\ Rows # {}
      /\ MaxKeys \in Nat /\ MaxKeys >= 2 /\ MaxPage \in Nat /\ MaxPage >= 1
  BY TreeAssumption
<1>2. 1 \in PageIds /\ PageIds \subseteq Nat /\ None \notin PageIds
  BY <1>1 DEF PageIds, None
<1>3. \E e : e \in Entry
  <2>1. PICK k \in Keys, r \in Rows : TRUE
    BY <1>1
  <2>2. [key |-> k, row |-> r] \in Entry
    BY <2>1 DEF Entry
  <2> QED BY <2>2
<1>4. AnyEntry \in Entry
  BY <1>3 DEF AnyEntry
<1>5. NoSplit \in [separator : Keys, right : PageIds \cup {None}]
  BY <1>4 DEF NoSplit, Entry
<1> QED BY <1>1, <1>2, <1>4, <1>5

LEMMA LeafFacts ==
    ASSUME NEW n \in PageIds \cup {None}, NEW es \in Seq(Entry)
    PROVE  /\ Leaf(n, es) \in Node /\ Leaf(n, es).kind = "leaf" /\ Leaf(n, es).next = n
           /\ Leaf(n, es).entries = es /\ Leaf(n, es).keys = << >>
           /\ Leaf(n, es).children = << >>
  BY DEF Leaf, Node

LEMMA InternalFacts ==
    ASSUME NEW ks \in Seq(Keys), NEW cs \in Seq(PageIds)
    PROVE  /\ Internal(ks, cs) \in Node /\ Internal(ks, cs).kind = "internal"
           /\ Internal(ks, cs).entries = << >> /\ Internal(ks, cs).keys = ks
           /\ Internal(ks, cs).children = cs
  BY DEF Internal, Node, None

LEMMA NodeFields ==
    ASSUME NEW n \in Node
    PROVE  /\ n.kind \in {"leaf", "internal", "missing"} /\ n.next \in PageIds \cup {None}
           /\ n.entries \in Seq(Entry) /\ n.keys \in Seq(Keys) /\ n.children \in Seq(PageIds)
  BY DEF Node

\* A node that may be stored when the pages of pgs are.
Storable(pgs, node) ==
    /\ node \in Node /\ node.kind # "missing"
    /\ Len(node.entries) <= MaxKeys /\ Len(node.keys) <= MaxKeys
    /\ node.kind = "internal" => Len(node.children) = Len(node.keys) + 1
    /\ \A i \in DOMAIN node.children : pgs[node.children[i]].kind # "missing"

LEMMA StoreShaped ==
    ASSUME NEW pgs, NEW np \in Nat, Shaped(pgs, np),
           NEW p \in PageIds, NEW node, Storable(pgs, node),
           NEW np2 \in Nat, np <= np2, p < np2
    PROVE  /\ Shaped([pgs EXCEPT ![p] = node], np2)
           /\ \A q \in PageIds : pgs[q].kind # "missing" =>
                [pgs EXCEPT ![p] = node][q].kind # "missing"
<1> DEFINE new == [pgs EXCEPT ![p] = node]
<1>1. /\ pgs \in [PageIds -> Node] /\ PageIds \subseteq Nat
      /\ node \in Node /\ node.kind # "missing"
  BY Constants DEF Shaped, Storable
<1>2. new \in [PageIds -> Node] /\ new[p] = node /\ \A q \in PageIds : q # p => new[q] = pgs[q]
  BY <1>1
<1> HIDE DEF new
<1>3. \A q \in PageIds : pgs[q].kind # "missing" => new[q].kind # "missing"
  BY <1>1, <1>2
<1>4. \A q \in PageIds : q >= np2 => new[q].kind = "missing"
  BY <1>1, <1>2 DEF Shaped
<1>5. \A q \in PageIds : Len(new[q].entries) <= MaxKeys /\ Len(new[q].keys) <= MaxKeys
  BY <1>1, <1>2 DEF Shaped, Storable
<1>6. \A q \in PageIds : new[q].kind = "internal" => Len(new[q].children) = Len(new[q].keys) + 1
  BY <1>1, <1>2 DEF Shaped, Storable
<1>7. ASSUME NEW q \in PageIds, NEW i \in DOMAIN new[q].children
      PROVE  new[new[q].children[i]].kind # "missing"
  <2>1. new[q].children \in Seq(PageIds)
    BY <1>2, NodeFields
  <2>2. new[q].children[i] \in PageIds
    BY <2>1
  <2>3. pgs[new[q].children[i]].kind # "missing"
    BY <1>2 DEF Shaped, Storable
  <2> QED BY <1>3, <2>2, <2>3
<1>8. Shaped(new, np2)
  BY <1>2, <1>4, <1>5, <1>6, <1>7 DEF Shaped
<1> QED BY <1>3, <1>8 DEF new

LEMMA StoreLevels ==
    ASSUME NEW pgs \in [PageIds -> Node], NEW lev, Levels(pgs, lev),
           NEW p \in PageIds, NEW node \in Node,
           node.kind = "leaf" => lev[p] = 0,
           \A i \in DOMAIN node.children : lev[node.children[i]] + 1 = lev[p]
    PROVE  Levels([pgs EXCEPT ![p] = node], lev)
  BY DEF Levels

\* A page that nothing refers to may be given any level.
LEMMA FreshLevels ==
    ASSUME NEW pgs, NEW np \in PageIds, Shaped(pgs, np), NEW lev, Levels(pgs, lev), NEW v \in Nat,
           NEW node \in Node, node.kind = "leaf" => v = 0,
           \A i \in DOMAIN node.children : pgs[node.children[i]].kind # "missing",
           \A i \in DOMAIN node.children : lev[node.children[i]] + 1 = v
    PROVE  /\ Levels([pgs EXCEPT ![np] = node], [lev EXCEPT ![np] = v])
           /\ [lev EXCEPT ![np] = v][np] = v
           /\ \A q \in PageIds : pgs[q].kind # "missing" =>
                /\ q # np /\ [lev EXCEPT ![np] = v][q] = lev[q]
                /\ [pgs EXCEPT ![np] = node][q] = pgs[q]
<1> DEFINE new == [pgs EXCEPT ![np] = node]
           ulev == [lev EXCEPT ![np] = v]
<1>1. /\ pgs \in [PageIds -> Node] /\ lev \in [PageIds -> Nat] /\ pgs[np].kind = "missing"
      /\ PageIds \subseteq Nat
  BY Constants DEF Shaped, Levels
<1>2. /\ new[np] = node /\ \A q \in PageIds : q # np => new[q] = pgs[q]
      /\ ulev \in [PageIds -> Nat] /\ ulev[np] = v /\ \A q \in PageIds : q # np => ulev[q] = lev[q]
      /\ new \in [PageIds -> Node]
  BY <1>1
<1> HIDE DEF new, ulev
<1>3. ASSUME NEW q \in PageIds, NEW i \in DOMAIN new[q].children
      PROVE  ulev[new[q].children[i]] + 1 = ulev[q]
  <2>1. new[q].children[i] \in PageIds
    <3>1. new[q].children \in Seq(PageIds)
      BY <1>2, NodeFields
    <3> QED BY <3>1
  <2>2. pgs[new[q].children[i]].kind # "missing"
    BY <1>2 DEF Shaped
  <2>3. new[q].children[i] # np
    BY <1>1, <2>2
  <2>4. lev[new[q].children[i]] + 1 = ulev[q]
    BY <1>2 DEF Levels
  <2> QED BY <1>2, <2>1, <2>3, <2>4
<1>4. \A q \in PageIds : new[q].kind = "leaf" => ulev[q] = 0
  BY <1>2 DEF Levels
<1>5. Levels(new, ulev)
  BY <1>2, <1>3, <1>4 DEF Levels
<1>6. \A q \in PageIds : pgs[q].kind # "missing" => q # np /\ ulev[q] = lev[q] /\ new[q] = pgs[q]
  BY <1>1, <1>2
<1> QED BY <1>2, <1>5, <1>6 DEF new, ulev

-----------------------------------------------------------------------------
(* The way from the root. *)

LEMMA FrameFacts ==
    ASSUME NEW fs \in Seq(Frame)
    PROVE  /\ Len(fs) \in Nat /\ DOMAIN fs = 1..Len(fs)
           /\ \A k \in 1..Len(fs) : fs[k].page \in PageIds /\ fs[k].child \in Nat
<1>1. Len(fs) \in Nat /\ DOMAIN fs = 1..Len(fs) /\ \A k \in 1..Len(fs) : fs[k] \in Frame
  OBVIOUS
<1>2. \A f \in Frame : f.page \in PageIds /\ f.child \in Nat
  BY DEF Frame
<1> QED BY <1>1, <1>2

LEMMA TrailLevels ==
    ASSUME NEW pgs, NEW lev, Levels(pgs, lev), NEW rt, NEW fs \in Seq(Frame),
           NEW c \in PageIds, Trail(pgs, rt, fs, c)
    PROVE  \A k \in 1..Len(fs) : lev[fs[k].page] = lev[c] + (Len(fs) - k) + 1
<1> DEFINE N == Len(fs)
           T == {n \in 0..(N - 1) : lev[fs[N - n].page] = lev[c] + n + 1}
<1>1. /\ N \in Nat /\ \A k \in 1..N : fs[k].page \in PageIds
      /\ lev \in [PageIds -> Nat]
  BY FrameFacts DEF Levels
<1>2. \A k \in 1..N : lev[fs[k].page] = lev[IF k = N THEN c ELSE fs[k + 1].page] + 1
  <2> TAKE k \in 1..N
  <2>1. fs[k].page \in PageIds /\ k \in DOMAIN fs
    BY FrameFacts
  <2> QED BY <2>1, SMTT(30) DEF Trail, Levels
<1> HIDE DEF N
<1> SUFFICES ASSUME N # 0 PROVE \A k \in 1..N : lev[fs[k].page] = lev[c] + (N - k) + 1
  BY <1>1 DEF N
<1>3. 0 \in T
  <2>1. N \in 1..N /\ N - 0 = N /\ 0 \in 0..(N - 1)
    BY <1>1
  <2>2. lev[fs[N].page] = lev[c] + 1
    BY <1>2, <2>1
  <2> QED BY <1>1, <2>1, <2>2
<1>4. ASSUME NEW n \in 0..((N - 1) - 1), n \in T PROVE n + 1 \in T
  <2>1. /\ N - (n + 1) \in 1..N /\ N - (n + 1) # N /\ (N - (n + 1)) + 1 = N - n
        /\ n + 1 \in 0..(N - 1) /\ N - n \in 1..N
    BY <1>1
  <2>2. lev[fs[N - (n + 1)].page] = lev[fs[N - n].page] + 1
    BY <1>2, <2>1
  <2>3. lev[fs[N - n].page] = lev[c] + n + 1
    BY <1>4
  <2>4. lev[fs[N - (n + 1)].page] = lev[c] + (n + 1) + 1
    BY <1>1, <2>2, <2>3
  <2> QED BY <2>1, <2>4
<1>5. 0..(N - 1) \subseteq T
  <2> HIDE DEF T
  <2>1. N - 1 \in Nat
    BY <1>1
  <2> QED BY <2>1, <1>3, <1>4, UpTo
<1>6. ASSUME NEW k \in 1..N PROVE lev[fs[k].page] = lev[c] + (N - k) + 1
  <2>1. N - k \in 0..(N - 1) /\ N - (N - k) = k
    BY <1>1
  <2>2. N - k \in T
    BY <1>5, <2>1
  <2> QED BY <2>1, <2>2
<1> QED BY <1>6

LEMMA TrailKept ==
    ASSUME NEW pgs, NEW new, NEW rt, NEW fs, NEW c, Trail(pgs, rt, fs, c),
           \A k \in DOMAIN fs : new[fs[k].page] = pgs[fs[k].page]
    PROVE  Trail(new, rt, fs, c)
  BY DEF Trail

LEMMA TrailExtended ==
    ASSUME NEW pgs, NEW rt, NEW fs \in Seq(Frame), NEW c \in PageIds, Trail(pgs, rt, fs, c),
           pgs[c].kind = "internal", NEW i \in Nat, i \in DOMAIN pgs[c].children
    PROVE  /\ Append(fs, [page |-> c, child |-> i]) \in Seq(Frame)
           /\ Trail(pgs, rt, Append(fs, [page |-> c, child |-> i]), pgs[c].children[i])
<1> DEFINE f == [page |-> c, child |-> i]
           new == Append(fs, f)
           N == Len(fs)
<1>1. f \in Frame /\ f.page = c /\ f.child = i
  BY DEF Frame
<1>2. /\ N \in Nat /\ DOMAIN fs = 1..N
      /\ new \in Seq(Frame) /\ Len(new) = N + 1 /\ new[N + 1] = f
      /\ \A k \in 1..N : new[k] = fs[k] /\ DOMAIN new = 1..(N + 1)
  BY <1>1
<1>3. DOMAIN new = 1..(N + 1)
  BY <1>2
<1> HIDE DEF f, new, N
<1>4. ASSUME NEW k \in 1..(N + 1)
      PROVE  /\ pgs[new[k].page].kind = "internal"
             /\ new[k].child \in DOMAIN pgs[new[k].page].children
             /\ pgs[new[k].page].children[new[k].child] =
                  IF k = N + 1 THEN pgs[c].children[i] ELSE new[k + 1].page
  <2>1. CASE k = N + 1
    BY <1>1, <1>2, <2>1
  <2>2. CASE k # N + 1
    <3>1. k \in 1..N /\ (k # N => k + 1 \in 1..N)
      BY <1>2, <2>2
    <3>2. /\ pgs[fs[k].page].kind = "internal"
          /\ fs[k].child \in DOMAIN pgs[fs[k].page].children
          /\ pgs[fs[k].page].children[fs[k].child] = IF k = N THEN c ELSE fs[k + 1].page
      BY <1>2, <3>1 DEF Trail, N
    <3> QED BY <1>1, <1>2, <2>2, <3>1, <3>2
  <2> QED BY <2>1, <2>2
<1>5. rt = IF N + 1 = 0 THEN pgs[c].children[i] ELSE new[1].page
  <2>1. N + 1 # 0
    BY <1>2
  <2>2. rt = IF N = 0 THEN c ELSE fs[1].page
    BY DEF Trail, N
  <2>3. N = 0 => new[1] = f
    BY <1>2
  <2>4. N # 0 => new[1] = fs[1]
    BY <1>2
  <2> QED BY <1>1, <2>1, <2>2, <2>3, <2>4
<1>6. Trail(pgs, rt, new, pgs[c].children[i])
  BY <1>2, <1>3, <1>4, <1>5 DEF Trail
<1> QED BY <1>2, <1>6 DEF new, f

LEMMA TrailCut ==
    ASSUME NEW pgs, NEW rt, NEW fs \in Seq(Frame), NEW c, Trail(pgs, rt, fs, c), fs # << >>
    PROVE  /\ Front(fs) \in Seq(Frame) /\ Len(Front(fs)) = Len(fs) - 1
           /\ \A k \in 1..(Len(fs) - 1) : Front(fs)[k] = fs[k]
           /\ Last(fs) = fs[Len(fs)] /\ Len(fs) \in 1..Len(fs)
           /\ Trail(pgs, rt, Front(fs), Last(fs).page)
<1> DEFINE N == Len(fs)
           new == Front(fs)
<1>1. N \in Nat /\ N # 0 /\ N \in 1..N /\ DOMAIN fs = 1..N
  OBVIOUS
<1>2. new \in Seq(Frame) /\ Len(new) = N - 1 /\ \A k \in 1..(N - 1) : new[k] = fs[k]
  <2>1. 1 \in 1..(N + 1) /\ N - 1 \in (1 - 1)..N /\ (N - 1) - 1 + 1 = N - 1
    BY <1>1
  <2>2. \A k \in Int : 1 + k - 1 = k
    OBVIOUS
  <2> QED BY <2>1, <2>2, SubSeqFacts DEF Front
<1>3. DOMAIN new = 1..(N - 1)
  BY <1>2
<1> HIDE DEF N, new
<1>4. Last(fs) = fs[N]
  BY DEF Last, N
<1>5. ASSUME NEW k \in 1..(N - 1)
      PROVE  /\ pgs[new[k].page].kind = "internal"
             /\ new[k].child \in DOMAIN pgs[new[k].page].children
             /\ pgs[new[k].page].children[new[k].child] =
                  IF k = N - 1 THEN fs[N].page ELSE new[k + 1].page
  <2>1. k \in 1..N /\ k # N /\ (k # N - 1 => k + 1 \in 1..(N - 1)) /\ (k = N - 1 => k + 1 = N)
    BY <1>1
  <2>2. /\ pgs[fs[k].page].kind = "internal"
        /\ fs[k].child \in DOMAIN pgs[fs[k].page].children
        /\ pgs[fs[k].page].children[fs[k].child] = IF k = N THEN c ELSE fs[k + 1].page
    BY <1>1, <2>1 DEF Trail, N
  <2> QED BY <1>2, <2>1, <2>2
<1>6. rt = IF N - 1 = 0 THEN fs[N].page ELSE new[1].page
  <2>1. rt = fs[1].page
    BY <1>1 DEF Trail, N
  <2>2. N - 1 # 0 => 1 \in 1..(N - 1)
    BY <1>1
  <2>3. N - 1 = 0 => N = 1
    BY <1>1
  <2> QED BY <1>2, <2>1, <2>2, <2>3
<1>7. Trail(pgs, rt, new, fs[N].page)
  BY <1>2, <1>3, <1>5, <1>6 DEF Trail
<1> QED BY <1>1, <1>2, <1>4, <1>7 DEF new, N

-----------------------------------------------------------------------------
(* The steps of a call keep the shape of the nodes. *)

LEMMA WalkFacts ==
    ASSUME WalkInv
    PROVE  /\ TypeOK /\ Shaped(pages, nextPage) /\ pages \in [PageIds -> Node]
           /\ root \in PageIds /\ nextPage \in 2..(MaxPage + 1) /\ nextPage \in Nat
           /\ at \in PageIds /\ arg \in Entry /\ arg.key \in Keys /\ arg.row \in Rows
           /\ path \in Seq(Frame) /\ pages[root].kind # "missing"
           /\ nextPage <= MaxPage => nextPage \in PageIds
  BY Constants DEF WalkInv, TypeOK, Shaped, Entry, PageIds

\* A call that ends leaves only the working tree to look at.
LEMMA EndedWalk ==
    ASSUME WalkInv, EndCall, UNCHANGED <<saved, kept, faults>>,
           failed' \in BOOLEAN, entries' \subseteq Entry,
           root' \in PageIds, nextPage' \in 2..(MaxPage + 1),
           Shaped(pages', nextPage'), pages'[root'].kind # "missing",
           NEW lev, Levels(pages', lev)
    PROVE  WalkInv'
<1>1. pc' = "idle" /\ arg' \in Entry /\ at' \in PageIds /\ path' \in Seq(Frame)
      /\ split' \in [separator : Keys, right : PageIds \cup {None}] /\ out' \in Seq(Rows)
  BY Constants DEF EndCall
<1>2. pages' \in [PageIds -> Node]
      /\ \A p \in PageIds : Len(pages'[p].entries) <= MaxKeys /\ Len(pages'[p].keys) <= MaxKeys
  BY DEF Shaped
<1>3. TypeOK'
  BY <1>1, <1>2 DEF WalkInv, TypeOK, Phases
<1>4. pc' # "down" /\ pc' # "up"
  BY <1>1
<1>5. /\ Shaped(saved.pages, saved.nextPage)' /\ (saved.pages[saved.root].kind # "missing")'
      /\ (\E l : Levels(saved.pages, l))'
  BY DEF WalkInv
<1>6. Shaped(pages, nextPage)' /\ (pages[root].kind # "missing")'
  OBVIOUS
<1>7. (\E l : Levels(pages, l) /\ (pc = "up" => l[split.right] = l[Pending]))'
  BY <1>4
<1> QED BY <1>3, <1>4, <1>5, <1>6, <1>7 DEF WalkInv

\* An insert that ends with one page stored, or none.
LEMMA RaiseWalk ==
    ASSUME WalkInv, Raise, nextPage' \in 2..(MaxPage + 1), nextPage <= nextPage',
           NEW lev, Levels(pages, lev),
           \/ UNCHANGED pages
           \/ \E p \in PageIds, node \in Node :
                /\ pages[p].kind # "missing" /\ pages' = [pages EXCEPT ![p] = node]
                /\ Storable(pages, node)
                /\ node.kind = "leaf" => lev[p] = 0
                /\ \A i \in DOMAIN node.children : lev[node.children[i]] + 1 = lev[p]
    PROVE  WalkInv'
<1>1. /\ EndCall /\ UNCHANGED <<saved, kept, faults>> /\ failed' \in BOOLEAN
      /\ root' = root /\ entries' = entries
  BY DEF Raise
<1>2. entries' \subseteq Entry /\ root' \in PageIds
  BY <1>1 DEF WalkInv, TypeOK
<1>3. nextPage \in Nat /\ nextPage' \in Nat /\ pages \in [PageIds -> Node]
  BY WalkFacts, Constants
<1>4. Shaped(pages', nextPage') /\ pages'[root'].kind # "missing" /\ Levels(pages', lev)
  <2>1. CASE UNCHANGED pages
    <3>1. Shaped(pages, nextPage')
      <4>1. \A p \in PageIds : p >= nextPage' => p >= nextPage
        BY <1>3, Constants
      <4> QED BY WalkFacts, <4>1 DEF Shaped
    <3> QED BY <1>1, <2>1, <3>1, WalkFacts
  <2>2. CASE ~UNCHANGED pages
    <3>1. PICK p \in PageIds, node \in Node :
                /\ pages[p].kind # "missing" /\ pages' = [pages EXCEPT ![p] = node]
                /\ Storable(pages, node)
                /\ node.kind = "leaf" => lev[p] = 0
                /\ \A i \in DOMAIN node.children : lev[node.children[i]] + 1 = lev[p]
      BY <2>2
    <3>2. p < nextPage'
      <4>1. ~(p >= nextPage) /\ p \in Nat
        BY <3>1, WalkFacts, Constants DEF Shaped
      <4> QED BY <1>3, <4>1
    <3>3. Shaped(pages, nextPage) /\ root \in PageIds /\ pages[root].kind # "missing"
      BY WalkFacts
    <3>4. /\ Shaped([pages EXCEPT ![p] = node], nextPage')
          /\ \A q \in PageIds : pages[q].kind # "missing" =>
                [pages EXCEPT ![p] = node][q].kind # "missing"
      <4>1. Storable(pages, node) /\ nextPage <= nextPage' /\ nextPage' \in Nat /\ nextPage \in Nat
        BY <1>3, <3>1
      <4>2. \A np2 \in Nat : nextPage <= np2 /\ p < np2 =>
              /\ Shaped([pages EXCEPT ![p] = node], np2)
              /\ \A q \in PageIds : pages[q].kind # "missing" =>
                    [pages EXCEPT ![p] = node][q].kind # "missing"
        BY <3>3, <4>1, StoreShaped
      <4> QED BY <3>2, <4>1, <4>2
    <3>5. Levels([pages EXCEPT ![p] = node], lev)
      BY <1>3, <3>1, StoreLevels
    <3> QED BY <1>1, <3>1, <3>3, <3>4, <3>5
  <2> QED BY <2>1, <2>2
<1> QED BY <1>1, <1>2, <1>4, EndedWalk

LEMMA StoreAndReturnWalk ==
    ASSUME WalkInv, NEW p \in PageIds, NEW node \in Node, StoreAndReturn(p, node),
           pages[p].kind # "missing", Storable(pages, node),
           NEW lev, Levels(pages, lev),
           node.kind = "leaf" => lev[p] = 0,
           \A i \in DOMAIN node.children : lev[node.children[i]] + 1 = lev[p]
    PROVE  WalkInv'
<1>0. /\ nextPage \in Nat /\ nextPage \in 2..(MaxPage + 1) /\ pages \in [PageIds -> Node]
      /\ nextPage <= nextPage
  BY WalkFacts
<1>1. CASE Fits(node) /\ pages' = [pages EXCEPT ![p] = node] /\ Return(root) /\ UNCHANGED nextPage
  <2>1. /\ EndCall /\ UNCHANGED <<saved, kept, faults>> /\ failed' \in BOOLEAN
        /\ root' = root /\ entries' = entries \cup {arg}
    BY <1>1 DEF Return, WalkInv, TypeOK
  <2>2. entries' \subseteq Entry /\ root' \in PageIds
    BY <2>1 DEF WalkInv, TypeOK
  <2>3. p < nextPage
    <3>1. ~(p >= nextPage) /\ p \in Nat
      BY WalkFacts, Constants DEF Shaped
    <3> QED BY <1>0, <3>1
  <2>4. Shaped(pages, nextPage) /\ root \in PageIds /\ pages[root].kind # "missing"
    BY WalkFacts
  <2>5. /\ Shaped([pages EXCEPT ![p] = node], nextPage)
        /\ \A q \in PageIds : pages[q].kind # "missing" =>
              [pages EXCEPT ![p] = node][q].kind # "missing"
    BY <1>0, <2>3, <2>4, StoreShaped
  <2>6. Levels([pages EXCEPT ![p] = node], lev)
    BY <1>0, StoreLevels
  <2>7. /\ Shaped(pages', nextPage') /\ pages'[root'].kind # "missing" /\ Levels(pages', lev)
        /\ nextPage' \in 2..(MaxPage + 1)
    BY <1>0, <1>1, <2>1, <2>4, <2>5, <2>6
  <2> QED BY <2>1, <2>2, <2>7, EndedWalk
<1>2. CASE ~Fits(node) /\ Raise /\ UNCHANGED <<pages, nextPage>>
  <2>1. nextPage' \in 2..(MaxPage + 1) /\ nextPage <= nextPage'
    BY <1>0, <1>2
  <2> QED BY <1>2, <2>1, RaiseWalk
<1> QED BY <1>1, <1>2 DEF StoreAndReturn

\* Page p may be split into the nodes left and right, the right one in page np.
Splittable(pgs, np, lev, p, left, right) ==
    /\ np \in PageIds /\ Shaped(pgs, np) /\ Levels(pgs, lev)
    /\ p \in PageIds /\ pgs[p].kind # "missing"
    /\ Storable(pgs, left) /\ Storable(pgs, right)
    /\ left.kind = "leaf" => lev[p] = 0
    /\ right.kind = "leaf" => lev[p] = 0
    /\ \A i \in DOMAIN left.children : lev[left.children[i]] + 1 = lev[p]
    /\ \A i \in DOMAIN right.children : lev[right.children[i]] + 1 = lev[p]

\* The pages after that split.
Halved(pgs, np, p, left, right, new) ==
    /\ p # np /\ Shaped(new, np + 1)
    /\ new[p] = left /\ new[np] = right
    /\ \A q \in PageIds : q # p /\ q # np => new[q] = pgs[q]
    /\ \A q \in PageIds : pgs[q].kind # "missing" => new[q].kind # "missing"
    /\ \E l : Levels(new, l) /\ l[np] = l[p]

LEMMA SplitStored ==
    ASSUME NEW pgs, NEW np, NEW lev, NEW p, NEW left, NEW right,
           Splittable(pgs, np, lev, p, left, right)
    PROVE  Halved(pgs, np, p, left, right, [pgs EXCEPT ![p] = left, ![np] = right])
<1>0. /\ np \in PageIds /\ Shaped(pgs, np) /\ Levels(pgs, lev)
      /\ p \in PageIds /\ pgs[p].kind # "missing"
      /\ Storable(pgs, left) /\ Storable(pgs, right)
      /\ left.kind = "leaf" => lev[p] = 0
      /\ right.kind = "leaf" => lev[p] = 0
      /\ \A i \in DOMAIN left.children : lev[left.children[i]] + 1 = lev[p]
      /\ \A i \in DOMAIN right.children : lev[right.children[i]] + 1 = lev[p]
  BY DEF Splittable
<1> DEFINE mid == [pgs EXCEPT ![np] = right]
           new == [pgs EXCEPT ![p] = left, ![np] = right]
           ulev == [lev EXCEPT ![np] = lev[p]]
<1>1. /\ pgs \in [PageIds -> Node] /\ left \in Node /\ right \in Node /\ lev[p] \in Nat
      /\ np \in Nat /\ np + 1 \in Nat /\ np <= np + 1 /\ np < np + 1 /\ p \in Nat
      /\ left.children \in Seq(PageIds) /\ np + 1 <= np + 1
  BY <1>0, Constants, NodeFields DEF Shaped, Storable, Levels
<1>2. p # np /\ p < np + 1
  <2>1. ~(p >= np)
    BY <1>0 DEF Shaped
  <2> QED BY <1>1, <2>1
<1>3. new = [mid EXCEPT ![p] = left]
  BY <1>1, <1>2
<1>4. /\ Shaped(mid, np + 1)
      /\ \A q \in PageIds : pgs[q].kind # "missing" => mid[q].kind # "missing"
  BY <1>0, <1>1, StoreShaped
<1>5. \A i \in DOMAIN right.children : pgs[right.children[i]].kind # "missing"
  BY <1>0 DEF Storable
<1>6. /\ Levels(mid, ulev) /\ ulev[np] = lev[p]
      /\ \A q \in PageIds : pgs[q].kind # "missing" => q # np /\ ulev[q] = lev[q] /\ mid[q] = pgs[q]
  <2> DEFINE v == lev[p]
  <2>1. v \in Nat /\ right \in Node /\ (right.kind = "leaf" => v = 0)
    BY <1>0, <1>1
  <2>2. \A i \in DOMAIN right.children : lev[right.children[i]] + 1 = v
    BY <1>0
  <2> HIDE DEF v
  <2>3. /\ Levels([pgs EXCEPT ![np] = right], [lev EXCEPT ![np] = v])
        /\ [lev EXCEPT ![np] = v][np] = v
        /\ \A q \in PageIds : pgs[q].kind # "missing" =>
             /\ q # np /\ [lev EXCEPT ![np] = v][q] = lev[q]
             /\ [pgs EXCEPT ![np] = right][q] = pgs[q]
    BY <1>0, <1>5, <2>1, <2>2, FreshLevels
  <2> QED BY <2>3 DEF v
<1>7. \A q \in PageIds : q # p /\ q # np => new[q] = pgs[q]
  BY <1>1
<1>7a. new[p] = left /\ new[np] = right
  BY <1>0, <1>1, <1>2
<1> HIDE DEF mid, new, ulev
<1>8. Storable(mid, left)
  <2>1. ASSUME NEW i \in DOMAIN left.children PROVE mid[left.children[i]].kind # "missing"
    <3>1. left.children[i] \in PageIds /\ pgs[left.children[i]].kind # "missing"
      BY <1>0, <1>1 DEF Storable
    <3> QED BY <1>4, <3>1
  <2> QED BY <1>0, <2>1 DEF Storable
<1>9. /\ Shaped(new, np + 1)
      /\ \A q \in PageIds : mid[q].kind # "missing" => new[q].kind # "missing"
  <2> DEFINE n == np + 1
  <2>1. n \in Nat /\ n <= n /\ p < n
    BY <1>1, <1>2
  <2>2. Shaped(mid, n)
    BY <1>4
  <2> HIDE DEF n
  <2>3. /\ Shaped([mid EXCEPT ![p] = left], n)
        /\ \A q \in PageIds : mid[q].kind # "missing" =>
              [mid EXCEPT ![p] = left][q].kind # "missing"
    BY <1>0, <1>8, <2>1, <2>2, StoreShaped
  <2> QED BY <1>3, <2>3 DEF n
<1>10. Levels(new, ulev)
  <2>1. mid \in [PageIds -> Node]
    BY <1>4 DEF Shaped
  <2>2. ulev[p] = lev[p]
    BY <1>0, <1>6
  <2>3. ASSUME NEW i \in DOMAIN left.children PROVE ulev[left.children[i]] + 1 = ulev[p]
    <3>1. left.children[i] \in PageIds /\ pgs[left.children[i]].kind # "missing"
      BY <1>0, <1>1 DEF Storable
    <3> QED BY <1>0, <1>6, <2>2, <3>1
  <2> QED BY <1>0, <1>1, <1>3, <1>6, <2>1, <2>2, <2>3, StoreLevels
<1>11. ulev[np] = ulev[p]
  BY <1>0, <1>6
<1>12. \A q \in PageIds : pgs[q].kind # "missing" => new[q].kind # "missing"
  BY <1>4, <1>9
<1>13. \E l : Levels(new, l) /\ l[np] = l[p]
  BY <1>10, <1>11
<1> QED BY <1>2, <1>7, <1>7a, <1>9, <1>12, <1>13 DEF new, Halved

\* An insert is about to split page p, to which the frames lead.
SplitDue(p, left, right, sep, frames, lev) ==
    /\ p \in PageIds /\ pages[p].kind # "missing" /\ sep \in Keys /\ frames \in Seq(Frame)
    /\ pc \in {"down", "up"}
    /\ Trail(pages, root, frames, p) /\ \A k \in DOMAIN frames : frames[k].page # p
    /\ nextPage \in PageIds => Storable(pages, left) /\ Storable(pages, right)
    /\ Levels(pages, lev)
    /\ left.kind = "leaf" => lev[p] = 0
    /\ right.kind = "leaf" => lev[p] = 0
    /\ \A i \in DOMAIN left.children : lev[left.children[i]] + 1 = lev[p]
    /\ \A i \in DOMAIN right.children : lev[right.children[i]] + 1 = lev[p]

LEMMA SplitIntoWalk ==
    ASSUME WalkInv, NEW p, NEW left, NEW right, NEW sep, NEW frames, NEW lev,
           SplitDue(p, left, right, sep, frames, lev), SplitInto(p, left, right, sep, frames)
    PROVE  WalkInv'
<1>d. /\ p \in PageIds /\ pages[p].kind # "missing" /\ sep \in Keys /\ frames \in Seq(Frame)
      /\ pc \in {"down", "up"}
      /\ Trail(pages, root, frames, p) /\ \A k \in DOMAIN frames : frames[k].page # p
      /\ nextPage \in PageIds => Storable(pages, left) /\ Storable(pages, right)
      /\ Levels(pages, lev)
      /\ left.kind = "leaf" => lev[p] = 0
      /\ right.kind = "leaf" => lev[p] = 0
      /\ \A i \in DOMAIN left.children : lev[left.children[i]] + 1 = lev[p]
      /\ \A i \in DOMAIN right.children : lev[right.children[i]] + 1 = lev[p]
  BY DEF SplitDue
<1>0. /\ nextPage \in Nat /\ nextPage \in 2..(MaxPage + 1) /\ pages \in [PageIds -> Node]
      /\ Shaped(pages, nextPage) /\ root \in PageIds /\ pages[root].kind # "missing"
      /\ nextPage <= nextPage /\ (nextPage <= MaxPage => nextPage \in PageIds)
      /\ MaxPage \in Nat
  BY WalkFacts, Constants
<1>1. ASSUME Allocate
      PROVE  /\ nextPage' = nextPage + 1 /\ nextPage' \in 2..(MaxPage + 1) /\ nextPage <= nextPage'
             /\ nextPage \in PageIds /\ Storable(pages, left) /\ Storable(pages, right)
             /\ left \in Node
  <2>1. nextPage <= MaxPage /\ nextPage' = nextPage + 1
    BY <1>1 DEF Allocate
  <2>2. nextPage \in PageIds /\ nextPage' \in 2..(MaxPage + 1) /\ nextPage <= nextPage'
    BY <1>0, <2>1
  <2> QED BY <1>d, <2>1, <2>2 DEF Storable
<1>2. CASE OutOfPages
  <2>1. Raise /\ UNCHANGED pages /\ nextPage' = nextPage
    BY <1>2 DEF OutOfPages
  <2>2. nextPage' \in 2..(MaxPage + 1) /\ nextPage <= nextPage'
    BY <1>0, <2>1
  <2> QED BY <1>d, <2>1, <2>2, RaiseWalk
<1>3. CASE Allocate /\ ~Fits(left) /\ Raise /\ UNCHANGED pages
  <2>1. nextPage' \in 2..(MaxPage + 1) /\ nextPage <= nextPage'
    BY <1>1, <1>3
  <2> QED BY <1>d, <1>3, <2>1, RaiseWalk
<1>4. CASE Allocate /\ Fits(left) /\ ~Fits(right) /\ pages' = [pages EXCEPT ![p] = left] /\ Raise
  <2>1. /\ nextPage' \in 2..(MaxPage + 1) /\ nextPage <= nextPage'
        /\ Storable(pages, left) /\ left \in Node
    BY <1>1, <1>4
  <2>2. \E q \in PageIds, node \in Node :
                /\ pages[q].kind # "missing" /\ pages' = [pages EXCEPT ![q] = node]
                /\ Storable(pages, node)
                /\ node.kind = "leaf" => lev[q] = 0
                /\ \A i \in DOMAIN node.children : lev[node.children[i]] + 1 = lev[q]
    BY <1>d, <1>4, <2>1
  <2> QED BY <1>d, <1>4, <2>1, <2>2, RaiseWalk
<1>5. CASE /\ Allocate /\ Fits(left) /\ Fits(right)
           /\ pages' = [pages EXCEPT ![p] = left, ![nextPage] = right]
           /\ split' = [separator |-> sep, right |-> nextPage]
           /\ pc' = "up" /\ path' = frames
           /\ UNCHANGED <<root, saved, arg, at, out, failed, entries, kept, faults>>
  <2>1. /\ nextPage' = nextPage + 1 /\ nextPage' \in 2..(MaxPage + 1)
        /\ nextPage \in PageIds /\ Storable(pages, left) /\ Storable(pages, right)
    BY <1>1, <1>5
  <2>2. /\ p # nextPage /\ Shaped(pages', nextPage + 1)
        /\ pages'[nextPage] = right
        /\ \A q \in PageIds : q # p /\ q # nextPage => pages'[q] = pages[q]
        /\ \A q \in PageIds : pages[q].kind # "missing" => pages'[q].kind # "missing"
        /\ \E l : Levels(pages', l) /\ l[nextPage] = l[p]
    <3>1. Splittable(pages, nextPage, lev, p, left, right)
      BY <1>d, <1>0, <2>1 DEF Splittable
    <3>2. Halved(pages, nextPage, p, left, right, pages')
      BY <1>5, <3>1, SplitStored
    <3> QED BY <3>2 DEF Halved
  <2>3. Shaped(pages, nextPage)' /\ (pages[root].kind # "missing")'
    BY <1>0, <1>5, <2>1, <2>2
  <2>4. /\ split'.right = nextPage /\ split'.separator = sep
        /\ split' \in [separator : Keys, right : PageIds \cup {None}]
    BY <1>d, <1>5, <2>1
  <2>5. pages'[split'.right].kind # "missing"
    BY <2>1, <2>2, <2>4 DEF Storable
  <2>6. Trail(pages', root, frames, p)
    <3>1. ASSUME NEW k \in DOMAIN frames PROVE pages'[frames[k].page] = pages[frames[k].page]
      <4>1. frames[k].page \in PageIds /\ frames[k].page # p
        BY <1>d, FrameFacts
      <4>2. pages[frames[k].page].kind = "internal"
        BY <1>d DEF Trail
      <4>3. pages[nextPage].kind = "missing"
        BY <1>0, <2>1 DEF Shaped
      <4> QED BY <2>2, <4>1, <4>2, <4>3
    <3> QED BY <1>d, <3>1, TrailKept
  <2>7. Pending' = p
    <3>1. Pending' = IF Len(frames) = 0 THEN root
                     ELSE pages'[frames[Len(frames)].page].children[frames[Len(frames)].child]
      BY <1>5 DEF Pending
    <3>2. Len(frames) # 0 => Len(frames) \in DOMAIN frames
      BY <1>d
    <3> QED BY <2>6, <3>1, <3>2 DEF Trail
  <2>8. TypeOK'
    <3>1. pages' \in [PageIds -> Node]
          /\ \A q \in PageIds : Len(pages'[q].entries) <= MaxKeys /\ Len(pages'[q].keys) <= MaxKeys
      BY <2>2 DEF Shaped
    <3> QED BY <1>d, <1>5, <2>1, <2>4, <3>1 DEF WalkInv, TypeOK, Phases
  <2>9. /\ Shaped(saved.pages, saved.nextPage)' /\ (saved.pages[saved.root].kind # "missing")'
        /\ (\E l : Levels(saved.pages, l))'
    BY <1>5 DEF WalkInv
  <2>10. (Trail(pages, root, path, Pending))'
    BY <1>5, <2>6, <2>7
  <2>11. (\E l : Levels(pages, l) /\ (pc = "up" => l[split.right] = l[Pending]))'
    BY <2>2, <2>4, <2>7
  <2>12. (split.right \in PageIds)' /\ pc' # "down"
    BY <1>5, <2>1, <2>4
  <2> QED BY <2>3, <2>5, <2>8, <2>9, <2>10, <2>11, <2>12 DEF WalkInv
<1> QED BY <1>2, <1>3, <1>4, <1>5 DEF SplitInto

LEMMA Half ==
    ASSUME NEW n \in Nat
    PROVE  n \div 2 \in Nat /\ 2 * (n \div 2) <= n /\ n <= 2 * (n \div 2) + 1
  OBVIOUS

\* The two halves of a leaf that has one entry too many.
LEMMA LeafHalves ==
    ASSUME NEW es \in Seq(Entry), Len(es) = MaxKeys + 1
    PROVE  LET half == Len(es) \div 2
           IN  /\ half \in 1..MaxKeys /\ half + 1 \in 1..Len(es) /\ es[half + 1].key \in Keys
               /\ Front_(es, half) \in Seq(Entry) /\ Len(Front_(es, half)) = half
               /\ \A n \in 1..half : Front_(es, half)[n] = es[n]
               /\ Rest(es, half) \in Seq(Entry) /\ Len(Rest(es, half)) = Len(es) - half
               /\ Len(es) - half \in 1..MaxKeys
               /\ \A n \in 1..(Len(es) - half) : Rest(es, half)[n] = es[half + n]
<1> DEFINE half == Len(es) \div 2
<1>1. half \in Nat /\ 2 * half <= MaxKeys + 1 /\ MaxKeys + 1 <= 2 * half + 1 /\ MaxKeys \in Nat /\ MaxKeys >= 2
  BY Constants, Half
<1> HIDE DEF half
<1>2. half \in 1..MaxKeys /\ half + 1 \in 1..Len(es) /\ Len(es) - half \in 1..MaxKeys
      /\ half \in 0..Len(es)
  BY <1>1
<1>3. es[half + 1] \in Entry
  BY <1>2
<1>4. es[half + 1].key \in Keys
  BY <1>3 DEF Entry
<1>5. /\ Front_(es, half) \in Seq(Entry) /\ Len(Front_(es, half)) = half
      /\ \A n \in 1..half : Front_(es, half)[n] = es[n]
      /\ Rest(es, half) \in Seq(Entry) /\ Len(Rest(es, half)) = Len(es) - half
      /\ \A n \in 1..(Len(es) - half) : Rest(es, half)[n] = es[half + n]
  BY <1>2, PartFacts
<1> QED BY <1>2, <1>4, <1>5 DEF half

LEMMA InsertInLeafWalk ==
    ASSUME WalkInv, InsertInLeaf
    PROVE  WalkInv'
<1> DEFINE es == WithEntry(pages[at].entries, arg)
<1>1. /\ pc = "down" /\ pages[at].kind = "leaf" /\ at \in PageIds /\ arg \in Entry
      /\ pages[at] \in Node /\ Shaped(pages, nextPage) /\ Trail(pages, root, path, at)
      /\ path \in Seq(Frame) /\ (nextPage <= MaxPage => nextPage \in PageIds)
  BY WalkFacts DEF InsertInLeaf, WalkInv
<1>2. PICK lev : Levels(pages, lev)
  BY DEF WalkInv
<1>3. /\ pages[at].next \in PageIds \cup {None} /\ pages[at].entries \in Seq(Entry)
      /\ lev[at] = 0 /\ Len(pages[at].entries) <= MaxKeys
  BY <1>1, <1>2, NodeFields DEF Levels, Shaped
<1>4. es \in Seq(Entry) /\ Len(es) = Len(pages[at].entries) + 1
  BY <1>1, <1>3, WithEntryType
<1>5. Len(es) \in Nat /\ Len(pages[at].entries) \in Nat /\ MaxKeys \in Nat
  BY <1>3, <1>4, Constants
<1>6. IF Len(es) <= MaxKeys
      THEN StoreAndReturn(at, Leaf(pages[at].next, es))
      ELSE SplitLeaf(pages[at].next, es)
  BY DEF InsertInLeaf
<1> HIDE DEF es
<1>7. \A n \in PageIds \cup {None}, xs \in Seq(Entry) : Len(xs) <= MaxKeys =>
        /\ Storable(pages, Leaf(n, xs)) /\ Leaf(n, xs) \in Node
        /\ DOMAIN Leaf(n, xs).children = {}
  <2> TAKE n \in PageIds \cup {None}, xs \in Seq(Entry)
  <2> HAVE Len(xs) <= MaxKeys
  <2>1. /\ Leaf(n, xs) \in Node /\ Leaf(n, xs).kind = "leaf"
        /\ Leaf(n, xs).entries = xs /\ Leaf(n, xs).keys = << >>
        /\ Leaf(n, xs).children = << >>
    BY LeafFacts
  <2>2. Len(<< >>) <= MaxKeys /\ DOMAIN << >> = {}
    BY Constants
  <2> QED BY <2>1, <2>2 DEF Storable
<1>8. CASE Len(es) <= MaxKeys
  <2> DEFINE node == Leaf(pages[at].next, es)
  <2>1. StoreAndReturn(at, node) /\ Storable(pages, node) /\ node \in Node /\ DOMAIN node.children = {}
    BY <1>3, <1>4, <1>6, <1>7, <1>8
  <2> HIDE DEF node
  <2>2. pages[at].kind # "missing" /\ \A i \in DOMAIN node.children : lev[node.children[i]] + 1 = lev[at]
    BY <1>1, <2>1
  <2> QED BY <1>1, <1>2, <1>3, <2>1, <2>2, StoreAndReturnWalk
<1>9. CASE ~(Len(es) <= MaxKeys)
  <2> DEFINE half == Len(es) \div 2
             left == Leaf(nextPage, Front_(es, half))
             right == Leaf(pages[at].next, Rest(es, half))
  <2>1. Len(es) = MaxKeys + 1
    BY <1>3, <1>4, <1>5, <1>9
  <2>2. /\ half \in 1..MaxKeys /\ es[half + 1].key \in Keys
        /\ Front_(es, half) \in Seq(Entry) /\ Len(Front_(es, half)) = half
        /\ Rest(es, half) \in Seq(Entry) /\ Len(Rest(es, half)) = Len(es) - half
        /\ Len(es) - half \in 1..MaxKeys
    BY <1>4, <2>1, LeafHalves
  <2>3. SplitInto(at, left, right, es[half + 1].key, path)
    BY <1>6, <1>9 DEF SplitLeaf
  <2> HIDE DEF half
  <2>4. Len(Front_(es, half)) <= MaxKeys /\ Len(Rest(es, half)) <= MaxKeys
    BY <1>5, <2>2
  <2>5. /\ nextPage \in PageIds => Storable(pages, left) /\ Storable(pages, right)
        /\ DOMAIN right.children = {}
    BY <1>3, <1>7, <2>2, <2>4
  <2>6. left.children = << >> /\ DOMAIN left.children = {}
    BY DEF Leaf
  <2> HIDE DEF left, right
  <2>7. /\ \A i \in DOMAIN left.children : lev[left.children[i]] + 1 = lev[at]
        /\ \A i \in DOMAIN right.children : lev[right.children[i]] + 1 = lev[at]
    BY <2>5, <2>6
  <2>8. \A k \in DOMAIN path : path[k].page # at
    BY <1>1 DEF Trail
  <2>9. pc \in {"down", "up"} /\ pages[at].kind # "missing"
    BY <1>1
  <2>10. SplitDue(at, left, right, es[half + 1].key, path, lev)
    BY <1>1, <1>2, <1>3, <2>2, <2>5, <2>7, <2>8, <2>9 DEF SplitDue
  <2> QED BY <2>3, <2>10, SplitIntoWalk
<1> QED BY <1>8, <1>9

\* What the caller in the last frame is about to store: its node with the new child.
ParentKeys == InsertAt(pages[path[Len(path)].page].keys, path[Len(path)].child, split.separator)
ParentChildren ==
    InsertAt(pages[path[Len(path)].page].children, path[Len(path)].child + 1, split.right)

LEMMA ParentFacts ==
    ASSUME WalkInv, pc = "up", path # << >>,
           NEW lev, Levels(pages, lev), lev[split.right] = lev[Pending],
           NEW p, p = path[Len(path)].page
    PROVE  /\ p \in PageIds /\ pages[p].kind = "internal"
           /\ path[Len(path)].child \in 1..Len(pages[p].children)
           /\ Len(pages[p].children) = Len(pages[p].keys) + 1
           /\ pages[p].keys \in Seq(Keys) /\ pages[p].children \in Seq(PageIds)
           /\ split.right \in PageIds /\ split.separator \in Keys
           /\ ParentKeys \in Seq(Keys) /\ Len(ParentKeys) = Len(pages[p].keys) + 1
           /\ Len(ParentKeys) \in Nat /\ Len(ParentKeys) <= MaxKeys + 1
           /\ ParentChildren \in Seq(PageIds) /\ Len(ParentChildren) = Len(ParentKeys) + 1
           /\ \A n \in 1..Len(ParentChildren) :
                pages[ParentChildren[n]].kind # "missing" /\ lev[ParentChildren[n]] + 1 = lev[p]
           /\ Pending = pages[p].children[path[Len(path)].child]
<1> DEFINE N == Len(path)
           i == path[N].child
<1>1. /\ path \in Seq(Frame) /\ pages \in [PageIds -> Node] /\ Shaped(pages, nextPage)
      /\ Trail(pages, root, path, Pending)
      /\ split.right \in PageIds /\ pages[split.right].kind # "missing"
      /\ split.separator \in Keys
  BY WalkFacts DEF WalkInv, TypeOK
<1>2. N \in 1..N /\ N \in DOMAIN path /\ N \in Nat /\ N # 0
  BY <1>1
<1>3. p \in PageIds /\ i \in Nat
  BY <1>1, <1>2, FrameFacts
<1>4. pages[p].kind = "internal" /\ i \in DOMAIN pages[p].children /\ pages[p].children[i] = Pending
  BY <1>1, <1>2 DEF Trail
<1>5. /\ pages[p].keys \in Seq(Keys) /\ pages[p].children \in Seq(PageIds)
      /\ Len(pages[p].children) = Len(pages[p].keys) + 1
      /\ Len(pages[p].keys) <= MaxKeys
  BY <1>1, <1>3, <1>4, NodeFields DEF Shaped
<1>6. i \in 1..Len(pages[p].children) /\ Len(pages[p].keys) \in Nat /\ MaxKeys \in Nat
  BY <1>4, <1>5, Constants, SMTT(30)
<1>7. i \in 1..(Len(pages[p].keys) + 1) /\ i + 1 \in 1..(Len(pages[p].children) + 1)
  BY <1>5, <1>6
<1> HIDE DEF N, i
<1>8. ParentKeys = InsertAt(pages[p].keys, i, split.separator)
      /\ ParentChildren = InsertAt(pages[p].children, i + 1, split.right)
  BY DEF ParentKeys, ParentChildren, N, i
<1>9. ParentKeys \in Seq(Keys) /\ Len(ParentKeys) = Len(pages[p].keys) + 1
  BY <1>1, <1>5, <1>7, <1>8, InsertAtFacts
<1>10. Len(ParentKeys) \in Nat /\ Len(ParentKeys) <= MaxKeys + 1
  BY <1>5, <1>6, <1>9
<1>11. /\ ParentChildren \in Seq(PageIds) /\ Len(ParentChildren) = Len(pages[p].children) + 1
       /\ \A n \in 1..(Len(pages[p].children) + 1) :
            ParentChildren[n] = IF n < i + 1 THEN pages[p].children[n]
                                ELSE IF n = i + 1 THEN split.right
                                ELSE pages[p].children[n - 1]
  <2> DEFINE j == i + 1
  <2>1. j \in 1..(Len(pages[p].children) + 1)
    BY <1>7
  <2> HIDE DEF j
  <2> DEFINE s == pages[p].children
             r == split.right
  <2>2. s \in Seq(PageIds) /\ r \in PageIds /\ j \in 1..(Len(s) + 1)
    BY <1>1, <1>5, <2>1
  <2> HIDE DEF s, r
  <2>3. /\ InsertAt(s, j, r) \in Seq(PageIds) /\ Len(InsertAt(s, j, r)) = Len(s) + 1
        /\ \A n \in 1..(Len(s) + 1) :
                InsertAt(s, j, r)[n] = IF n < j THEN s[n] ELSE IF n = j THEN r ELSE s[n - 1]
    BY <2>2, InsertAtFacts
  <2> QED BY <1>8, <2>3 DEF j, s, r
<1>12. ASSUME NEW n \in 1..(Len(pages[p].children) + 1)
       PROVE  pages[ParentChildren[n]].kind # "missing" /\ lev[ParentChildren[n]] + 1 = lev[p]
  <2>1. \A m \in 1..Len(pages[p].children) :
            /\ pages[pages[p].children[m]].kind # "missing"
            /\ lev[pages[p].children[m]] + 1 = lev[p]
    <3>1. DOMAIN pages[p].children = 1..Len(pages[p].children)
      BY <1>5
    <3> QED BY <1>1, <1>3, <3>1 DEF Shaped, Levels
  <2>2. lev[split.right] + 1 = lev[p]
    BY <1>4, <1>6, <2>1
  <2>3. n < i + 1 => n \in 1..Len(pages[p].children)
    BY <1>6
  <2>4. ~(n < i + 1) /\ n # i + 1 => n - 1 \in 1..Len(pages[p].children)
    BY <1>6
  <2> QED BY <1>1, <1>11, <2>1, <2>2, <2>3, <2>4
<1>13. Len(ParentChildren) = Len(ParentKeys) + 1
  BY <1>5, <1>9, <1>11
<1> QED BY <1>1, <1>3, <1>4, <1>5, <1>6, <1>9, <1>10, <1>11, <1>12, <1>13 DEF i, N

LEMMA InnerStorable ==
    ASSUME NEW ks \in Seq(Keys), NEW cs \in Seq(PageIds), Len(ks) <= MaxKeys,
           Len(cs) = Len(ks) + 1, \A n \in 1..Len(cs) : pages[cs[n]].kind # "missing"
    PROVE  /\ Storable(pages, Internal(ks, cs)) /\ Internal(ks, cs) \in Node
           /\ Internal(ks, cs).kind = "internal"
           /\ Internal(ks, cs).children = cs /\ DOMAIN cs = 1..Len(cs)
<1>1. /\ Internal(ks, cs) \in Node /\ Internal(ks, cs).kind = "internal"
      /\ Internal(ks, cs).entries = << >> /\ Internal(ks, cs).keys = ks
      /\ Internal(ks, cs).children = cs
  BY InternalFacts
<1>2. Len(<< >>) <= MaxKeys /\ DOMAIN cs = 1..Len(cs)
  BY Constants
<1> QED BY <1>1, <1>2 DEF Storable

\* The two halves of an internal node that has one separator too many.
InnerCut(ks, cs, half) ==
    /\ half \in 1..MaxKeys /\ half + 1 \in 1..Len(ks) /\ ks[half + 1] \in Keys
    /\ Front_(ks, half) \in Seq(Keys) /\ Len(Front_(ks, half)) = half
    /\ \A n \in 1..half : Front_(ks, half)[n] = ks[n]
    /\ Front_(cs, half + 1) \in Seq(PageIds) /\ Len(Front_(cs, half + 1)) = half + 1
    /\ \A n \in 1..(half + 1) : Front_(cs, half + 1)[n] = cs[n]
    /\ Rest(ks, half + 1) \in Seq(Keys) /\ Len(Rest(ks, half + 1)) = MaxKeys - half
    /\ \A n \in 1..(MaxKeys - half) : Rest(ks, half + 1)[n] = ks[half + 1 + n]
    /\ Rest(cs, half + 1) \in Seq(PageIds) /\ Len(Rest(cs, half + 1)) = MaxKeys - half + 1
    /\ \A n \in 1..(MaxKeys - half + 1) : Rest(cs, half + 1)[n] = cs[half + 1 + n]

LEMMA InnerHalves ==
    ASSUME NEW ks \in Seq(Keys), NEW cs \in Seq(PageIds), Len(ks) = MaxKeys + 1,
           Len(cs) = Len(ks) + 1, NEW half, half = Len(ks) \div 2
    PROVE  InnerCut(ks, cs, half)
<1>1. /\ half \in Nat /\ 2 * half <= MaxKeys + 1 /\ MaxKeys + 1 <= 2 * half + 1
      /\ MaxKeys \in Nat /\ MaxKeys >= 2
  BY Constants, Half
<1>2. half \in 1..MaxKeys /\ half + 1 \in 1..Len(ks) /\ half \in 0..Len(ks)
      /\ half + 1 \in 0..Len(ks) /\ half + 1 \in 0..Len(cs)
      /\ Len(ks) - (half + 1) = MaxKeys - half /\ Len(cs) - (half + 1) = MaxKeys - half + 1
  BY <1>1
<1>3. ks[half + 1] \in Keys
  BY <1>2
<1>4. /\ Front_(ks, half) \in Seq(Keys) /\ Len(Front_(ks, half)) = half
      /\ \A n \in 1..half : Front_(ks, half)[n] = ks[n]
  BY <1>2, PartFacts
<1> DEFINE j == half + 1
<1>5. j \in 0..Len(ks) /\ j \in 0..Len(cs)
  BY <1>2
<1> HIDE DEF j
<1>6. /\ Front_(cs, j) \in Seq(PageIds) /\ Len(Front_(cs, j)) = j
      /\ \A n \in 1..j : Front_(cs, j)[n] = cs[n]
      /\ Rest(cs, j) \in Seq(PageIds) /\ Len(Rest(cs, j)) = Len(cs) - j
      /\ \A n \in 1..(Len(cs) - j) : Rest(cs, j)[n] = cs[j + n]
  BY <1>5, PartFacts
<1>7. /\ Rest(ks, j) \in Seq(Keys) /\ Len(Rest(ks, j)) = Len(ks) - j
      /\ \A n \in 1..(Len(ks) - j) : Rest(ks, j)[n] = ks[j + n]
  BY <1>5, PartFacts
<1>8. /\ Front_(cs, half + 1) \in Seq(PageIds) /\ Len(Front_(cs, half + 1)) = half + 1
      /\ \A n \in 1..(half + 1) : Front_(cs, half + 1)[n] = cs[n]
  BY <1>6 DEF j
<1>9. /\ Rest(ks, half + 1) \in Seq(Keys) /\ Len(Rest(ks, half + 1)) = MaxKeys - half
      /\ \A n \in 1..(MaxKeys - half) : Rest(ks, half + 1)[n] = ks[half + 1 + n]
  BY <1>2, <1>7 DEF j
<1>10. /\ Rest(cs, half + 1) \in Seq(PageIds) /\ Len(Rest(cs, half + 1)) = MaxKeys - half + 1
       /\ \A n \in 1..(MaxKeys - half + 1) : Rest(cs, half + 1)[n] = cs[half + 1 + n]
  BY <1>2, <1>6 DEF j
<1> QED BY <1>2, <1>3, <1>4, <1>8, <1>9, <1>10 DEF InnerCut

LEMMA InsertInParentFacts ==
    ASSUME WalkInv, InsertInParent
    PROVE  /\ pc = "up" /\ path # << >>
           /\ IF Len(ParentKeys) <= MaxKeys
              THEN StoreAndReturn(path[Len(path)].page, Internal(ParentKeys, ParentChildren))
              ELSE SplitInternal(path[Len(path)].page, ParentKeys, ParentChildren)
  BY DEF InsertInParent, ParentKeys, ParentChildren, Last

\* The frames above the last one lead to its page and do not contain it.
LEMMA FramesAbove ==
    ASSUME WalkInv, pc = "up", path # << >>,
           NEW p, p = path[Len(path)].page
    PROVE  /\ Front(path) \in Seq(Frame) /\ Trail(pages, root, Front(path), p)
           /\ \A k \in DOMAIN Front(path) : Front(path)[k].page # p
<1>1. path \in Seq(Frame) /\ Trail(pages, root, path, Pending)
  BY WalkFacts DEF WalkInv
<1>2. PICK lev : Levels(pages, lev)
  BY DEF WalkInv
<1>3. /\ Front(path) \in Seq(Frame) /\ Len(path) \in 1..Len(path) /\ Last(path) = path[Len(path)]
      /\ Trail(pages, root, Front(path), p)
  BY <1>1, TrailCut
<1>4. p \in PageIds
  BY <1>1, <1>3, FrameFacts
<1>5. \A k \in 1..Len(Front(path)) :
        lev[Front(path)[k].page] = lev[p] + (Len(Front(path)) - k) + 1
  BY <1>2, <1>3, <1>4, TrailLevels
<1>6. ASSUME NEW k \in DOMAIN Front(path) PROVE Front(path)[k].page # p
  <2>1. k \in 1..Len(Front(path)) /\ Len(Front(path)) \in Nat
    BY <1>3
  <2>2. lev[p] \in Nat
    BY <1>2, <1>4 DEF Levels
  <2>3. lev[Front(path)[k].page] # lev[p]
    BY <1>5, <2>1, <2>2
  <2> QED BY <2>3
<1> QED BY <1>3, <1>6

LEMMA InsertInParentWalk ==
    ASSUME WalkInv, InsertInParent
    PROVE  WalkInv'
<1> DEFINE p == path[Len(path)].page
           ks == ParentKeys
           cs == ParentChildren
<1>1. /\ pc = "up" /\ path # << >>
      /\ IF Len(ks) <= MaxKeys THEN StoreAndReturn(p, Internal(ks, cs))
         ELSE SplitInternal(p, ks, cs)
  BY InsertInParentFacts
<1>2. PICK lev : Levels(pages, lev) /\ lev[split.right] = lev[Pending]
  BY <1>1 DEF WalkInv
<1>3. /\ p \in PageIds /\ pages[p].kind = "internal"
      /\ ks \in Seq(Keys) /\ Len(ks) \in Nat /\ Len(ks) <= MaxKeys + 1
      /\ cs \in Seq(PageIds) /\ Len(cs) = Len(ks) + 1
      /\ \A n \in 1..Len(cs) : pages[cs[n]].kind # "missing" /\ lev[cs[n]] + 1 = lev[p]
  BY <1>1, <1>2, ParentFacts
<1>4. /\ Front(path) \in Seq(Frame) /\ Trail(pages, root, Front(path), p)
      /\ \A k \in DOMAIN Front(path) : Front(path)[k].page # p
  BY <1>1, FramesAbove
<1> HIDE DEF p, ks, cs
<1>5. CASE Len(ks) <= MaxKeys
  <2> DEFINE node == Internal(ks, cs)
  <2>1. /\ Storable(pages, node) /\ node \in Node /\ node.kind = "internal"
        /\ node.children = cs /\ DOMAIN cs = 1..Len(cs)
    BY <1>3, <1>5, InnerStorable
  <2>2. StoreAndReturn(p, node)
    BY <1>1, <1>5
  <2> HIDE DEF node
  <2>3. /\ \A n \in DOMAIN node.children : lev[node.children[n]] + 1 = lev[p]
        /\ pages[p].kind # "missing" /\ node.kind # "leaf"
    BY <1>3, <2>1
  <2> QED BY <1>2, <1>3, <2>1, <2>2, <2>3, StoreAndReturnWalk
<1>6. CASE ~(Len(ks) <= MaxKeys)
  <2> DEFINE half == Len(ks) \div 2
             lks == Front_(ks, half)
             lcs == Front_(cs, half + 1)
             rks == Rest(ks, half + 1)
             rcs == Rest(cs, half + 1)
             left == Internal(lks, lcs)
             right == Internal(rks, rcs)
  <2>1. Len(ks) = MaxKeys + 1 /\ MaxKeys \in Nat
    BY <1>3, <1>6, Constants
  <2>2. SplitInto(p, left, right, ks[half + 1], Front(path))
    BY <1>1, <1>6 DEF SplitInternal
  <2>h. half = Len(ks) \div 2
    OBVIOUS
  <2> HIDE DEF half
  <2>3. /\ half \in 1..MaxKeys /\ half + 1 \in 1..Len(ks) /\ ks[half + 1] \in Keys
        /\ lks \in Seq(Keys) /\ Len(lks) = half
        /\ lcs \in Seq(PageIds) /\ Len(lcs) = half + 1
        /\ \A n \in 1..(half + 1) : lcs[n] = cs[n]
        /\ rks \in Seq(Keys) /\ Len(rks) = MaxKeys - half
        /\ rcs \in Seq(PageIds) /\ Len(rcs) = MaxKeys - half + 1
        /\ \A n \in 1..(MaxKeys - half + 1) : rcs[n] = cs[half + 1 + n]
    <3>1. InnerCut(ks, cs, half)
      BY <1>3, <2>1, <2>h, InnerHalves
    <3> QED BY <3>1 DEF InnerCut
  <2> HIDE DEF lks, lcs, rks, rcs
  <2>n. half \in 1..MaxKeys /\ Len(cs) = MaxKeys + 2
    BY <1>3, <2>1, <2>3, SMTT(30)
  <2>4. \A n \in 1..(half + 1) : n \in 1..Len(cs)
    BY <2>1, <2>n
  <2>5. \A n \in 1..(MaxKeys - half + 1) : half + 1 + n \in 1..Len(cs)
    BY <2>1, <2>n
  <2>6. /\ \A n \in 1..Len(lcs) : pages[lcs[n]].kind # "missing" /\ lev[lcs[n]] + 1 = lev[p]
        /\ \A n \in 1..Len(rcs) : pages[rcs[n]].kind # "missing" /\ lev[rcs[n]] + 1 = lev[p]
    BY <1>3, <2>3, <2>4, <2>5
  <2>7. /\ Len(lks) <= MaxKeys /\ Len(lcs) = Len(lks) + 1
        /\ Len(rks) <= MaxKeys /\ Len(rcs) = Len(rks) + 1
    BY <2>1, <2>3
  <2>8. /\ Storable(pages, left) /\ left.kind = "internal"
        /\ left.children = lcs /\ DOMAIN lcs = 1..Len(lcs)
    BY <2>3, <2>6, <2>7, InnerStorable
  <2>9. /\ Storable(pages, right) /\ right.kind = "internal"
        /\ right.children = rcs /\ DOMAIN rcs = 1..Len(rcs)
    BY <2>3, <2>6, <2>7, InnerStorable
  <2> HIDE DEF left, right
  <2>10. /\ \A n \in DOMAIN left.children : lev[left.children[n]] + 1 = lev[p]
         /\ \A n \in DOMAIN right.children : lev[right.children[n]] + 1 = lev[p]
         /\ left.kind # "leaf" /\ right.kind # "leaf"
         /\ pages[p].kind # "missing" /\ pc \in {"down", "up"}
    BY <1>1, <1>3, <2>6, <2>8, <2>9
  <2>11. SplitDue(p, left, right, ks[half + 1], Front(path), lev)
    BY <1>2, <1>3, <1>4, <2>3, <2>8, <2>9, <2>10 DEF SplitDue
  <2> QED BY <2>2, <2>11, SplitIntoWalk
<1> QED BY <1>5, <1>6

LEMMA NewRootWalk ==
    ASSUME WalkInv, NewRoot
    PROVE  WalkInv'
<1> DEFINE node == Internal(<<split.separator>>, <<root, split.right>>)
<1>1. pc = "up" /\ path = << >> /\ Len(path) = 0
  BY DEF NewRoot
<1>2. PICK lev : Levels(pages, lev) /\ lev[split.right] = lev[Pending]
  BY <1>1 DEF WalkInv
<1>3. /\ root \in PageIds /\ pages[root].kind # "missing" /\ Shaped(pages, nextPage)
      /\ nextPage \in Nat /\ nextPage \in 2..(MaxPage + 1) /\ nextPage <= nextPage
      /\ (nextPage <= MaxPage => nextPage \in PageIds) /\ MaxPage \in Nat
      /\ pages \in [PageIds -> Node]
  BY WalkFacts, Constants
<1>4. /\ split.right \in PageIds /\ pages[split.right].kind # "missing" /\ split.separator \in Keys
      /\ lev[split.right] = lev[root] /\ lev[root] \in Nat
  BY <1>1, <1>2, <1>3 DEF WalkInv, TypeOK, Pending, Levels
<1>5. CASE OutOfPages
  <2>1. Raise /\ UNCHANGED pages /\ nextPage' = nextPage
    BY <1>5 DEF OutOfPages
  <2>2. nextPage' \in 2..(MaxPage + 1) /\ nextPage <= nextPage'
    BY <1>3, <2>1
  <2> QED BY <1>2, <2>1, <2>2, RaiseWalk
<1>6. CASE Allocate /\ pages' = [pages EXCEPT ![nextPage] = node] /\ Return(nextPage)
  <2>1. nextPage <= MaxPage /\ nextPage' = nextPage + 1
    BY <1>6 DEF Allocate
  <2>2. /\ nextPage \in PageIds /\ nextPage' \in 2..(MaxPage + 1) /\ nextPage' \in Nat
        /\ nextPage <= nextPage' /\ nextPage < nextPage'
    BY <1>3, <2>1
  <2> DEFINE ks == <<split.separator>>
             cs == <<root, split.right>>
  <2>3. /\ ks \in Seq(Keys) /\ Len(ks) = 1 /\ cs \in Seq(PageIds) /\ Len(cs) = 2
        /\ Len(ks) <= MaxKeys /\ Len(cs) = Len(ks) + 1
        /\ \A n \in 1..Len(cs) : pages[cs[n]].kind # "missing" /\ lev[cs[n]] = lev[root]
    <3>1. \A n \in 1..2 : n = 1 \/ n = 2
      OBVIOUS
    <3> QED BY <1>3, <1>4, <3>1, Constants
  <2>4. /\ Storable(pages, Internal(ks, cs)) /\ Internal(ks, cs) \in Node
        /\ Internal(ks, cs).kind = "internal"
        /\ Internal(ks, cs).children = cs /\ DOMAIN cs = 1..Len(cs)
    <3> HIDE DEF ks, cs
    <3> QED BY <2>3, InnerStorable
  <2>5. /\ Storable(pages, node) /\ node \in Node /\ node.kind = "internal"
        /\ \A i \in DOMAIN node.children :
             pages[node.children[i]].kind # "missing" /\ lev[node.children[i]] = lev[root]
    BY <2>3, <2>4
  <2> HIDE DEF ks, cs, node
  <2> DEFINE v == lev[root] + 1
             ulev == [lev EXCEPT ![nextPage] = v]
  <2>6. /\ v \in Nat /\ (node.kind = "leaf" => v = 0)
        /\ \A i \in DOMAIN node.children : pages[node.children[i]].kind # "missing"
        /\ \A i \in DOMAIN node.children : lev[node.children[i]] + 1 = v
    BY <1>4, <2>5
  <2> HIDE DEF v
  <2>7. Levels([pages EXCEPT ![nextPage] = node], [lev EXCEPT ![nextPage] = v])
    BY <1>2, <1>3, <2>2, <2>5, <2>6, FreshLevels
  <2>8. Shaped(pages', nextPage')
    <3>1. \A n2 \in Nat : nextPage <= n2 /\ nextPage < n2 =>
            Shaped([pages EXCEPT ![nextPage] = node], n2)
      BY <1>3, <2>2, <2>5, StoreShaped
    <3> QED BY <1>6, <2>2, <3>1
  <2>9. /\ EndCall /\ UNCHANGED <<saved, kept, faults>> /\ failed' \in BOOLEAN
        /\ root' = nextPage /\ entries' \subseteq Entry
    BY <1>6 DEF Return, WalkInv, TypeOK
  <2>10. pages'[root'].kind # "missing" /\ root' \in PageIds
    BY <1>3, <1>6, <2>2, <2>5, <2>9
  <2>11. Levels(pages', ulev)
    BY <1>6, <2>7
  <2> HIDE DEF ulev
  <2> QED BY <2>2, <2>8, <2>9, <2>10, <2>11, EndedWalk
<1> QED BY <1>5, <1>6 DEF NewRoot

LEMMA DescendWalk ==
    ASSUME WalkInv, Descend
    PROVE  WalkInv'
<1> DEFINE i == ChildFor(pages[at].keys, arg.key)
<1>1. /\ pc = "down" /\ pages[at].kind = "internal" /\ at \in PageIds
      /\ pages[at] \in Node /\ Shaped(pages, nextPage) /\ Trail(pages, root, path, at)
      /\ path \in Seq(Frame)
      /\ path' = Append(path, [page |-> at, child |-> i]) /\ at' = pages[at].children[i]
      /\ UNCHANGED <<tree, saved, pc, arg, split, out, failed, entries, kept, faults>>
  BY WalkFacts DEF Descend, WalkInv
<1>2. /\ pages[at].keys \in Seq(Keys) /\ pages[at].children \in Seq(PageIds)
      /\ Len(pages[at].children) = Len(pages[at].keys) + 1
  BY <1>1, NodeFields DEF Shaped
<1>3. i \in 1..(Len(pages[at].keys) + 1)
  BY <1>2, ChildForRange
<1> HIDE DEF i
<1>4. i \in DOMAIN pages[at].children /\ i \in Nat
  BY <1>2, <1>3
<1>5. path' \in Seq(Frame) /\ Trail(pages, root, path', at')
  BY <1>1, <1>4, TrailExtended
<1>6. at' \in PageIds /\ pages[at'].kind # "missing"
  BY <1>1, <1>2, <1>4 DEF Shaped
<1>7. TypeOK'
  BY <1>1, <1>5, <1>6 DEF WalkInv, TypeOK, tree
<1>8. (Trail(pages, root, path, at) /\ pages[at].kind # "missing")'
  BY <1>1, <1>5, <1>6 DEF tree
<1>9. pc' = "down"
  BY <1>1
<1> QED BY <1>1, <1>7, <1>8, <1>9 DEF WalkInv, tree

\* Steps that leave the two trees alone and are not on the way of an insert.
LEMMA QuietWalk ==
    ASSUME WalkInv, UNCHANGED <<tree, saved>>, TypeOK', pc' \notin {"down", "up"}
    PROVE  WalkInv'
<1>1. /\ (Shaped(pages, nextPage) /\ pages[root].kind # "missing")'
      /\ (Shaped(saved.pages, saved.nextPage) /\ saved.pages[saved.root].kind # "missing")'
      /\ (\E lev : Levels(saved.pages, lev))'
  BY DEF WalkInv, tree
<1>2. (\E lev : Levels(pages, lev) /\ (pc = "up" => lev[split.right] = lev[Pending]))'
  BY DEF WalkInv, tree
<1> QED BY <1>1, <1>2 DEF WalkInv

LEMMA MatchesFacts ==
    ASSUME NEW es \in Seq(Entry), NEW k, NEW rows \in Seq(Rows)
    PROVE  /\ Matches(es, k, rows)[0] = rows
           /\ \A i \in 1..Len(es) :
                Matches(es, k, rows)[i] =
                    IF es[i].key = k THEN Append(Matches(es, k, rows)[i - 1], es[i].row)
                    ELSE Matches(es, k, rows)[i - 1]
           /\ \A i \in 0..Len(es) : Matches(es, k, rows)[i] \in Seq(Rows)
<1> DEFINE N == Len(es)
           Run(f, n) == /\ f \in [0..n -> Seq(Rows)] /\ f[0] = rows
                        /\ \A i \in 1..n : f[i] = IF es[i].key = k THEN Append(f[i - 1], es[i].row)
                                                  ELSE f[i - 1]
           T == {n \in 0..N : \E f : Run(f, n)}
           body(t) == [i \in 0..N |->
                        IF i = 0 THEN rows
                        ELSE IF es[i].key = k THEN Append(t[i - 1], es[i].row) ELSE t[i - 1]]
           m == CHOOSE t : t = body(t)
<1>1. N \in Nat /\ \A i \in 1..N : es[i].row \in Rows
  <2>1. \A i \in 1..N : es[i] \in Entry
    OBVIOUS
  <2>2. \A e \in Entry : e.row \in Rows
    BY DEF Entry
  <2> QED BY <2>1, <2>2
<1> HIDE DEF N
<1>2. 0 \in T
  <2>1. Run([i \in 0..0 |-> rows], 0)
    OBVIOUS
  <2>2. 0 \in 0..N
    BY <1>1
  <2> QED BY <2>1, <2>2
<1>3. ASSUME NEW n \in 0..(N - 1), n \in T PROVE n + 1 \in T
  <2>1. PICK f : Run(f, n)
    BY <1>3
  <2> DEFINE x == IF es[n + 1].key = k THEN Append(f[n], es[n + 1].row) ELSE f[n]
             g == [i \in 0..(n + 1) |-> IF i = n + 1 THEN x ELSE f[i]]
  <2>2. n + 1 \in 0..N /\ n + 1 \in 1..N /\ n \in Nat /\ n \in 0..n
    BY <1>1, <1>3
  <2>3. x \in Seq(Rows)
    BY <1>1, <2>1, <2>2
  <2> HIDE DEF x
  <2>4. g \in [0..(n + 1) -> Seq(Rows)] /\ g[0] = rows
    BY <2>1, <2>2, <2>3
  <2>5. ASSUME NEW i \in 1..(n + 1)
        PROVE  g[i] = IF es[i].key = k THEN Append(g[i - 1], es[i].row) ELSE g[i - 1]
    <3>1. CASE i = n + 1
      <4>1. i - 1 = n /\ n \in 0..(n + 1) /\ n # n + 1 /\ i \in 0..(n + 1)
        BY <2>2, <3>1
      <4>2. g[i] = x /\ g[i - 1] = f[n]
        BY <3>1, <4>1
      <4> QED BY <3>1, <4>2 DEF x
    <3>2. CASE i # n + 1
      <4>1. i \in 1..n /\ i - 1 \in 0..(n + 1) /\ i - 1 # n + 1 /\ i \in 0..(n + 1)
        BY <2>2, <2>5, <3>2
      <4>2. g[i] = f[i] /\ g[i - 1] = f[i - 1]
        BY <3>2, <4>1
      <4>3. f[i] = IF es[i].key = k THEN Append(f[i - 1], es[i].row) ELSE f[i - 1]
        BY <2>1, <4>1
      <4> QED BY <4>2, <4>3
    <3> QED BY <3>1, <3>2
  <2> HIDE DEF g
  <2> QED BY <2>2, <2>4, <2>5
<1>4. PICK f : Run(f, N)
  <2>1. N \in T
    <3> HIDE DEF T
    <3>1. 0..N \subseteq T
      BY <1>1, <1>2, <1>3, UpTo
    <3> QED BY <1>1, <3>1
  <2> QED BY <2>1
<1>5. f = body(f)
  <2>1. \A i \in 0..N : f[i] = IF i = 0 THEN rows
                               ELSE IF es[i].key = k THEN Append(f[i - 1], es[i].row) ELSE f[i - 1]
    <3> TAKE i \in 0..N
    <3>1. i = 0 \/ (i # 0 /\ i \in 1..N)
      BY <1>1
    <3>2. i \in 1..N => f[i] = IF es[i].key = k THEN Append(f[i - 1], es[i].row) ELSE f[i - 1]
      BY <1>4
    <3>3. f[0] = rows
      BY <1>4
    <3> QED BY <3>1, <3>2, <3>3
  <2> QED BY <1>4, <2>1
<1>6. m = body(m)
  <2> HIDE DEF body
  <2> QED BY <1>5
<1>7. Matches(es, k, rows) = m
  BY DEF Matches, N
<1> HIDE DEF m
<1>8. m[0] = rows /\ \A i \in 1..N : m[i] = IF es[i].key = k THEN Append(m[i - 1], es[i].row)
                                            ELSE m[i - 1]
  <2>1. \A i \in 0..N : m[i] = body(m)[i]
    <3> HIDE DEF body
    <3> QED BY <1>6
  <2>2. \A i \in 0..N : m[i] = IF i = 0 THEN rows
                               ELSE IF es[i].key = k THEN Append(m[i - 1], es[i].row) ELSE m[i - 1]
    BY <2>1
  <2>3. 0 \in 0..N /\ \A i \in 1..N : i \in 0..N /\ i # 0
    BY <1>1
  <2> QED BY <2>2, <2>3
<1> HIDE DEF body
<1>9. \A i \in 0..N : m[i] \in Seq(Rows)
  <2> DEFINE U == {n \in 0..N : m[n] \in Seq(Rows)}
  <2>1. 0 \in U
    BY <1>1, <1>8
  <2>2. ASSUME NEW n \in 0..(N - 1), n \in U PROVE n + 1 \in U
    <3>1. n + 1 \in 1..N /\ (n + 1) - 1 = n /\ n + 1 \in 0..N
      BY <1>1
    <3>2. m[n + 1] = IF es[n + 1].key = k THEN Append(m[n], es[n + 1].row) ELSE m[n]
      BY <1>8, <3>1
    <3>3. m[n] \in Seq(Rows) /\ es[n + 1].row \in Rows
      BY <1>1, <2>2, <3>1
    <3>4. Append(m[n], es[n + 1].row) \in Seq(Rows)
      BY <3>3
    <3>5. m[n + 1] \in Seq(Rows)
      BY <3>2, <3>3, <3>4
    <3> QED BY <3>1, <3>5
  <2> HIDE DEF U
  <2>3. 0..N \subseteq U
    BY <1>1, <2>1, <2>2, UpTo
  <2> QED BY <2>3 DEF U
<1> QED BY <1>7, <1>8, <1>9 DEF N

\* How many entries of a leaf a lookup looks at before it meets a greater key.
SeenIn(node) == Cardinality({i \in DOMAIN node.entries :
                               \A j \in 1..i : node.entries[j].key <= arg.key})

LEMMA SeenFacts ==
    ASSUME NEW node \in Node, arg.key \in Keys
    PROVE  /\ SeenIn(node) \in 0..Len(node.entries)
           /\ {i \in DOMAIN node.entries : \A j \in 1..i : node.entries[j].key <= arg.key}
                = 1..SeenIn(node)
<1> DEFINE D == {i \in DOMAIN node.entries : \A j \in 1..i : node.entries[j].key <= arg.key}
           N == Len(node.entries)
<1>1. N \in Nat /\ DOMAIN node.entries = 1..N
  BY NodeFields
<1>2. D \in SUBSET (1..N)
  BY <1>1
<1>3. ASSUME NEW i \in D, NEW j \in 1..i PROVE j \in D
  BY <1>1
<1> HIDE DEF D
<1>4. Cardinality(D) \in 0..N /\ D = 1..Cardinality(D)
  BY <1>1, <1>2, <1>3, CountOfPrefix
<1> QED BY <1>4 DEF D, SeenIn

LEMMA CollectFacts ==
    ASSUME WalkInv, Collect
    PROVE  LET node == saved.pages[at]
               n == SeenIn(node)
           IN  /\ pc = "collect" /\ node.kind = "leaf" /\ node \in Node
               /\ n \in 0..Len(node.entries)
               /\ out' = Matches(node.entries, arg.key, out)[n]
               /\ IF n < Len(node.entries) \/ node.next = None
                  THEN pc' = "found" /\ UNCHANGED at
                  ELSE at' = node.next /\ UNCHANGED pc
               /\ UNCHANGED <<tree, saved, arg, path, split, failed, entries, kept, faults>>
<1>1. /\ saved.pages[at] \in Node /\ arg.key \in Keys
  <2>1. saved.pages \in [PageIds -> Node] /\ at \in PageIds /\ arg \in Entry
    BY DEF WalkInv, TypeOK
  <2> QED BY <2>1 DEF Entry
<1>2. SeenIn(saved.pages[at]) \in 0..Len(saved.pages[at].entries)
  BY <1>1, SeenFacts
<1> QED BY <1>1, <1>2 DEF Collect, SeenIn

LEMMA WalkInit == Init => WalkInv
<1> SUFFICES ASSUME Init PROVE WalkInv
  OBVIOUS
<1>1. /\ root \in PageIds /\ nextPage = root + 1 /\ nextPage \in 2..(MaxPage + 1)
      /\ pages = [p \in PageIds |-> IF p = root THEN Leaf(None, << >>) ELSE Missing]
  BY TreeAssumption DEF Init, PageIds
<1>2. /\ Leaf(None, << >>) \in Node /\ Leaf(None, << >>).kind = "leaf"
      /\ Leaf(None, << >>).entries = << >> /\ Leaf(None, << >>).keys = << >>
      /\ Leaf(None, << >>).children = << >>
  <2>1. << >> \in Seq(Entry) /\ None \in PageIds \cup {None}
    OBVIOUS
  <2> QED BY <2>1, LeafFacts
<1>3. /\ Missing \in Node /\ Missing.kind = "missing" /\ Missing.entries = << >>
      /\ Missing.keys = << >> /\ Missing.children = << >>
  BY DEF Missing, Node
<1>4. /\ pages \in [PageIds -> Node] /\ pages[root].kind = "leaf"
      /\ \A p \in PageIds : /\ pages[p].entries = << >> /\ pages[p].keys = << >>
                            /\ pages[p].children = << >> /\ pages[p].kind # "internal"
                            /\ p # root => pages[p].kind = "missing"
  BY <1>1, <1>2, <1>3
<1>5. Len(<< >>) <= MaxKeys /\ DOMAIN << >> = {} /\ PageIds \subseteq Nat
  BY Constants
<1>6. Shaped(pages, nextPage)
  <2>1. \A p \in PageIds : p >= nextPage => p # root
    BY <1>1, <1>5
  <2> QED BY <1>4, <1>5, <2>1 DEF Shaped
<1>7. Levels(pages, [p \in PageIds |-> 0])
  BY <1>4, <1>5 DEF Levels
<1>8. saved = [pages |-> pages, root |-> root, nextPage |-> nextPage]
  BY DEF Init
<1>9. saved.pages = pages /\ saved.root = root /\ saved.nextPage = nextPage
  BY <1>8
<1>10. TypeOK
  <2>1. arg \in Entry /\ split \in [separator : Keys, right : PageIds \cup {None}] /\ at \in PageIds
    BY Constants DEF Init
  <2>2. faults \in 0..MaxFaults /\ pc \in Phases
    BY TreeAssumption DEF Init, Phases
  <2>3. saved \in [pages : [PageIds -> Node], root : PageIds, nextPage : 2..(MaxPage + 1)]
    BY <1>1, <1>4, <1>8
  <2>4. path \in Seq(Frame) /\ out \in Seq(Rows) /\ failed \in BOOLEAN
        /\ entries \subseteq Entry /\ kept \subseteq Entry
    <3>1. path = << >> /\ out = << >> /\ failed = FALSE /\ entries = {} /\ kept = {}
      BY DEF Init
    <3>2. << >> \in Seq(Frame) /\ << >> \in Seq(Rows)
      OBVIOUS
    <3> QED BY <3>1, <3>2
  <2> QED BY <1>1, <1>4, <1>5, <2>1, <2>2, <2>3, <2>4 DEF TypeOK
<1>11. pc # "down" /\ pc # "up" /\ pages[root].kind # "missing"
  BY <1>4 DEF Init
<1> QED BY <1>6, <1>7, <1>9, <1>10, <1>11 DEF WalkInv

LEMMA WalkStep == WalkInv /\ [Next]_vars => WalkInv'
<1> SUFFICES ASSUME WalkInv, [Next]_vars PROVE WalkInv'
  OBVIOUS
<1>0. TypeOK
  BY DEF WalkInv
<1>1. ASSUME NEW e \in Entry, Insert(e) PROVE WalkInv'
  <2>1. /\ pc' = "down" /\ arg' = e /\ at' = root /\ path' = << >> /\ split' = NoSplit
        /\ UNCHANGED <<tree, saved, out, failed, entries, kept, faults>>
    BY <1>1 DEF Insert
  <2>2. TypeOK'
    BY <1>0, <2>1, Constants DEF TypeOK, tree, Phases
  <2>3. (Trail(pages, root, path, at) /\ pages[at].kind # "missing")'
    <3>1. Trail(pages', root', << >>, root)
      BY <2>1 DEF Trail, tree
    <3> QED BY <2>1, <3>1 DEF WalkInv, tree
  <2>4. pc' # "up"
    BY <2>1
  <2> QED BY <2>1, <2>2, <2>3, <2>4 DEF WalkInv, tree
<1>2. CASE Descend
  BY <1>2, DescendWalk
<1>3. CASE InsertInLeaf
  BY <1>3, InsertInLeafWalk
<1>4. CASE InsertInParent
  BY <1>4, InsertInParentWalk
<1>5. CASE NewRoot
  BY <1>5, NewRootWalk
<1>6. CASE InsertReadFails
  <2>1. /\ EndCall /\ UNCHANGED <<tree, saved>> /\ pc' = "idle"
    BY <1>6 DEF InsertReadFails, EndCall
  <2>2. TypeOK'
    <3>1. faults' \in 0..MaxFaults /\ failed' \in BOOLEAN /\ UNCHANGED <<entries, kept>>
      BY <1>0, <1>6, TreeAssumption DEF TypeOK, InsertReadFails
    <3> QED BY <1>0, <2>1, <3>1, Constants DEF TypeOK, tree, EndCall, Phases
  <2> QED BY <2>1, <2>2, QuietWalk
<1>7. CASE Commit
  <2>1. /\ saved' = [pages |-> pages, root |-> root, nextPage |-> nextPage]
        /\ kept' = entries /\ failed' = FALSE /\ pc = "idle"
        /\ UNCHANGED <<tree, pc, call, entries, faults>>
    BY <1>7 DEF Commit
  <2>2. saved'.pages = pages /\ saved'.root = root /\ saved'.nextPage = nextPage
    BY <2>1
  <2>3. saved' \in [pages : [PageIds -> Node], root : PageIds, nextPage : 2..(MaxPage + 1)]
    BY <1>0, <2>1 DEF TypeOK
  <2>4. TypeOK'
    BY <1>0, <2>1, <2>3 DEF TypeOK, tree, call
  <2> QED BY <2>1, <2>2, <2>4 DEF WalkInv, tree, call
<1>8. CASE Discard
  <2>1. /\ pages' = saved.pages /\ root' = saved.root /\ nextPage' = saved.nextPage
        /\ entries' = kept /\ failed' = FALSE /\ pc = "idle"
        /\ UNCHANGED <<saved, pc, call, kept, faults>>
    BY <1>8 DEF Discard
  <2>2. /\ Shaped(saved.pages, saved.nextPage) /\ saved.pages[saved.root].kind # "missing"
        /\ \E lev : Levels(saved.pages, lev)
    BY DEF WalkInv
  <2>3. TypeOK'
    <3>1. saved.pages \in [PageIds -> Node] /\ saved.root \in PageIds /\ saved.nextPage \in 2..(MaxPage + 1)
      BY <1>0 DEF TypeOK
    <3>2. \A p \in PageIds : Len(saved.pages[p].entries) <= MaxKeys /\ Len(saved.pages[p].keys) <= MaxKeys
      BY <2>2 DEF Shaped
    <3> QED BY <1>0, <2>1, <3>1, <3>2 DEF TypeOK, call
  <2>4. pc' # "down" /\ pc' # "up"
    BY <2>1
  <2> QED BY <2>1, <2>2, <2>3, <2>4 DEF WalkInv
<1>9. ASSUME NEW k \in Keys, Lookup(k) PROVE WalkInv'
  <2>1. /\ pc' = "find" /\ at' = saved.root /\ out' = << >> /\ arg' = [arg EXCEPT !.key = k]
        /\ UNCHANGED <<tree, saved, path, split, failed, entries, kept, faults>>
    BY <1>9 DEF Lookup
  <2>2. arg' \in Entry
    BY <1>0, <2>1 DEF TypeOK, Entry
  <2>3. TypeOK'
    BY <1>0, <2>1, <2>2 DEF TypeOK, tree, Phases
  <2> QED BY <2>1, <2>3, QuietWalk
<1>10. CASE FindLeaf
  <2>1. /\ pc' \in {"find", "collect"}
        /\ \/ at' = at
           \/ /\ at' = saved.pages[at].children[ChildFor(saved.pages[at].keys, arg.key)]
              /\ saved.pages[at].kind = "internal"
        /\ UNCHANGED <<tree, saved, arg, path, split, out, failed, entries, kept, faults>>
    BY <1>10 DEF FindLeaf
  <2>2. at' \in PageIds
    <3>1. Shaped(saved.pages, saved.nextPage) /\ at \in PageIds
      BY <1>0 DEF WalkInv, TypeOK
    <3>2. CASE at' = at
      BY <3>1, <3>2
    <3>3. CASE /\ at' = saved.pages[at].children[ChildFor(saved.pages[at].keys, arg.key)]
               /\ saved.pages[at].kind = "internal"
      <4>1. /\ saved.pages[at].keys \in Seq(Keys) /\ saved.pages[at].children \in Seq(PageIds)
            /\ Len(saved.pages[at].children) = Len(saved.pages[at].keys) + 1
        BY <3>1, <3>3, NodeFields DEF Shaped
      <4>2. ChildFor(saved.pages[at].keys, arg.key) \in 1..(Len(saved.pages[at].keys) + 1)
        BY <4>1, ChildForRange
      <4> QED BY <3>3, <4>1, <4>2
    <3> QED BY <2>1, <3>2, <3>3
  <2>3. TypeOK'
    BY <1>0, <2>1, <2>2 DEF TypeOK, tree, Phases
  <2> QED BY <2>1, <2>3, QuietWalk
<1>11. CASE Collect
  <2> DEFINE node == saved.pages[at]
             n == SeenIn(node)
  <2>1. /\ pc = "collect" /\ node \in Node /\ n \in 0..Len(node.entries)
        /\ out' = Matches(node.entries, arg.key, out)[n]
        /\ IF n < Len(node.entries) \/ node.next = None
           THEN pc' = "found" /\ UNCHANGED at
           ELSE at' = node.next /\ UNCHANGED pc
        /\ UNCHANGED <<tree, saved, arg, path, split, failed, entries, kept, faults>>
    BY <1>11, CollectFacts
  <2> HIDE DEF node, n
  <2>2. out' \in Seq(Rows)
    <3>1. node.entries \in Seq(Entry) /\ out \in Seq(Rows)
      BY <1>0, <2>1, NodeFields DEF TypeOK
    <3> QED BY <2>1, <3>1, MatchesFacts
  <2>3. at' \in PageIds /\ pc' \in {"found", "collect"}
    <3>1. node.next \in PageIds \cup {None} /\ at \in PageIds
      BY <1>0, <2>1, NodeFields DEF TypeOK
    <3> QED BY <2>1, <3>1
  <2>4. TypeOK'
    BY <1>0, <2>1, <2>2, <2>3 DEF TypeOK, tree, Phases
  <2> QED BY <2>1, <2>3, <2>4, QuietWalk
<1>12. CASE LookupReadFails
  <2>1. /\ pc' \in {"error", "broken"} /\ faults' \in 0..MaxFaults
        /\ UNCHANGED <<tree, saved, call, failed, entries, kept>>
    BY <1>0, <1>12, TreeAssumption DEF LookupReadFails, TypeOK
  <2>2. TypeOK'
    BY <1>0, <2>1 DEF TypeOK, tree, call, Phases
  <2> QED BY <2>1, <2>2, QuietWalk
<1>13. CASE LookupReturns
  <2>1. /\ EndCall /\ pc' = "idle" /\ UNCHANGED <<tree, saved, failed, entries, kept, faults>>
    BY <1>13 DEF LookupReturns, EndCall
  <2>2. TypeOK'
    BY <1>0, <2>1, Constants DEF TypeOK, tree, EndCall, Phases
  <2> QED BY <2>1, <2>2, QuietWalk
<1>14. CASE UNCHANGED vars
  BY <1>14 DEF vars, tree, call, WalkInv, TypeOK, Pending
<1> QED BY <1>1, <1>2, <1>3, <1>4, <1>5, <1>6, <1>7, <1>8, <1>9, <1>10, <1>11, <1>12, <1>13, <1>14
     DEF Next, Step, Call

\* No insert, split, failed split, lookup, commit or rollback takes the state of the
\* index out of its types: page ids stay in range, a node that a split of
\* insert_recursive stores has at most MAX_KEYS entries or separators, and the frame
\* of a caller still names a child of its node when the split comes back to it.
THEOREM IndexTypes == Spec => []TypeOK
<1>1. Spec => []WalkInv
  BY WalkInit, WalkStep, PTL DEF Spec
<1>2. WalkInv => TypeOK
  BY DEF WalkInv
<1> QED BY <1>1, <1>2, PTL

-----------------------------------------------------------------------------
(***************************************************************************)
(* The layout of a tree.  Its m leaves stand in a row, leaf j in page      *)
(* L[j], with the fence K[j] between leaves j and j + 1; below page p are  *)
(* the leaves lo[p]..hi[p].  Keys are in order because fences are, and a   *)
(* separator of an internal node is the fence at the end of the child on   *)
(* its left: no recursion over the tree is needed to say any of this.      *)
(***************************************************************************)

Fences(m, K) ==
    /\ m \in Nat /\ m >= 1
    /\ K \in [1..(m - 1) -> Keys]
    /\ \A a, b \in 1..(m - 1) : a <= b => K[a] <= K[b]

\* The leaves, linked from left to right.
Chain(pgs, m, L, lo, hi) ==
    /\ L \in [1..m -> PageIds]
    /\ \A j \in 1..m : /\ pgs[L[j]].kind = "leaf" /\ lo[L[j]] = j /\ hi[L[j]] = j
                       /\ pgs[L[j]].next = IF j = m THEN None ELSE L[j + 1]
    /\ \A p \in PageIds : pgs[p].kind = "leaf" => lo[p] \in 1..m /\ L[lo[p]] = p

\* The entries of leaf j are in order, and between its fences.
InOrder(es, j, m, K) ==
    /\ \A a, b \in 1..Len(es) : a < b => Before(es[a], es[b])
    /\ \A a \in 1..Len(es) : /\ j < m => es[a].key <= K[j]
                             /\ j > 1 => K[j - 1] <= es[a].key

Sorted(pgs, m, L, K) == \A j \in 1..m : InOrder(pgs[L[j]].entries, j, m, K)

\* The leaves hold the entries S, each row once.
Holds(pgs, S) ==
    /\ \A p \in PageIds : pgs[p].kind = "leaf" =>
            \A a \in 1..Len(pgs[p].entries) : pgs[p].entries[a] \in S
    /\ \A e \in S : \E p \in PageIds : /\ pgs[p].kind = "leaf"
                                       /\ \E a \in 1..Len(pgs[p].entries) : pgs[p].entries[a] = e
    /\ \A p, q \in PageIds : pgs[p].kind = "leaf" /\ pgs[q].kind = "leaf" =>
            \A a \in 1..Len(pgs[p].entries), b \in 1..Len(pgs[q].entries) :
                pgs[p].entries[a].row = pgs[q].entries[b].row => p = q /\ a = b

Ranges(pgs, m, lo, hi) ==
    /\ lo \in [PageIds -> Nat] /\ hi \in [PageIds -> Nat]
    /\ \A p \in PageIds : pgs[p].kind # "missing" => 1 <= lo[p] /\ lo[p] <= hi[p] /\ hi[p] <= m

\* A node with separators ks and children cs covers the leaves l..h without a gap.
Spans(ks, cs, l, h, K, lo, hi) ==
    /\ lo[cs[1]] = l /\ hi[cs[Len(ks) + 1]] = h
    /\ \A i \in 1..Len(ks) : lo[cs[i + 1]] = hi[cs[i]] + 1 /\ ks[i] = K[hi[cs[i]]]

\* Every internal node does, page x with the node that is about to be stored there.
Inner(pgs, x, ks, cs, K, lo, hi) ==
    \A p \in PageIds : pgs[p].kind = "internal" =>
        IF p = x THEN Spans(ks, cs, lo[p], hi[p], K, lo, hi)
        ELSE Spans(pgs[p].keys, pgs[p].children, lo[p], hi[p], K, lo, hi)

Orphan(pgs, c) == \A p \in PageIds : \A i \in DOMAIN pgs[p].children : pgs[p].children[i] # c

\* No page has two parents.
OneParent(pgs) ==
    \A p, q \in PageIds : \A i \in DOMAIN pgs[p].children, j \in DOMAIN pgs[q].children :
        pgs[p].children[i] = pgs[q].children[j] => p = q /\ i = j

\* What holds at all times, also while a split is on its way up.
Standing(pgs, rt, S, m, L, K, lo, hi) ==
    /\ Fences(m, K) /\ Chain(pgs, m, L, lo, hi) /\ Sorted(pgs, m, L, K) /\ Holds(pgs, S)
    /\ Ranges(pgs, m, lo, hi) /\ OneParent(pgs) /\ Orphan(pgs, rt)

Complete(pgs, rt, S, m, L, K, lo, hi) ==
    /\ Standing(pgs, rt, S, m, L, K, lo, hi)
    /\ lo[rt] = 1 /\ hi[rt] = m
    /\ Inner(pgs, None, << >>, << >>, K, lo, hi)

\* All fences left of page p are less than k, and those right of it are not.
Heading(p, k, m, K, lo, hi) ==
    \A c \in 1..(m - 1) : (c < lo[p] => K[c] < k) /\ (c >= hi[p] => k <= K[c])

\* A split whose right half is still to become child i + 1 of page x, or a child of a new
\* root where x is None.
Open(pgs, rt, S, x, i, sep, right, m, L, K, lo, hi) ==
    /\ Standing(pgs, rt, S, m, L, K, lo, hi) /\ Orphan(pgs, right) /\ right # rt
    /\ IF x = None
       THEN /\ Spans(<<sep>>, <<rt, right>>, 1, m, K, lo, hi)
            /\ Inner(pgs, None, << >>, << >>, K, lo, hi)
       ELSE /\ lo[rt] = 1 /\ hi[rt] = m
            /\ Inner(pgs, x, InsertAt(pgs[x].keys, i, sep), InsertAt(pgs[x].children, i + 1, right),
                     K, lo, hi)

\* The page and the child of the last frame.
Above(fs) == IF Len(fs) = 0 THEN None ELSE fs[Len(fs)].page
Branch(fs) == IF Len(fs) = 0 THEN 0 ELSE fs[Len(fs)].child

Rising(m, L, K, lo, hi) ==
    Open(pages, root, entries \cup {arg}, Above(path), Branch(path),
         split.separator, split.right, m, L, K, lo, hi)

NewRow == \A e \in entries : e.row # arg.row

WorkingTree(m, L, K, lo, hi) ==
    /\ pc # "up" => Complete(pages, root, entries, m, L, K, lo, hi)
    /\ pc = "down" => Heading(at, arg.key, m, K, lo, hi) /\ NewRow
    /\ pc = "up" => Rising(m, L, K, lo, hi)

\* The rows that a lookup of key k has met before it comes to leaf page p.
Passed(pgs, k, p, lo) ==
    {r \in Rows : \E q \in PageIds :
        /\ pgs[q].kind = "leaf" /\ lo[q] < lo[p]
        /\ \E a \in 1..Len(pgs[q].entries) :
            pgs[q].entries[a].row = r /\ pgs[q].entries[a].key = k}

CommittedTree(m, L, K, lo, hi) ==
    /\ Complete(saved.pages, saved.root, kept, m, L, K, lo, hi)
    /\ pc = "find" => /\ Heading(at, arg.key, m, K, lo, hi) /\ out = << >>
                      /\ saved.pages[at].kind # "missing"
    /\ pc = "collect" => /\ saved.pages[at].kind = "leaf" /\ IsInjective(out)
                         /\ Range(out) = Passed(saved.pages, arg.key, at, lo)

\* The inductive invariant behind LookupExact, where no caller commits after an
\* insert has failed.
IndexInv ==
    /\ failed => pc = "idle"
    /\ ~failed => \E m, L, K, lo, hi : WorkingTree(m, L, K, lo, hi)
    /\ \E m, L, K, lo, hi : CommittedTree(m, L, K, lo, hi)
    /\ LookupExact

-----------------------------------------------------------------------------
(* Going down by the separators. *)

\* The children of a node stand in a row.
LEMMA SpansOrder ==
    ASSUME NEW ks \in Seq(Keys), NEW cs \in Seq(PageIds), Len(cs) = Len(ks) + 1,
           NEW l, NEW h, NEW K, NEW lo \in [PageIds -> Nat], NEW hi \in [PageIds -> Nat],
           Spans(ks, cs, l, h, K, lo, hi),
           \A i \in 1..Len(cs) : lo[cs[i]] <= hi[cs[i]]
    PROVE  \A a, b \in 1..Len(cs) : a <= b => hi[cs[a]] <= hi[cs[b]]
<1> DEFINE N == Len(cs)
<1>1. N \in Nat /\ N >= 1 /\ Len(ks) = N - 1 /\ \A i \in 1..N : cs[i] \in PageIds
  OBVIOUS
<1>2. \A i \in 1..N : lo[cs[i]] \in Nat /\ hi[cs[i]] \in Nat
  BY <1>1
<1>3. \A i \in 1..(N - 1) : hi[cs[i]] <= hi[cs[i + 1]]
  <2> TAKE i \in 1..(N - 1)
  <2>1. i \in 1..Len(ks) /\ i \in 1..N /\ i + 1 \in 1..N
    BY <1>1
  <2>2. lo[cs[i + 1]] = hi[cs[i]] + 1 /\ lo[cs[i + 1]] <= hi[cs[i + 1]]
    BY <2>1 DEF Spans
  <2>3. hi[cs[i]] \in Nat /\ hi[cs[i + 1]] \in Nat
    BY <1>2, <2>1
  <2> QED BY <2>2, <2>3, SMTT(30)
<1> HIDE DEF N
<1> SUFFICES ASSUME NEW a \in 1..N PROVE \A b \in 1..N : a <= b => hi[cs[a]] <= hi[cs[b]]
  BY DEF N
<1> DEFINE T == {n \in 0..(N - a) : hi[cs[a]] <= hi[cs[a + n]]}
<1>4. 0 \in T
  <2>1. a + 0 = a /\ 0 \in 0..(N - a) /\ hi[cs[a]] \in Nat
    BY <1>1, <1>2
  <2> QED BY <2>1
<1>5. ASSUME NEW n \in 0..((N - a) - 1), n \in T PROVE n + 1 \in T
  <2>1. n + 1 \in 0..(N - a) /\ a + n \in 1..(N - 1) /\ a + (n + 1) = (a + n) + 1
        /\ a + n \in 1..N /\ (a + n) + 1 \in 1..N
    BY <1>1
  <2>2. hi[cs[a + n]] <= hi[cs[(a + n) + 1]] /\ hi[cs[a]] <= hi[cs[a + n]]
    BY <1>3, <1>5, <2>1
  <2>3. hi[cs[a + n]] \in Nat /\ hi[cs[(a + n) + 1]] \in Nat /\ hi[cs[a]] \in Nat
    BY <1>2, <2>1
  <2> DEFINE x == hi[cs[a]]
             y == hi[cs[a + n]]
             z == hi[cs[(a + n) + 1]]
  <2>4. x <= z
    <3> HIDE DEF x, y, z
    <3>1. x \in Nat /\ y \in Nat /\ z \in Nat /\ x <= y /\ y <= z
      BY <2>2, <2>3 DEF x, y, z
    <3> QED BY <3>1
  <2>5. hi[cs[a + (n + 1)]] = z
    BY <2>1
  <2> QED BY <2>1, <2>4, <2>5
<1>6. 0..(N - a) \subseteq T
  <2> HIDE DEF T
  <2>1. N - a \in Nat
    BY <1>1
  <2> QED BY <2>1, <1>4, <1>5, UpTo
<1>7. ASSUME NEW b \in 1..N, a <= b PROVE hi[cs[a]] <= hi[cs[b]]
  <2>1. b - a \in 0..(N - a) /\ a + (b - a) = b
    BY <1>1, <1>7
  <2>2. b - a \in T
    BY <1>6, <2>1
  <2> QED BY <2>1, <2>2
<1> QED BY <1>7

\* A stored page p, and what the layout says of it.
Placed(pgs, p, m, K, lo, hi) ==
    /\ p \in PageIds /\ pgs \in [PageIds -> Node]
    /\ Fences(m, K) /\ Ranges(pgs, m, lo, hi)
    /\ pgs[p].kind = "internal"
    /\ Len(pgs[p].children) = Len(pgs[p].keys) + 1
    /\ \A i \in DOMAIN pgs[p].children : pgs[pgs[p].children[i]].kind # "missing"
    /\ Spans(pgs[p].keys, pgs[p].children, lo[p], hi[p], K, lo, hi)

\* Child pointers lead to stored pages (what Shaped says, without its bounds).
Linked(pgs) ==
    /\ pgs \in [PageIds -> Node]
    /\ \A p \in PageIds : pgs[p].kind = "internal" =>
            Len(pgs[p].children) = Len(pgs[p].keys) + 1
    /\ \A p \in PageIds : \A i \in DOMAIN pgs[p].children :
            pgs[pgs[p].children[i]].kind # "missing"

LEMMA ShapedLinked ==
    ASSUME NEW pgs, NEW np, Shaped(pgs, np)
    PROVE  Linked(pgs)
  BY DEF Shaped, Linked

LEMMA PlacedFacts ==
    ASSUME NEW pgs, Linked(pgs), NEW rt, NEW S, NEW m, NEW L, NEW K, NEW lo, NEW hi,
           Complete(pgs, rt, S, m, L, K, lo, hi),
           NEW p \in PageIds, pgs[p].kind = "internal"
    PROVE  Placed(pgs, p, m, K, lo, hi)
<1>1. Fences(m, K) /\ Ranges(pgs, m, lo, hi) /\ Inner(pgs, None, << >>, << >>, K, lo, hi)
  BY DEF Complete, Standing
<1>2. p # None
  BY Constants
<1>3. Spans(pgs[p].keys, pgs[p].children, lo[p], hi[p], K, lo, hi)
  BY <1>1, <1>2 DEF Inner
<1> QED BY <1>1, <1>3 DEF Placed, Linked

LEMMA ChildFacts ==
    ASSUME NEW pgs, NEW p, NEW m, NEW K, NEW lo, NEW hi, Placed(pgs, p, m, K, lo, hi)
    PROVE  /\ pgs[p].keys \in Seq(Keys) /\ pgs[p].children \in Seq(PageIds)
           /\ Len(pgs[p].keys) \in Nat /\ Len(pgs[p].children) = Len(pgs[p].keys) + 1
           /\ \A i \in 1..(Len(pgs[p].keys) + 1) :
                /\ pgs[p].children[i] \in PageIds /\ pgs[pgs[p].children[i]].kind # "missing"
                /\ lo[pgs[p].children[i]] \in Nat /\ hi[pgs[p].children[i]] \in Nat
                /\ 1 <= lo[pgs[p].children[i]] /\ lo[pgs[p].children[i]] <= hi[pgs[p].children[i]]
                /\ hi[pgs[p].children[i]] <= m
           /\ \A i \in 1..Len(pgs[p].keys) :
                /\ hi[pgs[p].children[i]] \in 1..(m - 1)
                /\ pgs[p].keys[i] = K[hi[pgs[p].children[i]]]
<1>1. /\ pgs[p].keys \in Seq(Keys) /\ pgs[p].children \in Seq(PageIds)
      /\ Len(pgs[p].children) = Len(pgs[p].keys) + 1
  BY NodeFields DEF Placed
<1>2. Len(pgs[p].keys) \in Nat /\ DOMAIN pgs[p].children = 1..(Len(pgs[p].keys) + 1)
  BY <1>1
<1>3. lo \in [PageIds -> Nat] /\ hi \in [PageIds -> Nat] /\ m \in Nat
  BY DEF Placed, Ranges, Fences
<1>4. ASSUME NEW i \in 1..(Len(pgs[p].keys) + 1)
      PROVE  /\ pgs[p].children[i] \in PageIds /\ pgs[pgs[p].children[i]].kind # "missing"
             /\ lo[pgs[p].children[i]] \in Nat /\ hi[pgs[p].children[i]] \in Nat
             /\ 1 <= lo[pgs[p].children[i]] /\ lo[pgs[p].children[i]] <= hi[pgs[p].children[i]]
             /\ hi[pgs[p].children[i]] <= m
  <2>1. pgs[p].children[i] \in PageIds /\ pgs[pgs[p].children[i]].kind # "missing"
    BY <1>1, <1>2 DEF Placed
  <2> QED BY <1>3, <2>1 DEF Placed, Ranges
<1>5. ASSUME NEW i \in 1..Len(pgs[p].keys)
      PROVE  hi[pgs[p].children[i]] \in 1..(m - 1) /\ pgs[p].keys[i] = K[hi[pgs[p].children[i]]]
  <2>1. i \in 1..(Len(pgs[p].keys) + 1) /\ i + 1 \in 1..(Len(pgs[p].keys) + 1)
    BY <1>2
  <2>2. /\ lo[pgs[p].children[i + 1]] = hi[pgs[p].children[i]] + 1
        /\ pgs[p].keys[i] = K[hi[pgs[p].children[i]]]
    BY DEF Placed, Spans
  <2> DEFINE a == hi[pgs[p].children[i]]
             b == lo[pgs[p].children[i + 1]]
  <2>3. a \in Nat /\ 1 <= a /\ b = a + 1
    BY <1>4, <2>1, <2>2
  <2>4. b <= m
    BY <1>3, <1>4, <2>1
  <2> HIDE DEF a, b
  <2>5. a \in 1..(m - 1)
    BY <1>3, <2>3, <2>4
  <2> QED BY <2>2, <2>5 DEF a
<1> QED BY <1>1, <1>2, <1>4, <1>5

\* child_index_for_key leads to the leaves where the key belongs.
LEMMA HeadDown ==
    ASSUME NEW pgs, NEW p, NEW m, NEW K, NEW lo, NEW hi, Placed(pgs, p, m, K, lo, hi),
           NEW k \in Keys, Heading(p, k, m, K, lo, hi)
    PROVE  Heading(pgs[p].children[ChildFor(pgs[p].keys, k)], k, m, K, lo, hi)
<1> DEFINE ks == pgs[p].keys
           cs == pgs[p].children
           n == Len(ks)
           D == {i \in DOMAIN ks : k > ks[i]}
           i0 == ChildFor(ks, k)
<1>1. /\ ks \in Seq(Keys) /\ cs \in Seq(PageIds) /\ n \in Nat /\ Len(cs) = n + 1
      /\ \A i \in 1..(n + 1) : lo[cs[i]] \in Nat /\ hi[cs[i]] \in Nat /\ lo[cs[i]] <= hi[cs[i]]
      /\ \A i \in 1..n : hi[cs[i]] \in 1..(m - 1) /\ ks[i] = K[hi[cs[i]]]
      /\ \A i \in 1..(n + 1) : cs[i] \in PageIds
  BY ChildFacts
<1>2. /\ m \in Nat /\ K \in [1..(m - 1) -> Keys] /\ Keys \subseteq Int
      /\ \A a, b \in 1..(m - 1) : a <= b => K[a] <= K[b]
      /\ lo \in [PageIds -> Nat] /\ hi \in [PageIds -> Nat] /\ p \in PageIds
      /\ Spans(ks, cs, lo[p], hi[p], K, lo, hi)
  BY Constants DEF Placed, Fences, Ranges
<1> HIDE DEF ks, cs
<1>3. \A a, b \in 1..(n + 1) : a <= b => hi[cs[a]] <= hi[cs[b]]
  <2>1. \A i \in 1..Len(cs) : lo[cs[i]] <= hi[cs[i]]
    BY <1>1
  <2>2. \A a, b \in 1..Len(cs) : a <= b => hi[cs[a]] <= hi[cs[b]]
    BY <1>1, <1>2, <2>1, SpansOrder
  <2> QED BY <1>1, <2>2
<1>4. \A a, b \in 1..n : a <= b => ks[a] <= ks[b]
  <2> SUFFICES ASSUME NEW a \in 1..n, NEW b \in 1..n, a <= b PROVE ks[a] <= ks[b]
    OBVIOUS
  <2>1. a \in 1..(n + 1) /\ b \in 1..(n + 1)
    BY <1>1
  <2>2. hi[cs[a]] <= hi[cs[b]]
    BY <1>3, <2>1
  <2> QED BY <1>1, <1>2, <2>2
<1>5. \A i \in 1..n : ks[i] \in Int
  BY <1>1, <1>2
<1>6. k \in Int
  BY <1>2
<1>7. DOMAIN ks = 1..n
  BY <1>1
<1> HIDE DEF n
<1>8. Cardinality(D) \in 0..n /\ D = 1..Cardinality(D)
  <2>1. D \in SUBSET (1..n)
    BY <1>7
  <2>2. ASSUME NEW i \in D, NEW j \in 1..i PROVE j \in D
    <3>1. i \in 1..n /\ j \in 1..n /\ j <= i /\ k > ks[i]
      BY <1>1, <1>7, <2>2
    <3>2. ks[j] <= ks[i]
      BY <1>4, <3>1
    <3>3. k > ks[j]
      BY <1>5, <1>6, <3>1, <3>2
    <3> QED BY <1>7, <3>1, <3>3
  <2> HIDE DEF D
  <2> QED BY <1>1, <2>1, <2>2, CountOfPrefix
<1>9. i0 = Cardinality(D) + 1
  BY DEF ChildFor
<1>10. /\ i0 \in 1..(n + 1)
       /\ \A i \in 1..n : i < i0 => ks[i] < k
       /\ i0 <= n => k <= ks[i0]
  <2>1. i0 \in 1..(n + 1) /\ \A i \in 1..n : (i \in D <=> i < i0)
    <3> HIDE DEF D, i0
    <3> QED BY <1>1, <1>8, <1>9
  <2> HIDE DEF i0
  <2>2. \A i \in 1..n : i \in D <=> k > ks[i]
    BY <1>7
  <2> HIDE DEF D
  <2>3. i0 <= n => i0 \in 1..n /\ i0 \notin D
    BY <1>1, <2>1
  <2> QED BY <1>5, <1>6, <2>1, <2>2, <2>3
<1> HIDE DEF i0, D
<1> DEFINE c == cs[i0]
<1>11. ASSUME NEW x \in 1..(m - 1), x < lo[c] PROVE K[x] < k
  <2>1. CASE x < lo[p]
    BY <2>1, <1>11 DEF Heading
  <2>2. CASE ~(x < lo[p])
    <3>1. lo[cs[1]] = lo[p] /\ x \in Nat /\ lo[p] \in Nat /\ lo[c] \in Nat
      BY <1>1, <1>2, <1>10 DEF Spans
    <3>2. i0 # 1
      BY <1>11, <2>2, <3>1
    <3>3. i0 - 1 \in 1..n /\ (i0 - 1) + 1 = i0 /\ i0 - 1 < i0
      BY <1>1, <1>10, <3>2
    <3>4. lo[c] = hi[cs[i0 - 1]] + 1
      BY <1>2, <3>3 DEF Spans, n
    <3>5. hi[cs[i0 - 1]] \in 1..(m - 1) /\ ks[i0 - 1] = K[hi[cs[i0 - 1]]] /\ ks[i0 - 1] < k
      BY <1>1, <1>10, <3>3
    <3>6. x <= hi[cs[i0 - 1]]
      BY <1>2, <1>11, <3>1, <3>4, <3>5
    <3>7. K[x] <= K[hi[cs[i0 - 1]]]
      BY <1>2, <3>5, <3>6
    <3>8. K[x] \in Int /\ K[hi[cs[i0 - 1]]] \in Int
      BY <1>2, <3>5
    <3> QED BY <1>6, <3>5, <3>7, <3>8
  <2> QED BY <2>1, <2>2
<1>12. ASSUME NEW x \in 1..(m - 1), x >= hi[c] PROVE k <= K[x]
  <2>1. CASE i0 = n + 1
    <3>1. hi[c] = hi[p]
      BY <1>2, <2>1 DEF Spans, n
    <3> QED BY <1>12, <3>1 DEF Heading
  <2>2. CASE i0 # n + 1
    <3>1. i0 \in 1..n /\ i0 <= n
      BY <1>1, <1>10, <2>2
    <3>2. k <= ks[i0] /\ ks[i0] = K[hi[c]] /\ hi[c] \in 1..(m - 1)
      BY <1>1, <1>10, <3>1
    <3>3. K[hi[c]] <= K[x]
      BY <1>2, <1>12, <3>2
    <3>4. K[x] \in Int /\ K[hi[c]] \in Int
      BY <1>2, <3>2
    <3> QED BY <1>6, <3>2, <3>3, <3>4
  <2> QED BY <2>1, <2>2
<1>13. Heading(c, k, m, K, lo, hi)
  BY <1>11, <1>12 DEF Heading
<1> QED BY <1>13 DEF cs, ks, i0

-----------------------------------------------------------------------------
(* An entry goes into a leaf. *)

\* xs is es with e at place pos.
PutAt(es, e, pos, xs) ==
    /\ es \in Seq(Entry) /\ xs \in Seq(Entry) /\ e \in Entry
    /\ Len(es) \in Nat /\ Len(xs) = Len(es) + 1 /\ pos \in 1..(Len(es) + 1)
    /\ \A n \in 1..(Len(es) + 1) :
            xs[n] = IF n < pos THEN es[n] ELSE IF n = pos THEN e ELSE es[n - 1]

Ascending(es) == \A a, b \in 1..Len(es) : a < b => Before(es[a], es[b])

LEMMA EntryFacts ==
    ASSUME NEW e \in Entry
    PROVE  e.key \in Keys /\ e.key \in Int /\ e.row \in Rows /\ e.row \in Nat /\ e.row \in Int
<1>1. e.key \in Keys /\ e.row \in Rows
  BY DEF Entry
<1>2. e.key \in Int /\ e.row \in Nat
  BY <1>1, Constants
<1> QED BY <1>1, <1>2

LEMMA BeforeOrder ==
    ASSUME NEW e \in Entry, NEW f \in Entry, NEW g \in Entry
    PROVE  /\ Before(e, f) /\ Before(f, g) => Before(e, g)
           /\ ~Before(e, f) /\ e.row # f.row => Before(f, e)
<1>1. /\ e.key \in Int /\ e.row \in Int /\ f.key \in Int /\ f.row \in Int
      /\ g.key \in Int /\ g.row \in Int
  BY EntryFacts
<1> QED BY <1>1 DEF Before

\* The binary search of insert_leaf_entry finds a place that keeps the entries in order.
LEMMA WithEntryAscending ==
    ASSUME NEW es \in Seq(Entry), NEW e \in Entry, Ascending(es),
           \A a \in 1..Len(es) : es[a].row # e.row
    PROVE  \E pos : PutAt(es, e, pos, WithEntry(es, e)) /\ Ascending(WithEntry(es, e))
<1> DEFINE N == Len(es)
           D == {i \in DOMAIN es : Before(es[i], e)}
           xs == WithEntry(es, e)
           pos == Cardinality(D) + 1
<1>1. N \in Nat /\ DOMAIN es = 1..N /\ \A i \in 1..N : es[i] \in Entry
  OBVIOUS
<1>2. Cardinality(D) \in 0..N /\ D = 1..Cardinality(D)
  <2>1. D \in SUBSET (1..N)
    BY <1>1
  <2>2. ASSUME NEW i \in D, NEW j \in 1..i PROVE j \in D
    <3>1. i \in 1..N /\ j \in 1..N /\ (j = i \/ j < i) /\ Before(es[i], e)
      BY <1>1, <2>2
    <3>2. CASE j = i
      BY <2>2, <3>2
    <3>3. CASE j < i
      <4>1. Before(es[j], es[i])
        BY <3>1, <3>3 DEF Ascending
      <4>2. es[j] \in Entry /\ es[i] \in Entry
        BY <1>1, <3>1
      <4>3. Before(es[j], e)
        BY <3>1, <4>1, <4>2, BeforeOrder
      <4> QED BY <1>1, <3>1, <4>3
    <3> QED BY <3>1, <3>2, <3>3
  <2> HIDE DEF D, N
  <2> QED BY <1>1, <2>1, <2>2, CountOfPrefix
<1>3. xs = InsertAt(es, pos, e)
  BY DEF WithEntry
<1>4. pos \in 1..(N + 1) /\ \A i \in 1..N : i \in D <=> i < pos
  <2> HIDE DEF D, N
  <2> QED BY <1>1, <1>2
<1>5. \A i \in 1..N : /\ i < pos => Before(es[i], e)
                      /\ ~(i < pos) => Before(e, es[i])
  <2> TAKE i \in 1..N
  <2>1. (i \in D <=> Before(es[i], e)) /\ es[i].row # e.row /\ es[i] \in Entry
    BY <1>1
  <2> QED BY <1>4, <2>1, BeforeOrder
<1> HIDE DEF pos, xs
<1>6. PutAt(es, e, pos, xs)
  <2>1. /\ xs \in Seq(Entry) /\ Len(xs) = Len(es) + 1
        /\ \A n \in 1..(Len(es) + 1) :
                xs[n] = IF n < pos THEN es[n] ELSE IF n = pos THEN e ELSE es[n - 1]
    BY <1>3, <1>4, InsertAtFacts, SMTT(30)
  <2> QED BY <1>1, <1>4, <2>1 DEF PutAt
<1>7. Ascending(xs)
  <2>1. \A n \in 1..(N + 1) : xs[n] = IF n < pos THEN es[n] ELSE IF n = pos THEN e ELSE es[n - 1]
    BY <1>6 DEF PutAt
  <2>2. Len(xs) = N + 1
    BY <1>6 DEF PutAt
  <2>3. \A a, b \in 1..N : a < b => Before(es[a], es[b])
    BY DEF Ascending
  <2> HIDE DEF N
  <2>4. ASSUME NEW a \in 1..(N + 1), NEW b \in 1..(N + 1), a < b PROVE Before(xs[a], xs[b])
    <3>1. CASE b < pos
      <4>1. a \in 1..N /\ b \in 1..N /\ xs[a] = es[a] /\ xs[b] = es[b]
        BY <1>1, <1>4, <2>1, <2>4, <3>1
      <4> QED BY <2>3, <2>4, <4>1
    <3>2. CASE b = pos
      <4>1. a \in 1..N /\ a < pos /\ xs[a] = es[a] /\ xs[b] = e
        BY <1>1, <1>4, <2>1, <2>4, <3>2
      <4> QED BY <1>5, <4>1
    <3>3. CASE b > pos /\ a < pos
      <4>1. a \in 1..N /\ b - 1 \in 1..N /\ a < b - 1 /\ xs[a] = es[a] /\ xs[b] = es[b - 1]
        BY <1>1, <1>4, <2>1, <2>4, <3>3
      <4> QED BY <2>3, <4>1
    <3>4. CASE b > pos /\ a = pos
      <4>1. b - 1 \in 1..N /\ ~(b - 1 < pos) /\ xs[a] = e /\ xs[b] = es[b - 1]
        BY <1>1, <1>4, <2>1, <2>4, <3>4
      <4> QED BY <1>5, <4>1
    <3>5. CASE b > pos /\ a > pos
      <4>1. a - 1 \in 1..N /\ b - 1 \in 1..N /\ a - 1 < b - 1 /\ xs[a] = es[a - 1] /\ xs[b] = es[b - 1]
        BY <1>1, <1>4, <2>1, <2>4, <3>5
      <4> QED BY <2>3, <4>1
    <3> QED BY <1>1, <1>4, <3>1, <3>2, <3>3, <3>4, <3>5
  <2> QED BY <2>2, <2>4 DEF Ascending
<1> QED BY <1>6, <1>7 DEF xs

\* What PutAt means for the set of entries: those of es, and e.
LEMMA PutAtMembers ==
    ASSUME NEW es, NEW e, NEW pos, NEW xs, PutAt(es, e, pos, xs)
    PROVE  /\ \A n \in 1..Len(xs) : xs[n] = e \/ \E a \in 1..Len(es) : xs[n] = es[a]
           /\ \A a \in 1..Len(es) : \E n \in 1..Len(xs) : xs[n] = es[a]
           /\ \E n \in 1..Len(xs) : xs[n] = e
<1> DEFINE N == Len(es)
<1>1. /\ N \in Nat /\ Len(xs) = N + 1 /\ pos \in 1..(N + 1)
      /\ \A n \in 1..(N + 1) : xs[n] = IF n < pos THEN es[n] ELSE IF n = pos THEN e ELSE es[n - 1]
  BY DEF PutAt
<1> HIDE DEF N
<1>2. ASSUME NEW n \in 1..(N + 1) PROVE xs[n] = e \/ \E a \in 1..N : xs[n] = es[a]
  <2>1. n < pos => n \in 1..N
    BY <1>1
  <2>2. n > pos => n - 1 \in 1..N
    BY <1>1
  <2> QED BY <1>1, <2>1, <2>2
<1>3. ASSUME NEW a \in 1..N PROVE \E n \in 1..(N + 1) : xs[n] = es[a]
  <2>1. CASE a < pos
    <3>1. a \in 1..(N + 1) /\ xs[a] = es[a]
      BY <1>1, <2>1
    <3> QED BY <3>1
  <2>2. CASE ~(a < pos)
    <3>1. a + 1 \in 1..(N + 1) /\ xs[a + 1] = es[a]
      BY <1>1, <2>2
    <3> QED BY <3>1
  <2> QED BY <2>1, <2>2
<1>4. xs[pos] = e
  BY <1>1
<1> QED BY <1>1, <1>2, <1>3, <1>4 DEF N

IsLeaf(pgs, p) == p \in PageIds /\ pgs[p].kind = "leaf"
Stands(pgs, p, a, e) == IsLeaf(pgs, p) /\ a \in 1..Len(pgs[p].entries) /\ pgs[p].entries[a] = e

\* Holds, place by place.
LEMMA HoldsPlaces ==
    ASSUME NEW pgs, NEW S
    PROVE  Holds(pgs, S) <=>
            /\ \A p, a, e : Stands(pgs, p, a, e) => e \in S
            /\ \A e \in S : \E p, a : Stands(pgs, p, a, e)
            /\ \A p, a, e, q, b, f :
                 Stands(pgs, p, a, e) /\ Stands(pgs, q, b, f) /\ e.row = f.row => p = q /\ a = b
<1>1. ASSUME Holds(pgs, S)
      PROVE  /\ \A p, a, e : Stands(pgs, p, a, e) => e \in S
             /\ \A e \in S : \E p, a : Stands(pgs, p, a, e)
             /\ \A p, a, e, q, b, f :
                 Stands(pgs, p, a, e) /\ Stands(pgs, q, b, f) /\ e.row = f.row => p = q /\ a = b
  <2>1. \A p, a, e : Stands(pgs, p, a, e) => e \in S
    BY <1>1 DEF Holds, Stands, IsLeaf
  <2>2. \A e \in S : \E p, a : Stands(pgs, p, a, e)
    BY <1>1 DEF Holds, Stands, IsLeaf
  <2>3. \A p, a, e, q, b, f :
            Stands(pgs, p, a, e) /\ Stands(pgs, q, b, f) /\ e.row = f.row => p = q /\ a = b
    <3> SUFFICES ASSUME NEW p, NEW a, NEW e, NEW q, NEW b, NEW f,
                        Stands(pgs, p, a, e), Stands(pgs, q, b, f), e.row = f.row
                 PROVE  p = q /\ a = b
      OBVIOUS
    <3> QED BY <1>1 DEF Holds, Stands, IsLeaf
  <2> QED BY <2>1, <2>2, <2>3
<1>2. ASSUME \A p, a, e : Stands(pgs, p, a, e) => e \in S,
             \A e \in S : \E p, a : Stands(pgs, p, a, e),
             \A p, a, e, q, b, f :
                 Stands(pgs, p, a, e) /\ Stands(pgs, q, b, f) /\ e.row = f.row => p = q /\ a = b
      PROVE  Holds(pgs, S)
  <2>1. ASSUME NEW p \in PageIds, pgs[p].kind = "leaf", NEW a \in 1..Len(pgs[p].entries)
        PROVE  pgs[p].entries[a] \in S
    <3>1. Stands(pgs, p, a, pgs[p].entries[a])
      BY <2>1 DEF Stands, IsLeaf
    <3> QED BY <1>2, <3>1
  <2>2. ASSUME NEW e \in S
        PROVE  \E p \in PageIds : /\ pgs[p].kind = "leaf"
                                  /\ \E a \in 1..Len(pgs[p].entries) : pgs[p].entries[a] = e
    BY <1>2 DEF Stands, IsLeaf
  <2>3. ASSUME NEW p \in PageIds, NEW q \in PageIds, pgs[p].kind = "leaf", pgs[q].kind = "leaf",
               NEW a \in 1..Len(pgs[p].entries), NEW b \in 1..Len(pgs[q].entries),
               pgs[p].entries[a].row = pgs[q].entries[b].row
        PROVE  p = q /\ a = b
    <3>1. Stands(pgs, p, a, pgs[p].entries[a]) /\ Stands(pgs, q, b, pgs[q].entries[b])
      BY <2>3 DEF Stands, IsLeaf
    <3> QED BY <1>2, <2>3, <3>1
  <2> QED BY <2>1, <2>2, <2>3 DEF Holds
<1> QED BY <1>1, <1>2

\* Page p of new is page p of pgs with e put in; the other pages are the same.
LEMMA HoldsPut ==
    ASSUME NEW pgs, NEW S, Holds(pgs, S), NEW p, IsLeaf(pgs, p), NEW e, NEW pos, NEW xs,
           PutAt(pgs[p].entries, e, pos, xs), \A f \in S : f.row # e.row,
           NEW new, IsLeaf(new, p), new[p].entries = xs,
           \A q \in PageIds : q # p => new[q] = pgs[q]
    PROVE  Holds(new, S \cup {e})
<1> DEFINE N == Len(pgs[p].entries)
           From(n) == IF n < pos THEN n ELSE n - 1
<1>1. /\ N \in Nat /\ Len(xs) = N + 1 /\ pos \in 1..(N + 1)
      /\ \A n \in 1..(N + 1) :
            xs[n] = IF n < pos THEN pgs[p].entries[n] ELSE IF n = pos THEN e ELSE pgs[p].entries[n - 1]
  BY DEF PutAt
<1>2. /\ \A q, a, f : Stands(pgs, q, a, f) => f \in S
      /\ \A f \in S : \E q, a : Stands(pgs, q, a, f)
      /\ \A q, a, f, r, b, g :
            Stands(pgs, q, a, f) /\ Stands(pgs, r, b, g) /\ f.row = g.row => q = r /\ a = b
  BY HoldsPlaces
<1> HIDE DEF N
<1>3. \A q, a, f : q # p => (Stands(new, q, a, f) <=> Stands(pgs, q, a, f))
  BY DEF Stands, IsLeaf
<1>4. \A a, f : Stands(new, p, a, f) =>
            \/ a = pos /\ f = e
            \/ /\ a \in 1..(N + 1) /\ a # pos /\ Stands(pgs, p, From(a), f)
  <2> SUFFICES ASSUME NEW a, NEW f, Stands(new, p, a, f)
               PROVE  (a = pos /\ f = e) \/ (a \in 1..(N + 1) /\ a # pos /\ Stands(pgs, p, From(a), f))
    OBVIOUS
  <2>1. a \in 1..(N + 1) /\ f = xs[a]
    BY <1>1 DEF Stands, N
  <2>2. CASE a = pos
    BY <1>1, <2>1, <2>2
  <2>3. CASE a # pos
    <3>1. From(a) \in 1..N /\ f = pgs[p].entries[From(a)]
      BY <1>1, <2>1, <2>3
    <3> HIDE DEF From
    <3> QED BY <2>1, <2>3, <3>1 DEF Stands, N
  <2> QED BY <2>2, <2>3
<1>5. \A a, f : Stands(pgs, p, a, f) => \E n : Stands(new, p, n, f)
  <2> SUFFICES ASSUME NEW a, NEW f, Stands(pgs, p, a, f) PROVE \E n : Stands(new, p, n, f)
    OBVIOUS
  <2>1. a \in 1..Len(pgs[p].entries) /\ f = pgs[p].entries[a]
    BY DEF Stands
  <2>2. PICK n \in 1..Len(xs) : xs[n] = pgs[p].entries[a]
    BY <2>1, PutAtMembers
  <2> QED BY <2>1, <2>2 DEF Stands
<1>6. \E n : Stands(new, p, n, e)
  <2>1. PICK n \in 1..Len(xs) : xs[n] = e
    BY PutAtMembers
  <2> QED BY <2>1 DEF Stands
<1>7. \A q, a, f : Stands(new, q, a, f) => f \in S \cup {e}
  BY <1>2, <1>3, <1>4
<1>8. \A f \in S \cup {e} : \E q, a : Stands(new, q, a, f)
  <2> TAKE f \in S \cup {e}
  <2>1. CASE f = e
    BY <1>6, <2>1
  <2>2. CASE f # e
    <3>1. PICK q, a : Stands(pgs, q, a, f)
      BY <1>2, <2>2
    <3> QED BY <1>3, <1>5, <3>1
  <2> QED BY <2>1, <2>2
<1>9. ASSUME NEW q, NEW a, NEW f, NEW r, NEW b, NEW g,
             Stands(new, q, a, f), Stands(new, r, b, g), f.row = g.row
      PROVE  q = r /\ a = b
  <2>1. \/ q = p /\ a = pos /\ f = e
        \/ q # p /\ Stands(pgs, q, a, f)
        \/ q = p /\ a \in 1..(N + 1) /\ a # pos /\ Stands(pgs, p, From(a), f)
    BY <1>3, <1>4, <1>9
  <2>2. \/ r = p /\ b = pos /\ g = e
        \/ r # p /\ Stands(pgs, r, b, g)
        \/ r = p /\ b \in 1..(N + 1) /\ b # pos /\ Stands(pgs, p, From(b), g)
    BY <1>3, <1>4, <1>9
  <2>3. ASSUME a \in 1..(N + 1), a # pos, b \in 1..(N + 1), b # pos, From(a) = From(b) PROVE a = b
    BY <1>1, <2>3
  <2> HIDE DEF From
  <2>4. CASE q = p /\ a = pos /\ f = e
    BY <1>2, <1>9, <2>2, <2>4
  <2>5. CASE q # p /\ Stands(pgs, q, a, f)
    BY <1>2, <1>9, <2>2, <2>5
  <2>6. CASE q = p /\ a \in 1..(N + 1) /\ a # pos /\ Stands(pgs, p, From(a), f)
    <3>1. CASE r = p /\ b = pos /\ g = e
      BY <1>2, <1>9, <2>6, <3>1
    <3>2. CASE r # p /\ Stands(pgs, r, b, g)
      BY <1>2, <1>9, <2>6, <3>2
    <3>3. CASE r = p /\ b \in 1..(N + 1) /\ b # pos /\ Stands(pgs, p, From(b), g)
      <4>1. From(a) = From(b)
        BY <1>2, <1>9, <2>6, <3>3
      <4> QED BY <2>3, <2>6, <3>3, <4>1
    <3> QED BY <2>2, <3>1, <3>2, <3>3
  <2> QED BY <2>1, <2>4, <2>5, <2>6
<1> QED BY <1>7, <1>8, <1>9, HoldsPlaces

\* The entries from h + 1 on have moved from page p to page r.
Moved(pgs, new, p, r, h, N) ==
    /\ IsLeaf(pgs, p) /\ r \in PageIds /\ ~IsLeaf(pgs, r) /\ IsLeaf(new, p) /\ IsLeaf(new, r)
    /\ N \in Nat /\ N = Len(pgs[p].entries) /\ h \in 0..N
    /\ Len(new[p].entries) = h /\ \A a \in 1..h : new[p].entries[a] = pgs[p].entries[a]
    /\ Len(new[r].entries) = N - h
    /\ \A a \in 1..(N - h) : new[r].entries[a] = pgs[p].entries[h + a]
    /\ \A q \in PageIds : q # p /\ q # r => new[q] = pgs[q]

LEMMA HoldsMoved ==
    ASSUME NEW pgs, NEW S, Holds(pgs, S), NEW new, NEW p, NEW r, NEW h, NEW N,
           Moved(pgs, new, p, r, h, N)
    PROVE  Holds(new, S)
<1> USE DEF Moved
<1>1. /\ \A q, a, f : Stands(pgs, q, a, f) => f \in S
      /\ \A f \in S : \E q, a : Stands(pgs, q, a, f)
      /\ \A q, a, f, t, b, g :
            Stands(pgs, q, a, f) /\ Stands(pgs, t, b, g) /\ f.row = g.row => q = t /\ a = b
  BY HoldsPlaces
<1>2. \A q, a, f : q # p /\ q # r => (Stands(new, q, a, f) <=> Stands(pgs, q, a, f))
  BY DEF Stands, IsLeaf
<1>3. \A a, f : Stands(new, p, a, f) => a \in 1..h /\ Stands(pgs, p, a, f)
  <2> SUFFICES ASSUME NEW a, NEW f, Stands(new, p, a, f) PROVE a \in 1..h /\ Stands(pgs, p, a, f)
    OBVIOUS
  <2>1. a \in 1..h /\ f = pgs[p].entries[a]
    BY DEF Stands
  <2>2. a \in 1..N
    BY <2>1
  <2> QED BY <2>1, <2>2 DEF Stands
<1>4. \A a, f : Stands(new, r, a, f) => a \in 1..(N - h) /\ Stands(pgs, p, h + a, f)
  <2> SUFFICES ASSUME NEW a, NEW f, Stands(new, r, a, f)
               PROVE  a \in 1..(N - h) /\ Stands(pgs, p, h + a, f)
    OBVIOUS
  <2>1. a \in 1..(N - h) /\ f = pgs[p].entries[h + a]
    BY DEF Stands
  <2>2. h + a \in 1..N
    BY <2>1
  <2> QED BY <2>1, <2>2 DEF Stands
<1>5. ~\E a, f : Stands(pgs, r, a, f)
  BY DEF Stands
<1>6. \A a, f : Stands(pgs, p, a, f) => \E q, n : Stands(new, q, n, f)
  <2> SUFFICES ASSUME NEW a, NEW f, Stands(pgs, p, a, f) PROVE \E q, n : Stands(new, q, n, f)
    OBVIOUS
  <2>1. a \in 1..N /\ f = pgs[p].entries[a]
    BY DEF Stands
  <2>2. CASE a <= h
    <3>1. a \in 1..h
      BY <2>1, <2>2
    <3>2. Stands(new, p, a, f)
      BY <2>1, <3>1 DEF Stands
    <3> QED BY <3>2
  <2>3. CASE ~(a <= h)
    <3> DEFINE n == a - h
    <3>1. n \in 1..(N - h) /\ h + n = a
      BY <2>1, <2>3
    <3> HIDE DEF n
    <3>2. Stands(new, r, n, f)
      BY <2>1, <3>1 DEF Stands
    <3> QED BY <3>2
  <2> QED BY <2>2, <2>3
<1>7. \A q, a, f : Stands(new, q, a, f) => f \in S
  BY <1>1, <1>2, <1>3, <1>4
<1>8. \A f \in S : \E q, a : Stands(new, q, a, f)
  <2> TAKE f \in S
  <2>1. PICK q, a : Stands(pgs, q, a, f)
    BY <1>1
  <2> QED BY <1>2, <1>5, <1>6, <2>1
<1>9. ASSUME NEW q, NEW a, NEW f, NEW t, NEW b, NEW g,
             Stands(new, q, a, f), Stands(new, t, b, g), f.row = g.row
      PROVE  q = t /\ a = b
  <2>1. \/ q # p /\ q # r /\ Stands(pgs, q, a, f)
        \/ q = p /\ a \in 1..h /\ Stands(pgs, p, a, f)
        \/ q = r /\ a \in 1..(N - h) /\ Stands(pgs, p, h + a, f)
    BY <1>2, <1>3, <1>4, <1>9
  <2>2. \/ t # p /\ t # r /\ Stands(pgs, t, b, g)
        \/ t = p /\ b \in 1..h /\ Stands(pgs, p, b, g)
        \/ t = r /\ b \in 1..(N - h) /\ Stands(pgs, p, h + b, g)
    BY <1>2, <1>3, <1>4, <1>9
  <2>3. CASE q # p /\ q # r /\ Stands(pgs, q, a, f)
    BY <1>1, <1>9, <2>2, <2>3
  <2>4. CASE q = p /\ a \in 1..h /\ Stands(pgs, p, a, f)
    <3>1. CASE t # p /\ t # r /\ Stands(pgs, t, b, g)
      BY <1>1, <1>9, <2>4, <3>1
    <3>2. CASE t = p /\ b \in 1..h /\ Stands(pgs, p, b, g)
      BY <1>1, <1>9, <2>4, <3>2
    <3>3. CASE t = r /\ b \in 1..(N - h) /\ Stands(pgs, p, h + b, g)
      <4>1. a = h + b
        BY <1>1, <1>9, <2>4, <3>3
      <4> QED BY <2>4, <3>3, <4>1
    <3> QED BY <2>2, <3>1, <3>2, <3>3
  <2>5. CASE q = r /\ a \in 1..(N - h) /\ Stands(pgs, p, h + a, f)
    <3>1. CASE t # p /\ t # r /\ Stands(pgs, t, b, g)
      BY <1>1, <1>9, <2>5, <3>1
    <3>2. CASE t = p /\ b \in 1..h /\ Stands(pgs, p, b, g)
      <4>1. h + a = b
        BY <1>1, <1>9, <2>5, <3>2
      <4> QED BY <2>5, <3>2, <4>1
    <3>3. CASE t = r /\ b \in 1..(N - h) /\ Stands(pgs, p, h + b, g)
      <4>1. h + a = h + b
        BY <1>1, <1>9, <2>5, <3>3
      <4> QED BY <2>5, <3>3, <4>1
    <3> QED BY <2>2, <3>1, <3>2, <3>3
  <2> QED BY <2>1, <2>3, <2>4, <2>5
<1> QED BY <1>7, <1>8, <1>9, HoldsPlaces

\* The page that holds leaf j, and what is in it.
LEMMA LeafPlace ==
    ASSUME NEW pgs, NEW m, NEW L, NEW lo, NEW hi, Chain(pgs, m, L, lo, hi), NEW p, IsLeaf(pgs, p)
    PROVE  lo[p] \in 1..m /\ hi[p] = lo[p] /\ L[lo[p]] = p
<1>1. lo[p] \in 1..m /\ L[lo[p]] = p
  BY DEF Chain, IsLeaf
<1>2. hi[L[lo[p]]] = lo[p]
  BY <1>1 DEF Chain
<1> QED BY <1>1, <1>2

\* A leaf that takes one more entry, in the place where the descent has led.
LEMMA LeafPut ==
    ASSUME NEW pgs, Linked(pgs), NEW rt, NEW S, NEW m, NEW L, NEW K, NEW lo, NEW hi,
           Complete(pgs, rt, S, m, L, K, lo, hi), NEW p, IsLeaf(pgs, p),
           NEW e \in Entry, Heading(p, e.key, m, K, lo, hi), \A f \in S : f.row # e.row,
           NEW new, new = [pgs EXCEPT ![p] = Leaf(pgs[p].next, WithEntry(pgs[p].entries, e))]
    PROVE  Linked(new) /\ Complete(new, rt, S \cup {e}, m, L, K, lo, hi) /\ IsLeaf(new, p)
<1> DEFINE es == pgs[p].entries
           xs == WithEntry(es, e)
           j == lo[p]
<1>1. /\ Fences(m, K) /\ Chain(pgs, m, L, lo, hi) /\ Sorted(pgs, m, L, K) /\ Holds(pgs, S)
      /\ Ranges(pgs, m, lo, hi) /\ OneParent(pgs) /\ Orphan(pgs, rt)
      /\ lo[rt] = 1 /\ hi[rt] = m /\ Inner(pgs, None, << >>, << >>, K, lo, hi)
  BY DEF Complete, Standing
<1>2. /\ p \in PageIds /\ pgs \in [PageIds -> Node] /\ pgs[p].kind = "leaf"
      /\ pgs[p].next \in PageIds \cup {None} /\ es \in Seq(Entry)
  BY NodeFields DEF Linked, IsLeaf
<1>3. j \in 1..m /\ hi[p] = j /\ L[j] = p
  BY <1>1, LeafPlace
<1>4. InOrder(es, j, m, K)
  BY <1>1, <1>3 DEF Sorted
<1>5. \A a \in 1..Len(es) : es[a].row # e.row
  BY <1>1, <1>2 DEF Holds
<1>6. PICK pos : PutAt(es, e, pos, xs) /\ Ascending(xs)
  <2>1. Ascending(es)
    BY <1>4 DEF Ascending, InOrder
  <2> QED BY <1>2, <1>5, <2>1, WithEntryAscending
<1>7. xs \in Seq(Entry)
  BY <1>6 DEF PutAt
<1>8. /\ new \in [PageIds -> Node] /\ new[p].kind = "leaf" /\ new[p].next = pgs[p].next
      /\ new[p].entries = xs /\ DOMAIN new[p].children = {}
      /\ \A q \in PageIds : q # p => new[q] = pgs[q]
  <2>1. /\ Leaf(pgs[p].next, xs) \in Node /\ Leaf(pgs[p].next, xs).kind = "leaf"
        /\ Leaf(pgs[p].next, xs).next = pgs[p].next /\ Leaf(pgs[p].next, xs).entries = xs
        /\ Leaf(pgs[p].next, xs).children = << >>
    BY <1>2, <1>7, LeafFacts
  <2>2. DOMAIN << >> = {}
    OBVIOUS
  <2> HIDE DEF xs
  <2>3. new[p] = Leaf(pgs[p].next, xs) /\ \A q \in PageIds : q # p => new[q] = pgs[q]
    BY <1>2 DEF xs
  <2>4. new \in [PageIds -> Node]
    BY <1>2, <2>1 DEF xs
  <2> QED BY <2>1, <2>2, <2>3, <2>4
<1> HIDE DEF xs
<1>9. \A q \in PageIds : new[q].kind = pgs[q].kind
  BY <1>2, <1>8
<1>10. IsLeaf(new, p)
  BY <1>2, <1>8 DEF IsLeaf
<1>11. \A q \in PageIds : \A i \in DOMAIN new[q].children :
            i \in DOMAIN pgs[q].children /\ new[q].children[i] = pgs[q].children[i]
  BY <1>2, <1>8
<1>12. Linked(new)
  <2>1. ASSUME NEW q \in PageIds, NEW i \in DOMAIN new[q].children
        PROVE  new[new[q].children[i]].kind # "missing"
    <3>1. new[q].children[i] = pgs[q].children[i] /\ pgs[pgs[q].children[i]].kind # "missing"
      BY <1>11, <2>1 DEF Linked
    <3>2. q # p
      BY <1>8, <2>1
    <3>3. pgs[q].children \in Seq(PageIds) /\ i \in DOMAIN pgs[q].children
      BY <1>2, <1>11, NodeFields
    <3>4. pgs[q].children[i] \in PageIds
      BY <3>3
    <3> QED BY <1>9, <3>1, <3>4
  <2>2. ASSUME NEW q \in PageIds, new[q].kind = "internal"
        PROVE  Len(new[q].children) = Len(new[q].keys) + 1
    BY <1>8, <2>2 DEF Linked
  <2> QED BY <1>8, <2>1, <2>2 DEF Linked
<1>13. Chain(new, m, L, lo, hi)
  <2>1. L \in [1..m -> PageIds]
    BY <1>1 DEF Chain
  <2>2. \A q \in PageIds : new[q].next = pgs[q].next
    BY <1>2, <1>8
  <2> QED BY <1>1, <1>9, <2>1, <2>2 DEF Chain
<1>14. Sorted(new, m, L, K)
  <2> SUFFICES ASSUME NEW c \in 1..m PROVE InOrder(new[L[c]].entries, c, m, K)
    BY DEF Sorted
  <2>1. L[c] \in PageIds /\ lo[L[c]] = c
    BY <1>1 DEF Chain
  <2>2. CASE c # j
    <3>1. new[L[c]] = pgs[L[c]]
      BY <1>8, <2>1, <2>2
    <3> QED BY <1>1, <3>1 DEF Sorted
  <2>3. CASE c = j
    <3>1. new[L[c]].entries = xs
      BY <1>3, <1>8, <2>3
    <3>2. \A a, b \in 1..Len(xs) : a < b => Before(xs[a], xs[b])
      BY <1>6 DEF Ascending
    <3>3. ASSUME NEW a \in 1..Len(xs)
          PROVE  (j < m => xs[a].key <= K[j]) /\ (j > 1 => K[j - 1] <= xs[a].key)
      <4>1. CASE xs[a] = e
        <5>1. j \in Nat /\ m \in Nat /\ K \in [1..(m - 1) -> Keys] /\ e.key \in Int /\ Keys \subseteq Int
          BY <1>1, <1>3, EntryFacts, Constants DEF Fences
        <5>2. j < m => j \in 1..(m - 1) /\ j >= hi[p]
          BY <1>3, <5>1
        <5>3. j > 1 => j - 1 \in 1..(m - 1) /\ j - 1 < lo[p]
          BY <1>3, <5>1
        <5>4. j < m => e.key <= K[j]
          BY <5>2 DEF Heading
        <5>5. j > 1 => K[j - 1] < e.key
          BY <5>3 DEF Heading
        <5>6. j > 1 => K[j - 1] \in Int
          BY <5>1, <5>3
        <5> QED BY <4>1, <5>1, <5>4, <5>5, <5>6
      <4>2. CASE \E n \in 1..Len(es) : xs[a] = es[n]
        BY <1>4, <4>2 DEF InOrder
      <4>3. xs[a] = e \/ \E n \in 1..Len(es) : xs[a] = es[n]
        BY <1>6, PutAtMembers
      <4> QED BY <4>1, <4>2, <4>3
    <3> QED BY <2>3, <3>1, <3>2, <3>3 DEF InOrder
  <2> QED BY <2>2, <2>3
<1>15. Holds(new, S \cup {e})
  BY <1>1, <1>6, <1>8, <1>10, HoldsPut
<1>16. Ranges(new, m, lo, hi)
  BY <1>1, <1>9 DEF Ranges
<1>17. OneParent(new)
  BY <1>1, <1>11 DEF OneParent
<1>18. Orphan(new, rt)
  BY <1>1, <1>11 DEF Orphan
<1>19. Inner(new, None, << >>, << >>, K, lo, hi)
  <2>1. \A q \in PageIds : new[q].kind = "internal" => new[q] = pgs[q]
    BY <1>8
  <2> QED BY <1>1, <2>1 DEF Inner
<1> QED BY <1>1, <1>10, <1>12, <1>13, <1>14, <1>15, <1>16, <1>17, <1>18, <1>19 DEF Complete, Standing

-----------------------------------------------------------------------------
(* A leaf is cut in two. *)

\* A node whose child i has given away its right part, np, and does not know it yet.
Gap(ks, cs, i, sep, np, l, h, K, lo, hi) ==
    /\ ks \in Seq(Keys) /\ cs \in Seq(PageIds) /\ Len(ks) \in Nat /\ Len(cs) = Len(ks) + 1
    /\ i \in 1..(Len(ks) + 1) /\ sep \in Keys /\ np \in PageIds
    /\ lo[cs[1]] = l
    /\ IF i = Len(ks) + 1 THEN hi[np] = h ELSE hi[cs[Len(ks) + 1]] = h
    /\ \A n \in 1..Len(ks) : n # i => lo[cs[n + 1]] = hi[cs[n]] + 1 /\ ks[n] = K[hi[cs[n]]]
    /\ lo[np] = hi[cs[i]] + 1 /\ sep = K[hi[cs[i]]]
    /\ i <= Len(ks) => lo[cs[i + 1]] = hi[np] + 1 /\ ks[i] = K[hi[np]]

LEMMA GapFilled ==
    ASSUME NEW ks, NEW cs, NEW i, NEW sep, NEW np, NEW l, NEW h, NEW K, NEW lo, NEW hi,
           Gap(ks, cs, i, sep, np, l, h, K, lo, hi)
    PROVE  Spans(InsertAt(ks, i, sep), InsertAt(cs, i + 1, np), l, h, K, lo, hi)
<1> DEFINE N == Len(ks)
           j == i + 1
           xs == InsertAt(ks, i, sep)
           ys == InsertAt(cs, j, np)
<1>1. /\ ks \in Seq(Keys) /\ cs \in Seq(PageIds) /\ N \in Nat /\ Len(cs) = N + 1
      /\ i \in 1..(N + 1) /\ sep \in Keys /\ np \in PageIds
  BY DEF Gap
<1>2. cs \in Seq(PageIds) /\ np \in PageIds /\ j \in 1..(Len(cs) + 1)
  BY <1>1
<1> HIDE DEF N, j
<1>3. Len(xs) = N + 1
      /\ \A n \in 1..(N + 1) : xs[n] = IF n < i THEN ks[n] ELSE IF n = i THEN sep ELSE ks[n - 1]
  BY <1>1, InsertAtFacts DEF N
<1>4. \A n \in 1..(Len(cs) + 1) : ys[n] = IF n < j THEN cs[n] ELSE IF n = j THEN np ELSE cs[n - 1]
  BY <1>2, InsertAtFacts
<1> HIDE DEF xs, ys
<1>5. \A n \in 1..(N + 2) : ys[n] = IF n < i + 1 THEN cs[n] ELSE IF n = i + 1 THEN np ELSE cs[n - 1]
  BY <1>1, <1>4 DEF j
<1>6. lo[ys[1]] = l
  <2>1. ys[1] = cs[1]
    BY <1>1, <1>5
  <2> QED BY <2>1 DEF Gap
<1>7. hi[ys[(N + 1) + 1]] = h
  <2>1. CASE i = N + 1
    <3>1. ys[(N + 1) + 1] = np
      BY <1>1, <1>5, <2>1
    <3> QED BY <2>1, <3>1 DEF Gap, N
  <2>2. CASE i # N + 1
    <3>1. ys[(N + 1) + 1] = cs[N + 1]
      BY <1>1, <1>5, <2>2
    <3> QED BY <2>2, <3>1 DEF Gap, N
  <2> QED BY <2>1, <2>2
<1>8. ASSUME NEW n \in 1..(N + 1) PROVE lo[ys[n + 1]] = hi[ys[n]] + 1 /\ xs[n] = K[hi[ys[n]]]
  <2>1. CASE n < i
    <3>1. n \in 1..N /\ n # i /\ ys[n] = cs[n] /\ ys[n + 1] = cs[n + 1] /\ xs[n] = ks[n]
      BY <1>1, <1>3, <1>5, <2>1
    <3> QED BY <3>1 DEF Gap, N
  <2>2. CASE n = i
    <3>1. ys[n] = cs[i] /\ ys[n + 1] = np /\ xs[n] = sep
      BY <1>1, <1>3, <1>5, <2>2
    <3> QED BY <3>1 DEF Gap
  <2>3. CASE n = i + 1
    <3>1. i <= N /\ ys[n] = np /\ ys[n + 1] = cs[i + 1] /\ xs[n] = ks[i]
      BY <1>1, <1>3, <1>5, <2>3
    <3> QED BY <3>1 DEF Gap, N
  <2>4. CASE n > i + 1
    <3> DEFINE c == n - 1
    <3>1. c \in 1..N /\ c # i /\ ys[n] = cs[c] /\ ys[n + 1] = cs[c + 1] /\ xs[n] = ks[c]
      BY <1>1, <1>3, <1>5, <2>4
    <3> HIDE DEF c
    <3> QED BY <3>1 DEF Gap, N
  <2> QED BY <1>1, <2>1, <2>2, <2>3, <2>4
<1>9. Spans(xs, ys, l, h, K, lo, hi)
  BY <1>3, <1>6, <1>7, <1>8 DEF Spans
<1> QED BY <1>9 DEF xs, ys, j

\* Page np becomes leaf j + 1, behind page p.
Widen(j, p, np, sep, m, L, K, lo, hi, L2, K2, lo2, hi2) ==
    /\ m \in Nat /\ j \in 1..m /\ j = lo[p]
    /\ L2 \in [1..(m + 1) -> PageIds] /\ K2 \in [1..m -> Keys]
    /\ lo2 \in [PageIds -> Nat] /\ hi2 \in [PageIds -> Nat]
    /\ \A c \in 1..(m + 1) : L2[c] = IF c <= j THEN L[c] ELSE IF c = j + 1 THEN np ELSE L[c - 1]
    /\ \A c \in 1..m : K2[c] = IF c < j THEN K[c] ELSE IF c = j THEN sep ELSE K[c - 1]
    /\ \A q \in PageIds : lo2[q] = IF q = np THEN j + 1 ELSE IF lo[q] > j THEN lo[q] + 1 ELSE lo[q]
    /\ \A q \in PageIds : hi2[q] = IF q = np THEN j + 1 ELSE IF q = p THEN j
                                   ELSE IF hi[q] >= j THEN hi[q] + 1 ELSE hi[q]

LEMMA WidenExists ==
    ASSUME NEW m \in Nat, NEW j \in 1..m, NEW p, NEW np \in PageIds, NEW sep \in Keys,
           NEW L \in [1..m -> PageIds], NEW K \in [1..(m - 1) -> Keys],
           NEW lo \in [PageIds -> Nat], NEW hi \in [PageIds -> Nat], j = lo[p]
    PROVE  \E L2, K2, lo2, hi2 : Widen(j, p, np, sep, m, L, K, lo, hi, L2, K2, lo2, hi2)
<1> DEFINE L2 == [c \in 1..(m + 1) |-> IF c <= j THEN L[c] ELSE IF c = j + 1 THEN np ELSE L[c - 1]]
           K2 == [c \in 1..m |-> IF c < j THEN K[c] ELSE IF c = j THEN sep ELSE K[c - 1]]
           lo2 == [q \in PageIds |-> IF q = np THEN j + 1 ELSE IF lo[q] > j THEN lo[q] + 1 ELSE lo[q]]
           hi2 == [q \in PageIds |-> IF q = np THEN j + 1 ELSE IF q = p THEN j
                                     ELSE IF hi[q] >= j THEN hi[q] + 1 ELSE hi[q]]
<1>1. L2 \in [1..(m + 1) -> PageIds]
  <2>1. \A c \in 1..(m + 1) : (c <= j => c \in 1..m) /\ (~(c <= j) /\ c # j + 1 => c - 1 \in 1..m)
    OBVIOUS
  <2> QED BY <2>1
<1>2. K2 \in [1..m -> Keys]
  <2>1. \A c \in 1..m : (c < j => c \in 1..(m - 1)) /\ (~(c < j) /\ c # j => c - 1 \in 1..(m - 1))
    OBVIOUS
  <2> QED BY <2>1
<1>3. lo2 \in [PageIds -> Nat] /\ hi2 \in [PageIds -> Nat]
  <2>1. j \in Nat /\ \A q \in PageIds : lo[q] \in Nat /\ hi[q] \in Nat
    OBVIOUS
  <2>2. \A a \in Nat : a + 1 \in Nat
    OBVIOUS
  <2> QED BY <2>1, <2>2
<1>4. Widen(j, p, np, sep, m, L, K, lo, hi, L2, K2, lo2, hi2)
  BY <1>1, <1>2, <1>3 DEF Widen
<1> QED BY <1>4

\* A leaf page p of a tree, its entries cut behind entry h, page np unused.
LeafCut(pgs, rt, S, m, L, K, lo, hi, p, h, np, new) ==
    /\ Linked(pgs) /\ Complete(pgs, rt, S, m, L, K, lo, hi) /\ IsLeaf(pgs, p)
    /\ h \in 1..(Len(pgs[p].entries) - 1)
    /\ np \in PageIds /\ pgs[np].kind = "missing" /\ rt \in PageIds /\ pgs[rt].kind # "missing"
    /\ new \in [PageIds -> Node]
    /\ new[p] = Leaf(np, Front_(pgs[p].entries, h))
    /\ new[np] = Leaf(pgs[p].next, Rest(pgs[p].entries, h))
    /\ \A q \in PageIds : q # p /\ q # np => new[q] = pgs[q]

CutPages(pgs, new, p, h, np, es) ==
    /\ p \in PageIds /\ p # np /\ es \in Seq(Entry) /\ Len(es) \in Nat
    /\ h \in 1..(Len(es) - 1) /\ h + 1 \in 1..Len(es) /\ es[h + 1].key \in Keys
    /\ IsLeaf(new, p) /\ new[p].next = np /\ Len(new[p].entries) = h
    /\ \A a \in 1..h : new[p].entries[a] = es[a]
    /\ IsLeaf(new, np) /\ new[np].next = pgs[p].next /\ Len(new[np].entries) = Len(es) - h
    /\ \A a \in 1..(Len(es) - h) : new[np].entries[a] = es[h + a]
    /\ \A q \in PageIds : \A i \in DOMAIN new[q].children : q # p /\ q # np /\ new[q] = pgs[q]

LEMMA LeafCutFacts ==
    ASSUME NEW pgs, NEW rt, NEW S, NEW m, NEW L, NEW K, NEW lo, NEW hi, NEW p, NEW h, NEW np, NEW new,
           LeafCut(pgs, rt, S, m, L, K, lo, hi, p, h, np, new), NEW es, es = pgs[p].entries
    PROVE  /\ CutPages(pgs, new, p, h, np, es)
           /\ lo[p] \in 1..m /\ hi[p] = lo[p] /\ L[lo[p]] = p
           /\ InOrder(es, lo[p], m, K)
<1>1. /\ p \in PageIds /\ p # np /\ es \in Seq(Entry) /\ pgs[p].next \in PageIds \cup {None}
      /\ np \in PageIds /\ h \in 1..(Len(es) - 1)
  BY NodeFields DEF LeafCut, IsLeaf, Linked
<1>2. Len(es) \in Nat /\ h + 1 \in 1..Len(es) /\ h \in 0..Len(es)
  BY <1>1
<1>3. es[h + 1] \in Entry
  BY <1>1, <1>2
<1>4. es[h + 1].key \in Keys
  BY <1>3, EntryFacts
<1> DEFINE F == Front_(es, h)
           R == Rest(es, h)
           t == pgs[p].next
<1>5. /\ F \in Seq(Entry) /\ Len(F) = h /\ \A i \in 1..h : F[i] = es[i]
      /\ R \in Seq(Entry) /\ Len(R) = Len(es) - h /\ \A i \in 1..(Len(es) - h) : R[i] = es[h + i]
  <2>1. es \in Seq(Entry) /\ h \in 0..Len(es)
    BY <1>1, <1>2
  <2> QED BY <2>1, PartFacts, ZenonT(30)
<1>a. new[p] = Leaf(np, F) /\ new[np] = Leaf(t, R)
  BY DEF LeafCut
<1>b. np \in PageIds \cup {None} /\ t \in PageIds \cup {None}
  BY <1>1
<1> HIDE DEF F, R, t
<1>c. F \in Seq(Entry) /\ R \in Seq(Entry)
  BY <1>5
<1>6. /\ new[p].kind = "leaf" /\ new[p].next = np /\ new[p].entries = F
      /\ new[p].children = << >>
  <2>1. /\ Leaf(np, F).kind = "leaf" /\ Leaf(np, F).next = np /\ Leaf(np, F).entries = F
        /\ Leaf(np, F).children = << >>
    BY <1>b, <1>c, LeafFacts
  <2> QED BY <1>a, <2>1
<1>7. /\ new[np].kind = "leaf" /\ new[np].next = t /\ new[np].entries = R
      /\ new[np].children = << >>
  <2>1. /\ Leaf(t, R).kind = "leaf" /\ Leaf(t, R).next = t /\ Leaf(t, R).entries = R
        /\ Leaf(t, R).children = << >>
    BY <1>b, <1>c, LeafFacts
  <2> QED BY <1>a, <2>1
<1>8. \A q \in PageIds : \A i \in DOMAIN new[q].children : q # p /\ q # np /\ new[q] = pgs[q]
  <2>1. DOMAIN << >> = {}
    OBVIOUS
  <2> QED BY <1>6, <1>7, <2>1 DEF LeafCut
<1>9. Chain(pgs, m, L, lo, hi) /\ Sorted(pgs, m, L, K) /\ IsLeaf(pgs, p)
  BY DEF LeafCut, Complete, Standing
<1>10. lo[p] \in 1..m /\ hi[p] = lo[p] /\ L[lo[p]] = p
  BY <1>9, LeafPlace
<1>11. InOrder(es, lo[p], m, K)
  BY <1>9, <1>10 DEF Sorted
<1>12. IsLeaf(new, p) /\ IsLeaf(new, np)
  BY <1>1, <1>6, <1>7 DEF IsLeaf
<1>13. CutPages(pgs, new, p, h, np, es)
  BY <1>1, <1>2, <1>4, <1>5, <1>6, <1>7, <1>8, <1>12 DEF t, CutPages
<1> QED BY <1>10, <1>11, <1>13

\* Where page p hangs: it is child i of page x, or the root.
Hangs(pgs, rt, p, x, i) ==
    IF x = None THEN p = rt
    ELSE /\ x \in PageIds /\ pgs[x].kind = "internal"
         /\ i \in DOMAIN pgs[x].children /\ pgs[x].children[i] = p

\* A node that does not have page p as a child spans the same leaves, one of them new.
LEMMA SpansShift ==
    ASSUME NEW pgs, NEW q, NEW m, NEW K, NEW lo, NEW hi, Placed(pgs, q, m, K, lo, hi),
           NEW j, NEW p, NEW np, NEW sep, NEW L, NEW L2, NEW K2, NEW lo2, NEW hi2,
           Widen(j, p, np, sep, m, L, K, lo, hi, L2, K2, lo2, hi2),
           q # p, q # np, pgs[np].kind = "missing",
           \A n \in 1..(Len(pgs[q].keys) + 1) : pgs[q].children[n] # p
    PROVE  Spans(pgs[q].keys, pgs[q].children, lo2[q], hi2[q], K2, lo2, hi2)
<1> DEFINE ks == pgs[q].keys
           cs == pgs[q].children
           N == Len(ks)
<1>1. /\ N \in Nat
      /\ \A n \in 1..(N + 1) : cs[n] \in PageIds /\ cs[n] # np /\ lo[cs[n]] \in Nat /\ hi[cs[n]] \in Nat
      /\ \A n \in 1..N : hi[cs[n]] \in 1..(m - 1)
  BY ChildFacts
<1>2. Spans(ks, cs, lo[q], hi[q], K, lo, hi) /\ q \in PageIds
  BY DEF Placed
<1>3. j \in Nat /\ m \in Nat /\ j \in 1..m
  BY DEF Widen
<1>4. \A c \in PageIds : c # np => lo2[c] = IF lo[c] > j THEN lo[c] + 1 ELSE lo[c]
  BY DEF Widen
<1>5. \A c \in PageIds : c # np /\ c # p => hi2[c] = IF hi[c] >= j THEN hi[c] + 1 ELSE hi[c]
  BY DEF Widen
<1>6. \A c \in 1..m : K2[c] = IF c < j THEN K[c] ELSE IF c = j THEN sep ELSE K[c - 1]
  BY DEF Widen
<1>7. 1 \in 1..(N + 1) /\ N + 1 \in 1..(N + 1)
  BY <1>1
<1>8. \A n \in 1..(N + 1) : cs[n] # p
  OBVIOUS
<1> HIDE DEF ks, cs, N
<1>9. lo2[cs[1]] = lo2[q]
  <2>1. lo[cs[1]] = lo[q]
    BY <1>2 DEF Spans
  <2> QED BY <1>1, <1>2, <1>4, <1>7, <2>1
<1>10. hi2[cs[N + 1]] = hi2[q]
  <2>1. hi[cs[N + 1]] = hi[q]
    BY <1>2 DEF Spans, N
  <2> QED BY <1>1, <1>2, <1>5, <1>7, <1>8, <2>1
<1>11. ASSUME NEW n \in 1..N PROVE lo2[cs[n + 1]] = hi2[cs[n]] + 1 /\ ks[n] = K2[hi2[cs[n]]]
  <2>1. n \in 1..(N + 1) /\ n + 1 \in 1..(N + 1)
    BY <1>1
  <2>2. lo[cs[n + 1]] = hi[cs[n]] + 1 /\ ks[n] = K[hi[cs[n]]]
    BY <1>2 DEF Spans, N
  <2> DEFINE a == hi[cs[n]]
  <2>3. a \in Nat /\ a \in 1..(m - 1) /\ lo[cs[n + 1]] = a + 1
    BY <1>1, <2>1, <2>2
  <2>4. lo2[cs[n + 1]] = IF a + 1 > j THEN (a + 1) + 1 ELSE a + 1
    BY <1>1, <1>4, <2>1, <2>3
  <2>5. hi2[cs[n]] = IF a >= j THEN a + 1 ELSE a
    BY <1>1, <1>5, <1>8, <2>1
  <2>6. ks[n] = K[a]
    BY <2>2
  <2> HIDE DEF a
  <2>7. CASE a >= j
    <3>1. a + 1 \in 1..m /\ a + 1 > j /\ (a + 1) - 1 = a
      BY <1>3, <2>3, <2>7
    <3>2. K2[a + 1] = K[a]
      BY <1>3, <1>6, <2>3, <3>1
    <3> QED BY <2>4, <2>5, <2>6, <2>7, <3>1, <3>2
  <2>8. CASE ~(a >= j)
    <3>1. a \in 1..m /\ a < j /\ ~(a + 1 > j)
      BY <1>3, <2>3, <2>8
    <3>2. K2[a] = K[a]
      BY <1>6, <3>1
    <3> QED BY <2>4, <2>5, <2>6, <2>8, <3>1, <3>2
  <2> QED BY <2>7, <2>8
<1>12. Spans(ks, cs, lo2[q], hi2[q], K2, lo2, hi2)
  BY <1>9, <1>10, <1>11 DEF Spans, N
<1> QED BY <1>12 DEF ks, cs

\* The parent of the leaf page p has a gap.
LEMMA GapShift ==
    ASSUME NEW pgs, NEW q, NEW m, NEW K, NEW lo, NEW hi, Placed(pgs, q, m, K, lo, hi),
           NEW j, NEW p, NEW np \in PageIds, NEW sep \in Keys, NEW L, NEW L2, NEW K2, NEW lo2, NEW hi2,
           Widen(j, p, np, sep, m, L, K, lo, hi, L2, K2, lo2, hi2),
           p \in PageIds, p # np, lo[p] = j, hi[p] = j,
           q # p, q # np, pgs[np].kind = "missing",
           NEW i \in 1..(Len(pgs[q].keys) + 1), pgs[q].children[i] = p,
           \A n \in 1..(Len(pgs[q].keys) + 1) : n # i => pgs[q].children[n] # p
    PROVE  Gap(pgs[q].keys, pgs[q].children, i, sep, np, lo2[q], hi2[q], K2, lo2, hi2)
<1> DEFINE ks == pgs[q].keys
           cs == pgs[q].children
           N == Len(ks)
<1>1. /\ N \in Nat /\ ks \in Seq(Keys) /\ cs \in Seq(PageIds) /\ Len(cs) = N + 1
      /\ \A n \in 1..(N + 1) : cs[n] \in PageIds /\ cs[n] # np /\ lo[cs[n]] \in Nat /\ hi[cs[n]] \in Nat
      /\ \A n \in 1..N : hi[cs[n]] \in 1..(m - 1)
  BY ChildFacts
<1>2. Spans(ks, cs, lo[q], hi[q], K, lo, hi) /\ q \in PageIds
  BY DEF Placed
<1>3. j \in Nat /\ m \in Nat /\ j \in 1..m
  BY DEF Widen
<1>4. \A c \in PageIds : c # np => lo2[c] = IF lo[c] > j THEN lo[c] + 1 ELSE lo[c]
  BY DEF Widen
<1>5. \A c \in PageIds : c # np /\ c # p => hi2[c] = IF hi[c] >= j THEN hi[c] + 1 ELSE hi[c]
  BY DEF Widen
<1>6. \A c \in 1..m : K2[c] = IF c < j THEN K[c] ELSE IF c = j THEN sep ELSE K[c - 1]
  BY DEF Widen
<1>7. /\ 1 \in 1..(N + 1) /\ N + 1 \in 1..(N + 1)
      /\ lo2[np] = j + 1 /\ hi2[np] = j + 1 /\ hi2[p] = j /\ cs[i] = p /\ i \in 1..(N + 1)
  BY <1>1, SMTT(30) DEF Widen
<1>8. \A n \in 1..(N + 1) : n # i => cs[n] # p
  OBVIOUS
<1> HIDE DEF ks, cs, N
<1>9. lo2[cs[1]] = lo2[q]
  <2>1. lo[cs[1]] = lo[q]
    BY <1>2 DEF Spans
  <2> QED BY <1>1, <1>2, <1>4, <1>7, <2>1
<1>10. IF i = N + 1 THEN hi2[np] = hi2[q] ELSE hi2[cs[N + 1]] = hi2[q]
  <2>1. hi[cs[N + 1]] = hi[q]
    BY <1>2 DEF Spans, N
  <2>2. hi2[q] = IF hi[q] >= j THEN hi[q] + 1 ELSE hi[q]
    BY <1>2, <1>5
  <2>3. CASE i = N + 1
    <3>1. hi[q] = j
      BY <1>7, <2>1, <2>3
    <3> QED BY <1>3, <1>7, <2>2, <2>3, <3>1
  <2>4. CASE i # N + 1
    BY <1>1, <1>2, <1>5, <1>7, <1>8, <2>1, <2>4
  <2> QED BY <2>3, <2>4
<1>11. ASSUME NEW n \in 1..N, n # i
       PROVE  lo2[cs[n + 1]] = hi2[cs[n]] + 1 /\ ks[n] = K2[hi2[cs[n]]]
  <2>1. n \in 1..(N + 1) /\ n + 1 \in 1..(N + 1)
    BY <1>1
  <2>2. lo[cs[n + 1]] = hi[cs[n]] + 1 /\ ks[n] = K[hi[cs[n]]]
    BY <1>2 DEF Spans, N
  <2> DEFINE a == hi[cs[n]]
  <2>3. a \in Nat /\ a \in 1..(m - 1) /\ lo[cs[n + 1]] = a + 1
    BY <1>1, <2>1, <2>2
  <2>4. lo2[cs[n + 1]] = IF a + 1 > j THEN (a + 1) + 1 ELSE a + 1
    BY <1>1, <1>4, <2>1, <2>3
  <2>5. hi2[cs[n]] = IF a >= j THEN a + 1 ELSE a
    BY <1>1, <1>5, <1>8, <1>11, <2>1
  <2>6. ks[n] = K[a]
    BY <2>2
  <2> HIDE DEF a
  <2>7. CASE a >= j
    <3>1. a + 1 \in 1..m /\ a + 1 > j /\ (a + 1) - 1 = a
      BY <1>3, <2>3, <2>7
    <3>2. K2[a + 1] = K[a]
      BY <1>3, <1>6, <2>3, <3>1
    <3> QED BY <2>4, <2>5, <2>6, <2>7, <3>1, <3>2
  <2>8. CASE ~(a >= j)
    <3>1. a \in 1..m /\ a < j /\ ~(a + 1 > j)
      BY <1>3, <2>3, <2>8
    <3>2. K2[a] = K[a]
      BY <1>6, <3>1
    <3> QED BY <2>4, <2>5, <2>6, <2>8, <3>1, <3>2
  <2> QED BY <2>7, <2>8
<1>12. lo2[np] = hi2[cs[i]] + 1 /\ sep = K2[hi2[cs[i]]]
  <2>1. K2[j] = sep
    BY <1>3, <1>6
  <2> QED BY <1>7, <2>1
<1>13. ASSUME i <= N PROVE lo2[cs[i + 1]] = hi2[np] + 1 /\ ks[i] = K2[hi2[np]]
  <2>1. i \in 1..N /\ i + 1 \in 1..(N + 1)
    BY <1>1, <1>7, <1>13
  <2>2. lo[cs[i + 1]] = hi[cs[i]] + 1 /\ ks[i] = K[hi[cs[i]]]
    BY <1>2, <2>1 DEF Spans, N
  <2>3. lo[cs[i + 1]] = j + 1 /\ ks[i] = K[j] /\ j \in 1..(m - 1)
    BY <1>1, <1>7, <2>1, <2>2
  <2>4. lo2[cs[i + 1]] = (j + 1) + 1
    BY <1>1, <1>3, <1>4, <2>1, <2>3
  <2>5. j + 1 \in 1..m /\ j + 1 > j /\ (j + 1) - 1 = j
    BY <1>3, <2>3
  <2>6. K2[j + 1] = K[j]
    BY <1>3, <1>6, <2>5
  <2> QED BY <1>7, <2>3, <2>4, <2>6
<1>14. Gap(ks, cs, i, sep, np, lo2[q], hi2[q], K2, lo2, hi2)
  BY <1>1, <1>7, <1>9, <1>10, <1>11, <1>12, <1>13 DEF Gap, N
<1> QED BY <1>14 DEF ks, cs

CutRow(pgs, new, m, L, L2, p, np, j) ==
    \A c \in 1..(m + 1) :
        /\ c < j => c \in 1..m /\ L2[c] = L[c] /\ new[L2[c]] = pgs[L[c]]
        /\ c = j => L2[c] = p
        /\ c = j + 1 => L2[c] = np
        /\ c > j + 1 => c - 1 \in 1..m /\ L2[c] = L[c - 1] /\ new[L2[c]] = pgs[L[c - 1]]

\* The row of leaves with page np in its place, behind page p.
LEMMA CutChain ==
    ASSUME NEW pgs, NEW rt, NEW S, NEW m, NEW L, NEW K, NEW lo, NEW hi, NEW p, NEW h, NEW np, NEW new,
           LeafCut(pgs, rt, S, m, L, K, lo, hi, p, h, np, new),
           NEW j, NEW sep, NEW L2, NEW K2, NEW lo2, NEW hi2,
           Widen(j, p, np, sep, m, L, K, lo, hi, L2, K2, lo2, hi2)
    PROVE  Chain(new, m + 1, L2, lo2, hi2) /\ CutRow(pgs, new, m, L, L2, p, np, j)
<1>0. j = lo[p] /\ j \in 1..m /\ m \in Nat
  BY DEF Widen
<1>1. /\ p \in PageIds /\ p # np /\ j \in 1..m /\ hi[p] = j /\ L[j] = p
      /\ IsLeaf(new, p) /\ new[p].next = np /\ IsLeaf(new, np) /\ new[np].next = pgs[p].next
  <2>1. /\ CutPages(pgs, new, p, h, np, pgs[p].entries)
        /\ lo[p] \in 1..m /\ hi[p] = lo[p] /\ L[lo[p]] = p
    BY LeafCutFacts
  <2> QED BY <1>0, <2>1 DEF CutPages
<1>2. /\ Chain(pgs, m, L, lo, hi) /\ np \in PageIds /\ pgs[np].kind = "missing"
      /\ \A q \in PageIds : q # p /\ q # np => new[q] = pgs[q]
  BY DEF LeafCut, Complete, Standing
<1>3. /\ L \in [1..m -> PageIds]
      /\ \A c \in 1..m : /\ pgs[L[c]].kind = "leaf" /\ lo[L[c]] = c /\ hi[L[c]] = c
                         /\ pgs[L[c]].next = IF c = m THEN None ELSE L[c + 1]
      /\ \A q \in PageIds : pgs[q].kind = "leaf" => lo[q] \in 1..m /\ L[lo[q]] = q
  BY <1>2 DEF Chain
<1>4. /\ m \in Nat /\ j \in Nat
      /\ L2 \in [1..(m + 1) -> PageIds]
      /\ \A c \in 1..(m + 1) : L2[c] = IF c <= j THEN L[c] ELSE IF c = j + 1 THEN np ELSE L[c - 1]
      /\ \A q \in PageIds : lo2[q] = IF q = np THEN j + 1 ELSE IF lo[q] > j THEN lo[q] + 1 ELSE lo[q]
      /\ \A q \in PageIds : hi2[q] = IF q = np THEN j + 1 ELSE IF q = p THEN j
                                     ELSE IF hi[q] >= j THEN hi[q] + 1 ELSE hi[q]
  BY DEF Widen
<1>5. \A c \in 1..m : c # j => L[c] \in PageIds /\ L[c] # p /\ L[c] # np /\ new[L[c]] = pgs[L[c]]
  <2> TAKE c \in 1..m
  <2> HAVE c # j
  <2>1. L[c] \in PageIds /\ lo[L[c]] = c /\ pgs[L[c]].kind = "leaf"
    BY <1>3
  <2>2. L[c] # p /\ L[c] # np
    BY <1>0, <1>2, <2>1
  <2> QED BY <1>2, <2>1, <2>2
<1>6. \A c \in 1..(m + 1) :
            /\ c < j => c \in 1..m /\ c # j /\ L2[c] = L[c]
            /\ c = j => L2[c] = p
            /\ c = j + 1 => L2[c] = np
            /\ c > j + 1 => c - 1 \in 1..m /\ c - 1 # j /\ L2[c] = L[c - 1]
  BY <1>1, <1>4
<1>7. ASSUME NEW c \in 1..(m + 1)
      PROVE  /\ new[L2[c]].kind = "leaf" /\ lo2[L2[c]] = c /\ hi2[L2[c]] = c
             /\ new[L2[c]].next = IF c = m + 1 THEN None ELSE L2[c + 1]
  <2>1. CASE c < j
    <3>1. /\ c \in 1..m /\ c # j /\ L2[c] = L[c] /\ c + 1 \in 1..(m + 1) /\ c + 1 <= j
          /\ c # m /\ c # m + 1
      BY <1>1, <1>4, <1>6, <2>1
    <3>2. /\ L[c] \in PageIds /\ L[c] # p /\ L[c] # np /\ new[L[c]] = pgs[L[c]]
          /\ lo[L[c]] = c /\ hi[L[c]] = c
      BY <1>3, <1>5, <3>1
    <3>3. lo2[L[c]] = c /\ hi2[L[c]] = c
      BY <1>4, <2>1, <3>1, <3>2
    <3>4. L2[c + 1] = L[c + 1]
      BY <1>4, <3>1
    <3> QED BY <1>3, <3>1, <3>2, <3>3, <3>4
  <2>2. CASE c = j
    <3>1. c + 1 \in 1..(m + 1) /\ L2[c] = p /\ L2[c + 1] = np /\ c # m + 1
      BY <1>1, <1>4, <1>6, <2>2
    <3>2. lo2[p] = j /\ hi2[p] = j
      BY <1>0, <1>1, <1>4
    <3> QED BY <1>1, <2>2, <3>1, <3>2 DEF IsLeaf
  <2>3. CASE c = j + 1
    <3>1. L2[c] = np /\ lo2[np] = c /\ hi2[np] = c
      BY <1>2, <1>4, <1>6, <2>3
    <3>2. new[np].next = IF j = m THEN None ELSE L[j + 1]
      BY <1>1, <1>3
    <3>3. c # m + 1 => c + 1 \in 1..(m + 1) /\ c + 1 > j + 1 /\ (c + 1) - 1 = j + 1
      BY <1>4, <2>3
    <3>4. c # m + 1 => L2[c + 1] = L[j + 1]
      BY <1>6, <3>3
    <3>5. (c = m + 1) <=> (j = m)
      BY <1>4, <2>3
    <3> QED BY <1>1, <3>1, <3>2, <3>4, <3>5 DEF IsLeaf
  <2>4. CASE c > j + 1
    <3> DEFINE d == c - 1
    <3>1. d \in 1..m /\ d # j /\ L2[c] = L[d] /\ d > j /\ c = d + 1
      BY <1>4, <1>6, <2>4
    <3> HIDE DEF d
    <3>2. /\ L[d] \in PageIds /\ L[d] # p /\ L[d] # np /\ new[L[d]] = pgs[L[d]]
          /\ lo[L[d]] = d /\ hi[L[d]] = d
          /\ pgs[L[d]].kind = "leaf" /\ pgs[L[d]].next = IF d = m THEN None ELSE L[d + 1]
      BY <1>3, <1>5, <3>1
    <3>3. lo2[L[d]] = c /\ hi2[L[d]] = c
      BY <1>4, <3>1, <3>2
    <3>4. c # m + 1 => c + 1 \in 1..(m + 1) /\ c + 1 > j + 1 /\ (c + 1) - 1 = d + 1
      BY <1>4, <3>1
    <3>5. c # m + 1 => L2[c + 1] = L[d + 1]
      BY <1>6, <3>4
    <3>6. (c = m + 1) <=> (d = m)
      BY <1>4, <3>1
    <3> QED BY <3>1, <3>2, <3>3, <3>5, <3>6
  <2> QED BY <1>4, <2>1, <2>2, <2>3, <2>4
<1>8. ASSUME NEW q \in PageIds, new[q].kind = "leaf" PROVE lo2[q] \in 1..(m + 1) /\ L2[lo2[q]] = q
  <2>1. CASE q = np
    <3>1. lo2[q] = j + 1 /\ j + 1 \in 1..(m + 1)
      BY <1>1, <1>4, <2>1
    <3> QED BY <1>6, <2>1, <3>1
  <2>2. CASE q = p
    <3>1. lo2[q] = j /\ j \in 1..(m + 1)
      BY <1>0, <1>1, <1>4, <2>2
    <3> QED BY <1>6, <2>2, <3>1
  <2>3. CASE q # p /\ q # np
    <3> DEFINE c == lo[q]
    <3>1. c \in 1..m /\ L[c] = q /\ c # j
      BY <1>1, <1>2, <1>3, <1>8, <2>3
    <3>2. lo2[q] = IF c > j THEN c + 1 ELSE c
      BY <1>4, <2>3
    <3> HIDE DEF c
    <3>3. CASE c > j
      <4>1. lo2[q] = c + 1 /\ c + 1 \in 1..(m + 1) /\ c + 1 > j + 1 /\ (c + 1) - 1 = c
        BY <1>4, <3>1, <3>2, <3>3
      <4> QED BY <1>6, <3>1, <4>1
    <3>4. CASE ~(c > j)
      <4>1. lo2[q] = c /\ c \in 1..(m + 1) /\ c < j
        BY <1>4, <3>1, <3>2, <3>4
      <4> QED BY <1>6, <3>1, <4>1
    <3> QED BY <3>3, <3>4
  <2> QED BY <2>1, <2>2, <2>3
<1>9. Chain(new, m + 1, L2, lo2, hi2)
  BY <1>4, <1>7, <1>8 DEF Chain
<1>10. CutRow(pgs, new, m, L, L2, p, np, j)
  BY <1>5, <1>6 DEF CutRow
<1> QED BY <1>9, <1>10

\* The separator is a fence between the two halves.
LEMMA CutSorted ==
    ASSUME NEW pgs, NEW rt, NEW S, NEW m, NEW L, NEW K, NEW lo, NEW hi, NEW p, NEW h, NEW np, NEW new,
           LeafCut(pgs, rt, S, m, L, K, lo, hi, p, h, np, new),
           NEW j, NEW sep, sep = pgs[p].entries[h + 1].key,
           NEW L2, NEW K2, NEW lo2, NEW hi2,
           Widen(j, p, np, sep, m, L, K, lo, hi, L2, K2, lo2, hi2)
    PROVE  Fences(m + 1, K2) /\ Sorted(new, m + 1, L2, K2)
<1>8. \A c \in 1..(m + 1) :
            /\ c < j => c \in 1..m /\ L2[c] = L[c] /\ new[L2[c]] = pgs[L[c]]
            /\ c = j => L2[c] = p
            /\ c = j + 1 => L2[c] = np
            /\ c > j + 1 => c - 1 \in 1..m /\ L2[c] = L[c - 1] /\ new[L2[c]] = pgs[L[c - 1]]
  <2>1. CutRow(pgs, new, m, L, L2, p, np, j)
    BY CutChain
  <2> QED BY <2>1 DEF CutRow
<1>0. j = lo[p] /\ j \in 1..m /\ m \in Nat
  BY DEF Widen
<1> DEFINE es == pgs[p].entries
           N == Len(es)
<1>1. /\ es \in Seq(Entry) /\ N \in Nat /\ h \in 1..(N - 1) /\ h + 1 \in 1..N /\ sep \in Keys
      /\ Len(new[p].entries) = h /\ \A a \in 1..h : new[p].entries[a] = es[a]
      /\ Len(new[np].entries) = N - h /\ \A a \in 1..(N - h) : new[np].entries[a] = es[h + a]
      /\ j \in 1..m /\ InOrder(es, j, m, K)
  <2>1. /\ es \in Seq(Entry) /\ N \in Nat /\ h \in 1..(N - 1) /\ h + 1 \in 1..N /\ es[h + 1].key \in Keys
        /\ Len(new[p].entries) = h /\ \A a \in 1..h : new[p].entries[a] = es[a]
        /\ Len(new[np].entries) = N - h /\ \A a \in 1..(N - h) : new[np].entries[a] = es[h + a]
        /\ InOrder(es, lo[p], m, K)
    <3>1. CutPages(pgs, new, p, h, np, es) /\ InOrder(es, lo[p], m, K)
      BY LeafCutFacts
    <3> QED BY <3>1 DEF CutPages
  <2> QED BY <1>0, <2>1
<1>a. m \in Nat /\ j \in Nat /\ h \in Nat /\ sep \in Int
  BY <1>0, <1>1, Constants
<1>2. /\ m \in Nat /\ j \in Nat /\ h \in Nat /\ sep \in Int
      /\ K2 \in [1..m -> Keys]
      /\ \A c \in 1..m : K2[c] = IF c < j THEN K[c] ELSE IF c = j THEN sep ELSE K[c - 1]
  BY <1>a DEF Widen
<1>3. /\ K \in [1..(m - 1) -> Keys] /\ \A a, b \in 1..(m - 1) : a <= b => K[a] <= K[b]
      /\ Keys \subseteq Int /\ Sorted(pgs, m, L, K)
  BY Constants DEF LeafCut, Complete, Standing, Fences
<1>4. /\ \A a \in 1..N : es[a] \in Entry /\ es[a].key \in Int
      /\ sep = es[h + 1].key
  BY <1>1, EntryFacts
<1> HIDE DEF es, N
<1>5. \A a \in 1..N : /\ a <= h => es[a].key <= sep
                      /\ a > h => sep <= es[a].key
  <2> TAKE a \in 1..N
  <2>1. es[a].key \in Int /\ es[h + 1].key \in Int
    BY <1>1, <1>4
  <2>2. a < h + 1 => Before(es[a], es[h + 1])
    BY <1>1 DEF InOrder, N
  <2>3. h + 1 < a => Before(es[h + 1], es[a])
    BY <1>1 DEF InOrder, N
  <2>4. a < h + 1 => es[a].key <= sep
    BY <1>4, <2>1, <2>2 DEF Before
  <2>5. h + 1 < a => sep <= es[a].key
    BY <1>4, <2>1, <2>3 DEF Before
  <2>6. a = h + 1 => sep <= es[a].key
    BY <1>4, <2>1
  <2> QED BY <1>2, <2>4, <2>5, <2>6
<1>6. (j < m => sep <= K[j]) /\ (j > 1 => K[j - 1] <= sep)
  BY <1>1, <1>4 DEF InOrder, N
<1>7. Fences(m + 1, K2)
  <2>1. ASSUME NEW a \in 1..m, NEW b \in 1..m, a < b PROVE K2[a] <= K2[b]
    <3>1. CASE b < j
      <4>1. a < j /\ a \in 1..(m - 1) /\ b \in 1..(m - 1) /\ K2[a] = K[a] /\ K2[b] = K[b] /\ a <= b
        BY <1>1, <1>2, <2>1, <3>1
      <4> QED BY <1>3, <4>1
    <3>2. CASE b = j
      <4>1. a < j /\ a \in 1..(m - 1) /\ j - 1 \in 1..(m - 1) /\ K2[a] = K[a] /\ K2[b] = sep
            /\ a <= j - 1 /\ j > 1
        BY <1>1, <1>2, <2>1, <3>2
      <4>2. K[a] <= K[j - 1] /\ K[a] \in Int /\ K[j - 1] \in Int /\ K[j - 1] <= sep
        BY <1>3, <1>6, <4>1
      <4> QED BY <1>2, <4>1, <4>2
    <3>3. CASE b > j /\ a < j
      <4>1. a \in 1..(m - 1) /\ b - 1 \in 1..(m - 1) /\ a <= b - 1 /\ K2[a] = K[a] /\ K2[b] = K[b - 1]
        BY <1>1, <1>2, <2>1, <3>3
      <4> QED BY <1>3, <4>1
    <3>4. CASE b > j /\ a = j
      <4>1. j \in 1..(m - 1) /\ b - 1 \in 1..(m - 1) /\ j <= b - 1 /\ K2[a] = sep /\ K2[b] = K[b - 1] /\ j < m
        BY <1>1, <1>2, <2>1, <3>4
      <4>2. K[j] <= K[b - 1] /\ K[j] \in Int /\ K[b - 1] \in Int /\ sep <= K[j]
        BY <1>3, <1>6, <4>1
      <4> QED BY <1>2, <4>1, <4>2, SMTT(30)
    <3>5. CASE b > j /\ a > j
      <4>1. a - 1 \in 1..(m - 1) /\ b - 1 \in 1..(m - 1) /\ a - 1 <= b - 1 /\ K2[a] = K[a - 1] /\ K2[b] = K[b - 1]
        BY <1>1, <1>2, <2>1, <3>5
      <4> QED BY <1>3, <4>1
    <3> QED BY <1>2, <3>1, <3>2, <3>3, <3>4, <3>5
  <2>2. \A a \in 1..m : K2[a] \in Int
    BY <1>2, <1>3
  <2>3. \A a, b \in 1..m : a <= b => K2[a] <= K2[b]
    <3> SUFFICES ASSUME NEW a \in 1..m, NEW b \in 1..m, a <= b PROVE K2[a] <= K2[b]
      OBVIOUS
    <3>1. CASE a = b
      BY <2>2, <3>1
    <3>2. CASE a < b
      BY <2>1, <3>2
    <3> QED BY <3>1, <3>2
  <2>4. m + 1 \in Nat /\ m + 1 >= 1 /\ (m + 1) - 1 = m
    BY <1>2
  <2> QED BY <1>2, <2>3, <2>4 DEF Fences
<1>9. ASSUME NEW c \in 1..(m + 1) PROVE InOrder(new[L2[c]].entries, c, m + 1, K2)
  <2>1. CASE c < j
    <3>1. InOrder(pgs[L[c]].entries, c, m, K) /\ new[L2[c]] = pgs[L[c]]
      BY <1>3, <1>8, <2>1 DEF Sorted
    <3>2. c < m /\ c \in 1..m /\ K2[c] = K[c]
      BY <1>1, <1>2, <2>1
    <3>3. c > 1 => c - 1 \in 1..m /\ K2[c - 1] = K[c - 1]
      BY <1>1, <1>2, <2>1
    <3> QED BY <3>1, <3>2, <3>3 DEF InOrder
  <2>2. CASE c = j
    <3>1. new[L2[c]] = new[p] /\ K2[j] = sep
      <4>1. L2[c] = p
        BY <1>8, <2>2
      <4>2. K2[j] = sep
        BY <1>1, <1>2
      <4> QED BY <4>1, <4>2
    <3>2. j > 1 => K2[j - 1] = K[j - 1]
      BY <1>1, <1>2
    <3>3. \A a \in 1..h : a \in 1..N /\ a <= h /\ new[p].entries[a] = es[a]
      BY <1>1
    <3>4. \A a \in 1..h : new[p].entries[a].key <= K2[j] /\ (j > 1 => K2[j - 1] <= new[p].entries[a].key)
      BY <1>1, <1>5, <3>1, <3>2, <3>3 DEF InOrder, N
    <3>5. \A a, b \in 1..h : a < b => Before(new[p].entries[a], new[p].entries[b])
      BY <1>1, <3>3 DEF InOrder, N
    <3> QED BY <1>1, <2>2, <3>1, <3>4, <3>5 DEF InOrder
  <2>3. CASE c = j + 1
    <3>1. new[L2[c]] = new[np] /\ K2[j] = sep /\ c - 1 = j
      <4>1. L2[c] = np
        BY <1>8, <2>3
      <4>2. K2[j] = sep
        BY <1>1, <1>2
      <4>3. c - 1 = j
        BY <1>2, <2>3
      <4> QED BY <4>1, <4>2, <4>3
    <3>2. j < m => K2[c] = K[j]
      <4>1. j < m => c \in 1..m /\ ~(c < j) /\ c # j
        BY <1>2, <2>3
      <4> QED BY <1>2, <3>1, <4>1
    <3>3. \A a \in 1..(N - h) : h + a \in 1..N /\ h + a > h /\ new[np].entries[a] = es[h + a]
      BY <1>1, <1>2
    <3>4. \A a \in 1..(N - h) : sep <= new[np].entries[a].key /\ (j < m => new[np].entries[a].key <= K[j])
      BY <1>1, <1>5, <3>3 DEF InOrder, N
    <3>5. \A a, b \in 1..(N - h) : a < b => Before(new[np].entries[a], new[np].entries[b])
      <4> SUFFICES ASSUME NEW a \in 1..(N - h), NEW b \in 1..(N - h), a < b
                   PROVE  Before(new[np].entries[a], new[np].entries[b])
        OBVIOUS
      <4>1. h + a \in 1..N /\ h + b \in 1..N /\ h + a < h + b
        BY <1>2, <3>3
      <4>2. Before(es[h + a], es[h + b])
        BY <1>1, <4>1 DEF InOrder, N
      <4> QED BY <3>3, <4>2
    <3>6. c < m + 1 => j < m
      BY <1>2, <2>3
    <3>7. ASSUME NEW a \in 1..Len(new[np].entries)
          PROVE  (c < m + 1 => new[np].entries[a].key <= K2[c]) /\ K2[c - 1] <= new[np].entries[a].key
      BY <1>1, <3>1, <3>2, <3>4, <3>6
    <3> QED BY <1>1, <3>1, <3>5, <3>7 DEF InOrder
  <2>4. CASE c > j + 1
    <3> DEFINE d == c - 1
    <3>1. d \in 1..m /\ new[L2[c]] = pgs[L[d]] /\ d > j /\ c = d + 1 /\ d > 1
      BY <1>1, <1>2, <1>8, <2>4
    <3> HIDE DEF d
    <3>2. InOrder(pgs[L[d]].entries, d, m, K)
      BY <1>3, <3>1 DEF Sorted
    <3>3. c < m + 1 => d < m /\ K2[c] = K[d]
      <4>1. c < m + 1 => c \in 1..m /\ ~(c < j) /\ c # j /\ c - 1 = d /\ d < m
        BY <1>2, <3>1
      <4> QED BY <1>2, <4>1
    <3>4. K2[c - 1] = K[d - 1]
      <4>1. c - 1 = d /\ ~(d < j) /\ d # j
        BY <1>2, <3>1
      <4> QED BY <1>2, <3>1, <4>1
    <3>5. ASSUME NEW a \in 1..Len(pgs[L[d]].entries)
          PROVE  /\ c < m + 1 => pgs[L[d]].entries[a].key <= K2[c]
                 /\ K2[c - 1] <= pgs[L[d]].entries[a].key
      BY <3>1, <3>2, <3>3, <3>4 DEF InOrder
    <3> QED BY <3>1, <3>2, <3>5 DEF InOrder
  <2> QED BY <1>2, <2>1, <2>2, <2>3, <2>4
<1> QED BY <1>7, <1>9 DEF Sorted

\* No page hangs under two others, and none under a leaf or a page that is not stored.
LEMMA ParentOf ==
    ASSUME NEW pgs, Linked(pgs), OneParent(pgs), NEW x \in PageIds, NEW i \in DOMAIN pgs[x].children,
           NEW p, pgs[x].children[i] = p,
           NEW q \in PageIds, NEW n \in DOMAIN pgs[q].children, pgs[q].children[n] = p
    PROVE  q = x /\ n = i
  BY DEF OneParent

LEMMA FreshOrphan ==
    ASSUME NEW pgs, Linked(pgs), NEW np, pgs[np].kind = "missing"
    PROVE  Orphan(pgs, np)
  BY DEF Linked, Orphan

\* A leaf has been cut in two, and its parent does not know the right half yet.
LEMMA LeafSplit ==
    ASSUME NEW pgs, NEW rt, NEW S, NEW m, NEW L, NEW K, NEW lo, NEW hi, NEW p, NEW h, NEW np, NEW new,
           LeafCut(pgs, rt, S, m, L, K, lo, hi, p, h, np, new),
           NEW sep, sep = pgs[p].entries[h + 1].key,
           NEW x, NEW i, Hangs(pgs, rt, p, x, i)
    PROVE  \E m2, L2, K2, lo2, hi2 : Open(new, rt, S, x, i, sep, np, m2, L2, K2, lo2, hi2)
<1> DEFINE j == lo[p]
<1>1. /\ Linked(pgs) /\ Complete(pgs, rt, S, m, L, K, lo, hi) /\ IsLeaf(pgs, p)
      /\ np \in PageIds /\ pgs[np].kind = "missing" /\ rt \in PageIds /\ pgs[rt].kind # "missing"
      /\ new \in [PageIds -> Node] /\ \A q \in PageIds : q # p /\ q # np => new[q] = pgs[q]
  BY DEF LeafCut
<1>2. /\ CutPages(pgs, new, p, h, np, pgs[p].entries)
      /\ j \in 1..m /\ hi[p] = j /\ L[j] = p
  BY LeafCutFacts
<1>3. /\ Fences(m, K) /\ Chain(pgs, m, L, lo, hi) /\ Holds(pgs, S)
      /\ Ranges(pgs, m, lo, hi) /\ OneParent(pgs) /\ Orphan(pgs, rt)
      /\ lo[rt] = 1 /\ hi[rt] = m /\ Inner(pgs, None, << >>, << >>, K, lo, hi)
  BY <1>1 DEF Complete, Standing
<1>4. /\ p \in PageIds /\ p # np /\ sep \in Keys /\ IsLeaf(new, p) /\ IsLeaf(new, np)
      /\ \A q \in PageIds : \A n \in DOMAIN new[q].children : q # p /\ q # np /\ new[q] = pgs[q]
  BY <1>2 DEF CutPages
<1>5. /\ m \in Nat /\ L \in [1..m -> PageIds] /\ K \in [1..(m - 1) -> Keys]
      /\ lo \in [PageIds -> Nat] /\ hi \in [PageIds -> Nat]
  BY <1>3 DEF Fences, Chain, Ranges
<1>6. PICK L2, K2, lo2, hi2 : Widen(j, p, np, sep, m, L, K, lo, hi, L2, K2, lo2, hi2)
  <2>1. j = lo[p]
    OBVIOUS
  <2> HIDE DEF j
  <2> QED BY <1>1, <1>2, <1>4, <1>5, <2>1, WidenExists
<1>7. Chain(new, m + 1, L2, lo2, hi2)
  BY <1>6, CutChain
<1>8. Fences(m + 1, K2) /\ Sorted(new, m + 1, L2, K2)
  BY <1>6, CutSorted
<1>9. Holds(new, S)
  <2> DEFINE N == Len(pgs[p].entries)
  <2>1. N \in Nat /\ h \in 1..(N - 1)
    BY <1>2 DEF CutPages
  <2>2. h \in 0..N
    BY <2>1
  <2>3. ~IsLeaf(pgs, np)
    BY <1>1 DEF IsLeaf
  <2>4. Moved(pgs, new, p, np, h, N)
    BY <1>1, <1>2, <2>1, <2>2, <2>3 DEF CutPages, Moved
  <2> QED BY <1>3, <2>4, HoldsMoved
<1>10. /\ lo2 \in [PageIds -> Nat] /\ hi2 \in [PageIds -> Nat] /\ j \in Nat /\ j \in 1..m
       /\ lo2[np] = j + 1 /\ hi2[np] = j + 1 /\ hi2[p] = j /\ lo2[p] = j
       /\ \A q \in PageIds : q # np => lo2[q] = IF lo[q] > j THEN lo[q] + 1 ELSE lo[q]
       /\ \A q \in PageIds : q # np /\ q # p => hi2[q] = IF hi[q] >= j THEN hi[q] + 1 ELSE hi[q]
  <2>1. /\ lo2 \in [PageIds -> Nat] /\ hi2 \in [PageIds -> Nat] /\ j \in 1..m
        /\ lo2[np] = j + 1 /\ hi2[np] = j + 1 /\ hi2[p] = j
        /\ \A q \in PageIds : q # np => lo2[q] = IF lo[q] > j THEN lo[q] + 1 ELSE lo[q]
        /\ \A q \in PageIds : q # np /\ q # p => hi2[q] = IF hi[q] >= j THEN hi[q] + 1 ELSE hi[q]
    BY <1>1, <1>4, <1>6 DEF Widen
  <2>2. j \in Nat
    BY <2>1
  <2>3. lo2[p] = j
    BY <1>4, <2>1, <2>2
  <2> QED BY <2>1, <2>2, <2>3
<1>11. Ranges(new, m + 1, lo2, hi2)
  <2>1. ASSUME NEW q \in PageIds, new[q].kind # "missing"
        PROVE  1 <= lo2[q] /\ lo2[q] <= hi2[q] /\ hi2[q] <= m + 1
    <3>0. j \in Nat /\ 1 <= j /\ j <= m /\ m \in Nat
      BY <1>5, <1>10
    <3>1. CASE q = np
      <4>1. lo2[q] = j + 1 /\ hi2[q] = j + 1
        BY <1>10, <3>1
      <4> HIDE DEF j
      <4> QED BY <3>0, <4>1
    <3>2. CASE q = p
      <4>1. lo2[q] = j /\ hi2[q] = j
        BY <1>10, <3>2
      <4> HIDE DEF j
      <4> QED BY <3>0, <4>1
    <3>3. CASE q # np /\ q # p
      <4> DEFINE a == lo[q]
                 b == hi[q]
      <4>1. a \in Nat /\ b \in Nat /\ 1 <= a /\ a <= b /\ b <= m
        BY <1>1, <1>3, <1>5, <2>1, <3>3 DEF Ranges
      <4>2. (lo2[q] = IF a > j THEN a + 1 ELSE a) /\ (hi2[q] = IF b >= j THEN b + 1 ELSE b)
        BY <1>10, <3>3
      <4> HIDE DEF a, b, j
      <4> QED BY <3>0, <4>1, <4>2
    <3> QED BY <3>1, <3>2, <3>3
  <2> QED BY <1>10, <2>1 DEF Ranges
<1>12. OneParent(new)
  <2> SUFFICES ASSUME NEW q \in PageIds, NEW r \in PageIds,
                      NEW a \in DOMAIN new[q].children, NEW b \in DOMAIN new[r].children,
                      new[q].children[a] = new[r].children[b]
               PROVE  q = r /\ a = b
    BY DEF OneParent
  <2>1. new[q] = pgs[q] /\ new[r] = pgs[r]
    BY <1>4
  <2> QED BY <1>3, <2>1 DEF OneParent
<1>13. \A c : Orphan(pgs, c) => Orphan(new, c)
  BY <1>4 DEF Orphan
<1>14. Orphan(pgs, np) /\ np # rt
  BY <1>1, FreshOrphan
<1>15. Standing(new, rt, S, m + 1, L2, K2, lo2, hi2) /\ Orphan(new, np)
  BY <1>3, <1>7, <1>8, <1>9, <1>11, <1>12, <1>13, <1>14 DEF Standing
<1>16. ASSUME NEW q \in PageIds, new[q].kind = "internal"
       PROVE  /\ q # p /\ q # np /\ q # None /\ new[q] = pgs[q] /\ Placed(pgs, q, m, K, lo, hi)
              /\ Len(pgs[q].keys) \in Nat
              /\ DOMAIN pgs[q].children = 1..(Len(pgs[q].keys) + 1)
  <2>1. q # p /\ q # np /\ q # None
    BY <1>4, <1>16, Constants DEF IsLeaf
  <2>2. new[q] = pgs[q]
    BY <1>1, <2>1
  <2>3. Placed(pgs, q, m, K, lo, hi)
    BY <1>1, <1>16, <2>2, PlacedFacts
  <2>4. /\ pgs[q].keys \in Seq(Keys) /\ pgs[q].children \in Seq(PageIds)
        /\ Len(pgs[q].keys) \in Nat /\ Len(pgs[q].children) = Len(pgs[q].keys) + 1
    BY <2>3, ChildFacts
  <2>5. DOMAIN pgs[q].children = 1..(Len(pgs[q].keys) + 1)
    BY <2>4
  <2> QED BY <2>1, <2>2, <2>3, <2>4, <2>5
<1>17. ASSUME NEW q \in PageIds, new[q].kind = "internal", \A n \in DOMAIN pgs[q].children : pgs[q].children[n] # p
       PROVE  Spans(new[q].keys, new[q].children, lo2[q], hi2[q], K2, lo2, hi2)
  <2>1. Spans(pgs[q].keys, pgs[q].children, lo2[q], hi2[q], K2, lo2, hi2)
    <3> HIDE DEF j
    <3>1. /\ q # p /\ q # np /\ pgs[np].kind = "missing" /\ Placed(pgs, q, m, K, lo, hi)
          /\ \A n \in 1..(Len(pgs[q].keys) + 1) : pgs[q].children[n] # p
      BY <1>1, <1>16, <1>17
    <3> QED BY <1>6, <3>1, SpansShift
  <2> QED BY <1>16, <1>17, <2>1
<1>18. CASE x = None
  <2>1. p = rt
    BY <1>18 DEF Hangs
  <2>2. j = 1 /\ m = 1
    BY <1>2, <1>3, <2>1
  <2>3. Spans(<<sep>>, <<rt, np>>, 1, m + 1, K2, lo2, hi2)
    <3>1. lo2[rt] = 1 /\ hi2[rt] = 1 /\ lo2[np] = 2 /\ hi2[np] = 2 /\ m + 1 = 2
      BY <1>10, <2>1, <2>2
    <3>2. K2[1] = sep
      <4>1. \A c \in 1..m : K2[c] = IF c < j THEN K[c] ELSE IF c = j THEN sep ELSE K[c - 1]
        BY <1>6 DEF Widen
      <4> HIDE DEF j
      <4> QED BY <2>2, <4>1
    <3>3. /\ Len(<<sep>>) = 1 /\ <<sep>>[1] = sep /\ <<rt, np>>[1] = rt /\ <<rt, np>>[2] = np
      OBVIOUS
    <3>4. \A a \in 1..1 : a = 1 /\ a + 1 = 2
      OBVIOUS
    <3>5. ASSUME NEW a \in 1..Len(<<sep>>)
          PROVE  /\ lo2[<<rt, np>>[a + 1]] = hi2[<<rt, np>>[a]] + 1
                 /\ <<sep>>[a] = K2[hi2[<<rt, np>>[a]]]
      <4>1. a = 1
        BY <3>3, <3>4
      <4> QED BY <3>1, <3>2, <3>3, <4>1
    <3>6. hi2[<<rt, np>>[Len(<<sep>>) + 1]] = m + 1 /\ lo2[<<rt, np>>[1]] = 1
      BY <3>1, <3>3
    <3> QED BY <3>5, <3>6 DEF Spans
  <2>4. Inner(new, None, << >>, << >>, K2, lo2, hi2)
    <3>1. ASSUME NEW q \in PageIds, new[q].kind = "internal"
          PROVE  Spans(new[q].keys, new[q].children, lo2[q], hi2[q], K2, lo2, hi2)
      BY <1>3, <1>17, <2>1, <3>1 DEF Orphan
    <3> QED BY <1>16, <3>1 DEF Inner
  <2>5. Open(new, rt, S, x, i, sep, np, m + 1, L2, K2, lo2, hi2)
    BY <1>14, <1>15, <1>18, <2>3, <2>4 DEF Open
  <2> QED BY <2>5
<1>19. CASE x # None
  <2>1. x \in PageIds /\ pgs[x].kind = "internal" /\ i \in DOMAIN pgs[x].children /\ pgs[x].children[i] = p
    BY <1>19 DEF Hangs
  <2>2. p # rt
    BY <1>3, <2>1 DEF Orphan
  <2>3. x # p /\ x # np /\ new[x] = pgs[x]
    BY <1>1, <2>1 DEF IsLeaf
  <2>4. lo2[rt] = 1 /\ hi2[rt] = m + 1
    <3>1. lo2[rt] = (IF lo[rt] > j THEN lo[rt] + 1 ELSE lo[rt]) /\ hi2[rt] = (IF hi[rt] >= j THEN hi[rt] + 1 ELSE hi[rt])
      BY <1>1, <1>10, <1>14, <2>2
    <3>2. ~(1 > j) /\ m >= j
      BY <1>5, <1>10
    <3> HIDE DEF j
    <3> QED BY <1>3, <3>1, <3>2
  <2>5. Spans(InsertAt(new[x].keys, i, sep), InsertAt(new[x].children, i + 1, np), lo2[x], hi2[x], K2, lo2, hi2)
    <3>1. /\ i \in 1..(Len(pgs[x].keys) + 1) /\ Placed(pgs, x, m, K, lo, hi)
          /\ \A n \in 1..(Len(pgs[x].keys) + 1) : n # i => pgs[x].children[n] # p
      <4>1. Placed(pgs, x, m, K, lo, hi) /\ DOMAIN pgs[x].children = 1..(Len(pgs[x].keys) + 1)
        BY <1>16, <2>1, <2>3
      <4>2. \A n \in DOMAIN pgs[x].children : n # i => pgs[x].children[n] # p
        BY <1>1, <1>3, <2>1, ParentOf
      <4> QED BY <2>1, <4>1, <4>2
    <3>2. Gap(pgs[x].keys, pgs[x].children, i, sep, np, lo2[x], hi2[x], K2, lo2, hi2)
      <4>1. lo[p] = j /\ hi[p] = j
        BY <1>2
      <4> HIDE DEF j
      <4> QED BY <1>1, <1>4, <1>6, <2>1, <2>3, <3>1, <4>1, GapShift
    <3> QED BY <2>3, <3>2, GapFilled
  <2>6. Inner(new, x, InsertAt(new[x].keys, i, sep), InsertAt(new[x].children, i + 1, np), K2, lo2, hi2)
    <3>1. ASSUME NEW q \in PageIds, new[q].kind = "internal", q # x
          PROVE  Spans(new[q].keys, new[q].children, lo2[q], hi2[q], K2, lo2, hi2)
      <4>1. \A n \in DOMAIN pgs[q].children : pgs[q].children[n] # p
        BY <1>1, <1>3, <2>1, <3>1, ParentOf
      <4> QED BY <1>17, <3>1, <4>1
    <3> QED BY <2>5, <3>1 DEF Inner
  <2>7. Open(new, rt, S, x, i, sep, np, m + 1, L2, K2, lo2, hi2)
    BY <1>14, <1>15, <1>19, <2>4, <2>6 DEF Open
  <2> QED BY <2>7
<1> QED BY <1>18, <1>19

-----------------------------------------------------------------------------
(* A page takes its place under its parent. *)

Kid(pgs, p, n, c) == p \in PageIds /\ n \in DOMAIN pgs[p].children /\ pgs[p].children[n] = c

LEMMA OneParentKids ==
    ASSUME NEW pgs
    PROVE  OneParent(pgs) <=>
            \A p, n, q, k, c : Kid(pgs, p, n, c) /\ Kid(pgs, q, k, c) => p = q /\ n = k
<1>1. ASSUME OneParent(pgs), NEW p, NEW n, NEW q, NEW k, NEW c, Kid(pgs, p, n, c), Kid(pgs, q, k, c)
      PROVE  p = q /\ n = k
  BY <1>1 DEF OneParent, Kid
<1>2. ASSUME \A p, n, q, k, c : Kid(pgs, p, n, c) /\ Kid(pgs, q, k, c) => p = q /\ n = k,
             NEW p \in PageIds, NEW q \in PageIds,
             NEW n \in DOMAIN pgs[p].children, NEW k \in DOMAIN pgs[q].children,
             pgs[p].children[n] = pgs[q].children[k]
      PROVE  p = q /\ n = k
  <2>1. Kid(pgs, p, n, pgs[p].children[n]) /\ Kid(pgs, q, k, pgs[p].children[n])
    BY <1>2 DEF Kid
  <2> QED BY <1>2, <2>1
<1> QED BY <1>1, <1>2 DEF OneParent

LEMMA OrphanKids ==
    ASSUME NEW pgs, NEW c
    PROVE  Orphan(pgs, c) <=> \A p, n : ~Kid(pgs, p, n, c)
  BY DEF Orphan, Kid

\* The leaves are the same pages, at the same places.
SameLeaves(pgs, new, lo, hi, lo2, hi2) ==
    \A q \in PageIds :
        /\ pgs[q].kind = "leaf" <=> new[q].kind = "leaf"
        /\ pgs[q].kind = "leaf" => new[q] = pgs[q] /\ lo2[q] = lo[q] /\ hi2[q] = hi[q]

LEMMA LeavesKept ==
    ASSUME NEW pgs, NEW new, NEW S, NEW m, NEW L, NEW K, NEW lo, NEW hi, NEW lo2, NEW hi2,
           SameLeaves(pgs, new, lo, hi, lo2, hi2),
           Chain(pgs, m, L, lo, hi), Sorted(pgs, m, L, K), Holds(pgs, S)
    PROVE  Chain(new, m, L, lo2, hi2) /\ Sorted(new, m, L, K) /\ Holds(new, S)
<1>1. \A c \in 1..m : L[c] \in PageIds /\ pgs[L[c]].kind = "leaf"
  BY DEF Chain
<1>2. \A c \in 1..m : new[L[c]] = pgs[L[c]] /\ lo2[L[c]] = lo[L[c]] /\ hi2[L[c]] = hi[L[c]]
  BY <1>1 DEF SameLeaves
<1>3. Chain(new, m, L, lo2, hi2)
  <2>1. L \in [1..m -> PageIds]
    BY DEF Chain
  <2>2. ASSUME NEW c \in 1..m
        PROVE  /\ new[L[c]].kind = "leaf" /\ lo2[L[c]] = c /\ hi2[L[c]] = c
               /\ new[L[c]].next = IF c = m THEN None ELSE L[c + 1]
    BY <1>2 DEF Chain
  <2>3. ASSUME NEW q \in PageIds, new[q].kind = "leaf" PROVE lo2[q] \in 1..m /\ L[lo2[q]] = q
    BY <2>3 DEF Chain, SameLeaves
  <2> QED BY <2>1, <2>2, <2>3 DEF Chain
<1>4. Sorted(new, m, L, K)
  BY <1>2 DEF Sorted
<1>5. \A q, a, e : Stands(new, q, a, e) <=> Stands(pgs, q, a, e)
  BY DEF Stands, IsLeaf, SameLeaves
<1>6. Holds(new, S)
  BY <1>5, HoldsPlaces
<1> QED BY <1>3, <1>4, <1>6

\* Page x of new has the pending right half as its child i + 1.
Filled(pgs, new, x, i, sep, right) ==
    /\ Linked(pgs) /\ x \in PageIds /\ pgs[x].kind = "internal" /\ i \in DOMAIN pgs[x].children
    /\ right \in PageIds /\ pgs[right].kind # "missing" /\ sep \in Keys
    /\ new = [pgs EXCEPT ![x] = Internal(InsertAt(pgs[x].keys, i, sep),
                                         InsertAt(pgs[x].children, i + 1, right))]

FilledNode(pgs, new, x, i, right, ks, cs, N) ==
    /\ N \in Nat /\ i \in 1..N /\ DOMAIN pgs[x].children = 1..N
    /\ ks \in Seq(Keys) /\ cs \in Seq(PageIds) /\ Len(ks) = N /\ Len(cs) = N + 1
    /\ \A n \in 1..(N + 1) : cs[n] = IF n < i + 1 THEN pgs[x].children[n]
                                     ELSE IF n = i + 1 THEN right ELSE pgs[x].children[n - 1]
    /\ new \in [PageIds -> Node] /\ new[x] = Internal(ks, cs)
    /\ new[x].kind = "internal" /\ new[x].keys = ks /\ new[x].children = cs
    /\ \A q \in PageIds : q # x => new[q] = pgs[q]

LEMMA FilledFacts ==
    ASSUME NEW pgs, NEW new, NEW x, NEW i, NEW sep, NEW right, Filled(pgs, new, x, i, sep, right),
           NEW ks, ks = InsertAt(pgs[x].keys, i, sep),
           NEW cs, cs = InsertAt(pgs[x].children, i + 1, right),
           NEW N, N = Len(pgs[x].children)
    PROVE  FilledNode(pgs, new, x, i, right, ks, cs, N)
<1>1. /\ pgs \in [PageIds -> Node] /\ x \in PageIds /\ pgs[x].keys \in Seq(Keys)
      /\ pgs[x].children \in Seq(PageIds) /\ Len(pgs[x].children) = Len(pgs[x].keys) + 1
      /\ i \in DOMAIN pgs[x].children /\ right \in PageIds /\ sep \in Keys
      /\ new = [pgs EXCEPT ![x] = Internal(ks, cs)]
  BY NodeFields DEF Filled, Linked
<1> DEFINE k0 == pgs[x].keys
           c0 == pgs[x].children
           j == i + 1
<1>2. N \in Nat /\ i \in 1..N /\ DOMAIN pgs[x].children = 1..N
  BY <1>1
<1>3. k0 \in Seq(Keys) /\ c0 \in Seq(PageIds) /\ i \in 1..(Len(k0) + 1) /\ j \in 1..(Len(c0) + 1)
      /\ Len(k0) + 1 = N /\ Len(c0) = N
  BY <1>1, <1>2
<1>4. ks = InsertAt(k0, i, sep) /\ cs = InsertAt(c0, j, right)
  OBVIOUS
<1> HIDE DEF k0, c0, j
<1>5. ks \in Seq(Keys) /\ Len(ks) = N
  <2>0. k0 \in Seq(Keys) /\ sep \in Keys /\ i \in 1..(Len(k0) + 1)
    BY <1>1, <1>3
  <2>1. InsertAt(k0, i, sep) \in Seq(Keys) /\ Len(InsertAt(k0, i, sep)) = Len(k0) + 1
    BY <2>0, InsertAtFacts
  <2> QED BY <1>3, <1>4, <2>1
<1>6. /\ cs \in Seq(PageIds) /\ Len(cs) = N + 1
      /\ \A n \in 1..(N + 1) : cs[n] = IF n < j THEN c0[n] ELSE IF n = j THEN right ELSE c0[n - 1]
  <2>0. c0 \in Seq(PageIds) /\ right \in PageIds /\ j \in 1..(Len(c0) + 1)
    BY <1>1, <1>3
  <2>1. /\ InsertAt(c0, j, right) \in Seq(PageIds) /\ Len(InsertAt(c0, j, right)) = Len(c0) + 1
        /\ \A n \in 1..(Len(c0) + 1) :
            InsertAt(c0, j, right)[n] = IF n < j THEN c0[n] ELSE IF n = j THEN right ELSE c0[n - 1]
    BY <2>0, InsertAtFacts
  <2> QED BY <1>3, <1>4, <2>1
<1>7. /\ Internal(ks, cs) \in Node /\ Internal(ks, cs).kind = "internal"
      /\ Internal(ks, cs).keys = ks /\ Internal(ks, cs).children = cs
  BY <1>5, <1>6, InternalFacts
<1>8. new \in [PageIds -> Node] /\ new[x] = Internal(ks, cs) /\ \A q \in PageIds : q # x => new[q] = pgs[q]
  BY <1>1, <1>7
<1> QED BY <1>2, <1>5, <1>6, <1>7, <1>8 DEF c0, j, FilledNode

\* The parent of a page that has been cut stores the separator and the right half.
LEMMA GapClosed ==
    ASSUME NEW pgs, NEW new, NEW rt, NEW S, NEW x, NEW i, NEW sep, NEW right,
           Filled(pgs, new, x, i, sep, right), NEW m, NEW L, NEW K, NEW lo, NEW hi,
           Open(pgs, rt, S, x, i, sep, right, m, L, K, lo, hi)
    PROVE  Linked(new) /\ Complete(new, rt, S, m, L, K, lo, hi)
<1> DEFINE ks == InsertAt(pgs[x].keys, i, sep)
           cs == InsertAt(pgs[x].children, i + 1, right)
           N == Len(pgs[x].children)
<1>1. /\ N \in Nat /\ i \in 1..N /\ DOMAIN pgs[x].children = 1..N
      /\ ks \in Seq(Keys) /\ cs \in Seq(PageIds) /\ Len(ks) = N /\ Len(cs) = N + 1
      /\ \A n \in 1..(N + 1) : cs[n] = IF n < i + 1 THEN pgs[x].children[n]
                                       ELSE IF n = i + 1 THEN right ELSE pgs[x].children[n - 1]
      /\ new \in [PageIds -> Node] /\ new[x].kind = "internal" /\ new[x].keys = ks /\ new[x].children = cs
      /\ \A q \in PageIds : q # x => new[q] = pgs[q]
  <2>1. FilledNode(pgs, new, x, i, right, ks, cs, N)
    BY FilledFacts
  <2> HIDE DEF ks, cs, N
  <2> QED BY <2>1 DEF FilledNode
<1>2. /\ Linked(pgs) /\ x \in PageIds /\ pgs[x].kind = "internal"
      /\ right \in PageIds /\ pgs[right].kind # "missing" /\ x # None
  BY Constants DEF Filled
<1>3. /\ Standing(pgs, rt, S, m, L, K, lo, hi) /\ Orphan(pgs, right) /\ right # rt
      /\ lo[rt] = 1 /\ hi[rt] = m /\ Inner(pgs, x, ks, cs, K, lo, hi)
  BY <1>2 DEF Open
<1> HIDE DEF ks, cs, N
<1>4. \A q \in PageIds : new[q].kind = pgs[q].kind
  BY <1>1, <1>2
<1>5. DOMAIN cs = 1..(N + 1)
  BY <1>1
<1>6. \A n, c : Kid(new, x, n, c) =>
            \/ n = i + 1 /\ c = right
            \/ n \in 1..i /\ Kid(pgs, x, n, c)
            \/ n \in (i + 2)..(N + 1) /\ Kid(pgs, x, n - 1, c)
  <2> SUFFICES ASSUME NEW n, NEW c, Kid(new, x, n, c)
               PROVE  \/ n = i + 1 /\ c = right
                      \/ n \in 1..i /\ Kid(pgs, x, n, c)
                      \/ n \in (i + 2)..(N + 1) /\ Kid(pgs, x, n - 1, c)
    OBVIOUS
  <2>1. n \in 1..(N + 1) /\ cs[n] = c
    BY <1>1, <1>5 DEF Kid
  <2>2. CASE n < i + 1
    <3>1. n \in 1..i /\ n \in 1..N /\ pgs[x].children[n] = c
      BY <1>1, <2>1, <2>2
    <3> QED BY <1>1, <1>2, <3>1 DEF Kid
  <2>3. CASE n = i + 1
    <3>1. c = right
      BY <1>1, <2>1, <2>3
    <3> QED BY <2>3, <3>1
  <2>4. CASE n > i + 1
    <3> DEFINE d == n - 1
    <3>1. n \in (i + 2)..(N + 1) /\ d \in 1..N /\ pgs[x].children[d] = c
      BY <1>1, <2>1, <2>4
    <3> HIDE DEF d
    <3>2. Kid(pgs, x, d, c)
      BY <1>1, <1>2, <3>1 DEF Kid
    <3> QED BY <3>1, <3>2 DEF d
  <2> QED BY <1>1, <2>1, <2>2, <2>3, <2>4
<1>7. \A q, n, c : q # x /\ Kid(new, q, n, c) => Kid(pgs, q, n, c)
  BY <1>1 DEF Kid
<1>8. \A q, n, c : Kid(pgs, q, n, c) => c # right
  BY <1>3, OrphanKids
<1>9. \A q, n, r, k, c : Kid(pgs, q, n, c) /\ Kid(pgs, r, k, c) => q = r /\ n = k
  BY <1>3, OneParentKids DEF Standing
<1>10. Linked(new)
  <2>1. \A q, n, c : Kid(new, q, n, c) => c \in PageIds /\ pgs[c].kind # "missing"
    <3>1. \A q, n, c : Kid(pgs, q, n, c) => c \in PageIds /\ pgs[c].kind # "missing"
      <4> SUFFICES ASSUME NEW q, NEW n, NEW c, Kid(pgs, q, n, c) PROVE c \in PageIds /\ pgs[c].kind # "missing"
        OBVIOUS
      <4>1. q \in PageIds /\ n \in DOMAIN pgs[q].children /\ c = pgs[q].children[n]
        BY DEF Kid
      <4>2. pgs[q].children \in Seq(PageIds)
        BY <1>2, <4>1, NodeFields DEF Linked
      <4> QED BY <1>2, <4>1, <4>2 DEF Linked
    <3> QED BY <1>2, <1>6, <1>7, <3>1
  <2>2. ASSUME NEW q \in PageIds, NEW n \in DOMAIN new[q].children
        PROVE  new[new[q].children[n]].kind # "missing"
    <3>1. Kid(new, q, n, new[q].children[n])
      BY DEF Kid
    <3> QED BY <1>4, <2>1, <3>1
  <2>3. ASSUME NEW q \in PageIds, new[q].kind = "internal"
        PROVE  Len(new[q].children) = Len(new[q].keys) + 1
    BY <1>1, <1>2, <2>3 DEF Linked
  <2> QED BY <1>1, <2>2, <2>3 DEF Linked
<1>11. OneParent(new)
  <2> SUFFICES ASSUME NEW q, NEW n, NEW r, NEW k, NEW c, Kid(new, q, n, c), Kid(new, r, k, c)
               PROVE  q = r /\ n = k
    BY OneParentKids
  <2>1. \/ q # x /\ Kid(pgs, q, n, c)
        \/ q = x /\ n = i + 1 /\ c = right
        \/ q = x /\ n \in 1..i /\ Kid(pgs, x, n, c)
        \/ q = x /\ n \in (i + 2)..(N + 1) /\ Kid(pgs, x, n - 1, c)
    BY <1>6, <1>7
  <2>2. \/ r # x /\ Kid(pgs, r, k, c)
        \/ r = x /\ k = i + 1 /\ c = right
        \/ r = x /\ k \in 1..i /\ Kid(pgs, x, k, c)
        \/ r = x /\ k \in (i + 2)..(N + 1) /\ Kid(pgs, x, k - 1, c)
    BY <1>6, <1>7
  <2>3. CASE q # x /\ Kid(pgs, q, n, c)
    BY <1>8, <1>9, <2>2, <2>3
  <2>4. CASE q = x /\ n = i + 1 /\ c = right
    BY <1>8, <2>2, <2>4
  <2>5. CASE q = x /\ n \in 1..i /\ Kid(pgs, x, n, c)
    <3>1. CASE r = x /\ k \in (i + 2)..(N + 1) /\ Kid(pgs, x, k - 1, c)
      <4>1. n = k - 1
        BY <1>9, <2>5, <3>1
      <4> QED BY <1>1, <2>5, <3>1, <4>1
    <3> QED BY <1>8, <1>9, <2>2, <2>5, <3>1
  <2>6. CASE q = x /\ n \in (i + 2)..(N + 1) /\ Kid(pgs, x, n - 1, c)
    <3>1. CASE r = x /\ k \in 1..i /\ Kid(pgs, x, k, c)
      <4>1. k = n - 1
        BY <1>9, <2>6, <3>1
      <4> QED BY <1>1, <2>6, <3>1, <4>1
    <3>2. CASE r = x /\ k \in (i + 2)..(N + 1) /\ Kid(pgs, x, k - 1, c)
      <4>1. k - 1 = n - 1
        BY <1>9, <2>6, <3>2
      <4> QED BY <1>1, <2>6, <3>2, <4>1
    <3> QED BY <1>8, <1>9, <2>2, <2>6, <3>1, <3>2
  <2> QED BY <2>1, <2>3, <2>4, <2>5, <2>6
<1>12. Orphan(new, rt)
  <2>1. \A q, n : ~Kid(pgs, q, n, rt)
    BY <1>3, OrphanKids DEF Standing
  <2>2. \A q, n : ~Kid(new, q, n, rt)
    BY <1>3, <1>6, <1>7, <2>1
  <2> QED BY <2>2, OrphanKids
<1>13. Chain(new, m, L, lo, hi) /\ Sorted(new, m, L, K) /\ Holds(new, S)
  <2>1. SameLeaves(pgs, new, lo, hi, lo, hi)
    BY <1>1, <1>2 DEF SameLeaves
  <2> QED BY <1>3, <2>1, LeavesKept DEF Standing
<1>14. Ranges(new, m, lo, hi)
  BY <1>3, <1>4 DEF Ranges, Standing
<1>15. Inner(new, None, << >>, << >>, K, lo, hi)
  <2> SUFFICES ASSUME NEW q \in PageIds, new[q].kind = "internal"
               PROVE  q # None /\ Spans(new[q].keys, new[q].children, lo[q], hi[q], K, lo, hi)
    BY DEF Inner
  <2>1. CASE q = x
    BY <1>1, <1>2, <1>3, <2>1 DEF Inner
  <2>2. CASE q # x
    BY <1>1, <1>3, <2>2, Constants DEF Inner
  <2> QED BY <2>1, <2>2
<1>16. Fences(m, K)
  BY <1>3 DEF Standing
<1> QED BY <1>3, <1>10, <1>11, <1>12, <1>13, <1>14, <1>15, <1>16 DEF Complete, Standing

-----------------------------------------------------------------------------
(* An internal node is cut in two, and the root gets a parent. *)

\* Internal page p of a tree, cut behind its child half + 1, page np unused.
InnerSplitting(pgs, rt, p, half, np, new) ==
    /\ Linked(pgs) /\ p \in PageIds /\ pgs[p].kind = "internal"
    /\ \A n \in DOMAIN pgs[p].children : pgs[p].children[n] # p
    /\ Len(pgs[p].keys) = MaxKeys + 1 /\ half = Len(pgs[p].keys) \div 2
    /\ np \in PageIds /\ pgs[np].kind = "missing" /\ rt \in PageIds /\ pgs[rt].kind # "missing"
    /\ new \in [PageIds -> Node]
    /\ new[p] = Internal(Front_(pgs[p].keys, half), Front_(pgs[p].children, half + 1))
    /\ new[np] = Internal(Rest(pgs[p].keys, half + 1), Rest(pgs[p].children, half + 1))
    /\ \A q \in PageIds : q # p /\ q # np => new[q] = pgs[q]

\* The two halves of node (ks, cs), with N separators in all.
InnerHalved(new, p, np, ks, cs, N, half) ==
    /\ p # np /\ N \in Nat /\ half \in 1..(N - 1) /\ Len(ks) = N /\ Len(cs) = N + 1
    /\ ks \in Seq(Keys) /\ cs \in Seq(PageIds) /\ ks[half + 1] \in Keys
    /\ new[p].kind = "internal" /\ Len(new[p].keys) = half /\ DOMAIN new[p].children = 1..(half + 1)
    /\ \A n \in 1..half : new[p].keys[n] = ks[n]
    /\ \A n \in 1..(half + 1) : new[p].children[n] = cs[n]
    /\ new[np].kind = "internal" /\ Len(new[np].keys) = (N - 1) - half
    /\ DOMAIN new[np].children = 1..(N - half)
    /\ \A n \in 1..((N - 1) - half) : new[np].keys[n] = ks[half + 1 + n]
    /\ \A n \in 1..(N - half) : new[np].children[n] = cs[half + 1 + n]

LEMMA InnerSplittingFacts ==
    ASSUME NEW pgs, NEW rt, NEW p, NEW half, NEW np, NEW new, InnerSplitting(pgs, rt, p, half, np, new),
           NEW ks, ks = pgs[p].keys, NEW cs, cs = pgs[p].children, NEW N, N = Len(ks)
    PROVE  InnerHalved(new, p, np, ks, cs, N, half)
<1>1. /\ p \in PageIds /\ ks \in Seq(Keys) /\ cs \in Seq(PageIds) /\ Len(cs) = Len(ks) + 1
      /\ Len(ks) = MaxKeys + 1 /\ half = Len(ks) \div 2 /\ p # np
      /\ new[p] = Internal(Front_(ks, half), Front_(cs, half + 1))
      /\ new[np] = Internal(Rest(ks, half + 1), Rest(cs, half + 1))
  BY NodeFields DEF InnerSplitting, Linked
<1>2. InnerCut(ks, cs, half)
  <2>1. ks \in Seq(Keys) /\ cs \in Seq(PageIds) /\ Len(cs) = Len(ks) + 1
        /\ Len(ks) = MaxKeys + 1 /\ half = Len(ks) \div 2
    BY <1>1
  <2> QED BY <2>1, InnerHalves
<1> DEFINE k1 == Front_(ks, half)
           c1 == Front_(cs, half + 1)
           k2 == Rest(ks, half + 1)
           c2 == Rest(cs, half + 1)
<1>3. /\ half \in 1..MaxKeys /\ half + 1 \in 1..Len(ks) /\ ks[half + 1] \in Keys
      /\ k1 \in Seq(Keys) /\ Len(k1) = half /\ \A n \in 1..half : k1[n] = ks[n]
      /\ c1 \in Seq(PageIds) /\ Len(c1) = half + 1 /\ \A n \in 1..(half + 1) : c1[n] = cs[n]
      /\ k2 \in Seq(Keys) /\ Len(k2) = MaxKeys - half
      /\ \A n \in 1..(MaxKeys - half) : k2[n] = ks[half + 1 + n]
      /\ c2 \in Seq(PageIds) /\ Len(c2) = MaxKeys - half + 1
      /\ \A n \in 1..(MaxKeys - half + 1) : c2[n] = cs[half + 1 + n]
  BY <1>2 DEF InnerCut
<1>4. new[p] = Internal(k1, c1) /\ new[np] = Internal(k2, c2)
  BY <1>1
<1> HIDE DEF k1, c1, k2, c2
<1>5. k1 \in Seq(Keys) /\ c1 \in Seq(PageIds) /\ k2 \in Seq(Keys) /\ c2 \in Seq(PageIds)
  BY <1>3
<1>6. new[p].kind = "internal" /\ new[p].keys = k1 /\ new[p].children = c1
  <2>1. /\ Internal(k1, c1).kind = "internal" /\ Internal(k1, c1).keys = k1
        /\ Internal(k1, c1).children = c1
    BY <1>5, InternalFacts
  <2> QED BY <1>4, <2>1
<1>7. new[np].kind = "internal" /\ new[np].keys = k2 /\ new[np].children = c2
  <2>1. /\ Internal(k2, c2).kind = "internal" /\ Internal(k2, c2).keys = k2
        /\ Internal(k2, c2).children = c2
    BY <1>5, InternalFacts
  <2> QED BY <1>4, <2>1
<1>8. /\ N = MaxKeys + 1 /\ N \in Nat /\ MaxKeys \in Nat /\ half \in 1..(N - 1) /\ half \in Nat
      /\ MaxKeys - half = (N - 1) - half /\ MaxKeys - half + 1 = N - half
  BY <1>1, <1>3, Constants
<1>9. DOMAIN c1 = 1..(half + 1) /\ DOMAIN c2 = 1..(N - half)
  BY <1>3, <1>8
<1> QED BY <1>1, <1>3, <1>6, <1>7, <1>8, <1>9 DEF InnerHalved

\* The children of page p are shared out between page p and page np.
LEMMA KidsShared ==
    ASSUME NEW pgs, NEW rt, NEW p, NEW half, NEW np, NEW new, InnerSplitting(pgs, rt, p, half, np, new),
           OneParent(pgs)
    PROVE  OneParent(new) /\ \A c : Orphan(pgs, c) => Orphan(new, c)
<1> DEFINE ks == pgs[p].keys
           cs == pgs[p].children
           N == Len(ks)
<1>1. InnerHalved(new, p, np, ks, cs, N, half)
  BY InnerSplittingFacts
<1>2. p \in PageIds /\ np \in PageIds /\ \A q \in PageIds : q # p /\ q # np => new[q] = pgs[q]
  BY DEF InnerSplitting
<1> HIDE DEF ks, cs, N
<1>3. /\ N \in Nat /\ half \in 1..(N - 1) /\ half \in Nat /\ DOMAIN cs = 1..(N + 1)
      /\ DOMAIN new[p].children = 1..(half + 1) /\ \A n \in 1..(half + 1) : new[p].children[n] = cs[n]
      /\ DOMAIN new[np].children = 1..(N - half)
      /\ \A n \in 1..(N - half) : new[np].children[n] = cs[half + 1 + n]
  <2>1. /\ N \in Nat /\ half \in 1..(N - 1) /\ cs \in Seq(PageIds) /\ Len(cs) = N + 1
        /\ DOMAIN new[p].children = 1..(half + 1) /\ \A n \in 1..(half + 1) : new[p].children[n] = cs[n]
        /\ DOMAIN new[np].children = 1..(N - half)
        /\ \A n \in 1..(N - half) : new[np].children[n] = cs[half + 1 + n]
    BY <1>1 DEF InnerHalved
  <2>2. DOMAIN cs = 1..(N + 1) /\ half \in Nat
    BY <2>1
  <2> QED BY <2>1, <2>2
<1>4. \A n, c : Kid(new, p, n, c) => n \in 1..(half + 1) /\ Kid(pgs, p, n, c)
  <2> SUFFICES ASSUME NEW n, NEW c, Kid(new, p, n, c) PROVE n \in 1..(half + 1) /\ Kid(pgs, p, n, c)
    OBVIOUS
  <2>1. n \in 1..(half + 1) /\ c = cs[n]
    BY <1>3 DEF Kid
  <2>2. n \in 1..(N + 1)
    BY <1>3, <2>1
  <2> QED BY <1>2, <1>3, <2>1, <2>2 DEF Kid, cs
<1>5. \A n, c : Kid(new, np, n, c) => n \in 1..(N - half) /\ Kid(pgs, p, half + 1 + n, c)
  <2> SUFFICES ASSUME NEW n, NEW c, Kid(new, np, n, c)
               PROVE  n \in 1..(N - half) /\ Kid(pgs, p, half + 1 + n, c)
    OBVIOUS
  <2> DEFINE d == half + 1 + n
  <2>1. n \in 1..(N - half) /\ c = cs[d]
    BY <1>3 DEF Kid
  <2>2. d \in 1..(N + 1)
    BY <1>3, <2>1
  <2> HIDE DEF d
  <2>3. Kid(pgs, p, d, c)
    BY <1>2, <1>3, <2>1, <2>2 DEF Kid, cs
  <2> QED BY <2>1, <2>3 DEF d
<1>6. \A q, n, c : q # p /\ q # np /\ Kid(new, q, n, c) => Kid(pgs, q, n, c)
  BY <1>2 DEF Kid
<1>7. \A q, n, r, k, c : Kid(pgs, q, n, c) /\ Kid(pgs, r, k, c) => q = r /\ n = k
  BY OneParentKids
<1>8. ASSUME NEW q, NEW n, NEW r, NEW k, NEW c, Kid(new, q, n, c), Kid(new, r, k, c)
      PROVE  q = r /\ n = k
  <2>1. \/ q # p /\ q # np /\ Kid(pgs, q, n, c)
        \/ q = p /\ n \in 1..(half + 1) /\ Kid(pgs, p, n, c)
        \/ q = np /\ n \in 1..(N - half) /\ Kid(pgs, p, half + 1 + n, c)
    BY <1>4, <1>5, <1>6, <1>8
  <2>2. \/ r # p /\ r # np /\ Kid(pgs, r, k, c)
        \/ r = p /\ k \in 1..(half + 1) /\ Kid(pgs, p, k, c)
        \/ r = np /\ k \in 1..(N - half) /\ Kid(pgs, p, half + 1 + k, c)
    BY <1>4, <1>5, <1>6, <1>8
  <2>3. CASE q # p /\ q # np /\ Kid(pgs, q, n, c)
    BY <1>7, <2>2, <2>3
  <2>4. CASE q = p /\ n \in 1..(half + 1) /\ Kid(pgs, p, n, c)
    <3>1. CASE r = np /\ k \in 1..(N - half) /\ Kid(pgs, p, half + 1 + k, c)
      <4>1. n = half + 1 + k
        BY <1>7, <2>4, <3>1
      <4> QED BY <1>3, <2>4, <3>1, <4>1
    <3> QED BY <1>7, <2>2, <2>4, <3>1
  <2>5. CASE q = np /\ n \in 1..(N - half) /\ Kid(pgs, p, half + 1 + n, c)
    <3>1. CASE r = p /\ k \in 1..(half + 1) /\ Kid(pgs, p, k, c)
      <4>1. k = half + 1 + n
        BY <1>7, <2>5, <3>1
      <4> QED BY <1>3, <2>5, <3>1, <4>1
    <3>2. CASE r = np /\ k \in 1..(N - half) /\ Kid(pgs, p, half + 1 + k, c)
      <4>1. half + 1 + k = half + 1 + n
        BY <1>7, <2>5, <3>2
      <4> QED BY <1>3, <2>5, <3>2, <4>1
    <3> QED BY <1>7, <2>2, <2>5, <3>1, <3>2
  <2> QED BY <2>1, <2>3, <2>4, <2>5
<1>9. ASSUME NEW c, Orphan(pgs, c) PROVE Orphan(new, c)
  <2>1. \A q, n : ~Kid(pgs, q, n, c)
    BY <1>9, OrphanKids
  <2>2. \A q, n : ~Kid(new, q, n, c)
    BY <1>4, <1>5, <1>6, <2>1
  <2> QED BY <2>2, OrphanKids
<1>10. OneParent(new)
  BY <1>8, OneParentKids
<1> QED BY <1>9, <1>10

\* The part of a node that stays, and the part that goes.
LEMMA SpansCut ==
    ASSUME NEW new, NEW p, NEW np, NEW ks, NEW cs, NEW N, NEW half, InnerHalved(new, p, np, ks, cs, N, half),
           NEW l, NEW h, NEW K, NEW lo, NEW hi, Spans(ks, cs, l, h, K, lo, hi),
           NEW mid, mid = hi[cs[half + 1]]
    PROVE  /\ Spans(new[p].keys, new[p].children, l, mid, K, lo, hi)
           /\ Spans(new[np].keys, new[np].children, mid + 1, h, K, lo, hi)
           /\ ks[half + 1] = K[mid] /\ lo[cs[half + 2]] = mid + 1
<1>1. /\ N \in Nat /\ half \in 1..(N - 1) /\ Len(ks) = N
      /\ Len(new[p].keys) = half /\ Len(new[np].keys) = (N - 1) - half
      /\ \A n \in 1..half : new[p].keys[n] = ks[n]
      /\ \A n \in 1..(half + 1) : new[p].children[n] = cs[n]
      /\ \A n \in 1..((N - 1) - half) : new[np].keys[n] = ks[half + 1 + n]
      /\ \A n \in 1..(N - half) : new[np].children[n] = cs[half + 1 + n]
  BY DEF InnerHalved
<1>2. /\ lo[cs[1]] = l /\ hi[cs[N + 1]] = h
      /\ \A i \in 1..N : lo[cs[i + 1]] = hi[cs[i]] + 1 /\ ks[i] = K[hi[cs[i]]]
  BY <1>1 DEF Spans
<1>3. half \in Nat /\ half + 1 \in 1..N /\ (half + 1) + 1 = half + 2
  BY <1>1
<1>4. ks[half + 1] = K[mid] /\ lo[cs[half + 2]] = mid + 1
  <2>1. lo[cs[(half + 1) + 1]] = hi[cs[half + 1]] + 1 /\ ks[half + 1] = K[hi[cs[half + 1]]]
    BY <1>2, <1>3
  <2> QED BY <1>3, <2>1
<1>5. Spans(new[p].keys, new[p].children, l, mid, K, lo, hi)
  <2>1. new[p].children[1] = cs[1] /\ new[p].children[half + 1] = cs[half + 1]
    BY <1>1, <1>3
  <2>2. ASSUME NEW i \in 1..half
        PROVE  /\ lo[new[p].children[i + 1]] = hi[new[p].children[i]] + 1
               /\ new[p].keys[i] = K[hi[new[p].children[i]]]
    <3>1. i \in 1..N /\ i \in 1..(half + 1) /\ i + 1 \in 1..(half + 1)
      BY <1>1, <1>3
    <3>2. new[p].children[i] = cs[i] /\ new[p].children[i + 1] = cs[i + 1] /\ new[p].keys[i] = ks[i]
      BY <1>1, <3>1
    <3> QED BY <1>2, <3>1, <3>2
  <2> QED BY <1>1, <1>2, <2>1, <2>2 DEF Spans
<1>6. Spans(new[np].keys, new[np].children, mid + 1, h, K, lo, hi)
  <2> DEFINE M == (N - 1) - half
  <2>1. M \in Nat /\ M + 1 \in 1..(N - half) /\ 1 \in 1..(N - half) /\ half + 1 + (M + 1) = N + 1
        /\ half + 1 + 1 = half + 2
    BY <1>1, <1>3
  <2>2. new[np].children[1] = cs[half + 2] /\ new[np].children[M + 1] = cs[N + 1]
    <3>1. new[np].children[1] = cs[half + 1 + 1] /\ new[np].children[M + 1] = cs[half + 1 + (M + 1)]
      BY <1>1, <2>1
    <3> HIDE DEF M
    <3> QED BY <2>1, <3>1
  <2>3. ASSUME NEW i \in 1..M
        PROVE  /\ lo[new[np].children[i + 1]] = hi[new[np].children[i]] + 1
               /\ new[np].keys[i] = K[hi[new[np].children[i]]]
    <3> DEFINE d == half + 1 + i
    <3>1. d \in 1..N /\ i \in 1..(N - half) /\ i + 1 \in 1..(N - half) /\ half + 1 + (i + 1) = d + 1
          /\ i \in 1..((N - 1) - half)
      BY <1>1, <1>3
    <3>2. new[np].children[i] = cs[d] /\ new[np].children[i + 1] = cs[half + 1 + (i + 1)] /\ new[np].keys[i] = ks[d]
      BY <1>1, <3>1
    <3> HIDE DEF d
    <3> QED BY <1>2, <3>1, <3>2
  <2>4. Len(new[np].keys) = M
    BY <1>1
  <2> HIDE DEF M
  <2> QED BY <1>2, <1>4, <2>2, <2>3, <2>4 DEF Spans
<1> QED BY <1>4, <1>5, <1>6

LEMMA SpansSame ==
    ASSUME NEW ks, Len(ks) \in Nat, NEW cs, NEW l, NEW h, NEW K, NEW lo, NEW hi, Spans(ks, cs, l, h, K, lo, hi),
           NEW lo2, NEW hi2,
           \A n \in 1..(Len(ks) + 1) : lo2[cs[n]] = lo[cs[n]] /\ hi2[cs[n]] = hi[cs[n]]
    PROVE  Spans(ks, cs, l, h, K, lo2, hi2)
<1>1. 1 \in 1..(Len(ks) + 1) /\ Len(ks) + 1 \in 1..(Len(ks) + 1)
  OBVIOUS
<1>2. \A i \in 1..Len(ks) : i \in 1..(Len(ks) + 1) /\ i + 1 \in 1..(Len(ks) + 1)
  OBVIOUS
<1> QED BY <1>1, <1>2 DEF Spans

\* Page np takes the leaves behind mid from page p.
Shared(p, np, mid, lo, hi, lo2, hi2) ==
    /\ lo2 \in [PageIds -> Nat] /\ hi2 \in [PageIds -> Nat]
    /\ lo2[np] = mid + 1 /\ hi2[np] = hi[p] /\ lo2[p] = lo[p] /\ hi2[p] = mid
    /\ \A q \in PageIds : q # np => lo2[q] = lo[q]
    /\ \A q \in PageIds : q # np /\ q # p => hi2[q] = hi[q]

\* An internal page has been cut in two, and its parent does not know the right half yet.
LEMMA InnerSplit ==
    ASSUME NEW pgs, NEW rt, NEW S, NEW m, NEW L, NEW K, NEW lo, NEW hi,
           Complete(pgs, rt, S, m, L, K, lo, hi),
           NEW p, NEW half, NEW np, NEW new, InnerSplitting(pgs, rt, p, half, np, new),
           NEW sep, sep = pgs[p].keys[half + 1],
           NEW x, NEW i, Hangs(pgs, rt, p, x, i)
    PROVE  \E lo2, hi2 : Open(new, rt, S, x, i, sep, np, m, L, K, lo2, hi2)
<1> DEFINE ks == pgs[p].keys
           cs == pgs[p].children
           N == Len(ks)
           mid == hi[cs[half + 1]]
           lo2 == [lo EXCEPT ![np] = mid + 1]
           hi2 == [hi EXCEPT ![np] = hi[p], ![p] = mid]
<1>1. /\ Linked(pgs) /\ p \in PageIds /\ pgs[p].kind = "internal" /\ p # None /\ np # None
      /\ \A n \in DOMAIN cs : cs[n] # p
      /\ np \in PageIds /\ pgs[np].kind = "missing" /\ rt \in PageIds /\ pgs[rt].kind # "missing"
      /\ new \in [PageIds -> Node] /\ \A q \in PageIds : q # p /\ q # np => new[q] = pgs[q]
  BY Constants DEF InnerSplitting
<1>2. /\ Fences(m, K) /\ Chain(pgs, m, L, lo, hi) /\ Sorted(pgs, m, L, K) /\ Holds(pgs, S)
      /\ Ranges(pgs, m, lo, hi) /\ OneParent(pgs) /\ Orphan(pgs, rt)
      /\ lo[rt] = 1 /\ hi[rt] = m /\ Inner(pgs, None, << >>, << >>, K, lo, hi)
  BY DEF Complete, Standing
<1>3. InnerHalved(new, p, np, ks, cs, N, half)
  BY InnerSplittingFacts
<1>4. Placed(pgs, p, m, K, lo, hi)
  BY <1>1, PlacedFacts
<1>5. /\ lo \in [PageIds -> Nat] /\ hi \in [PageIds -> Nat] /\ m \in Nat
  BY <1>2 DEF Ranges, Fences
<1>6. /\ N \in Nat /\ Len(cs) = N + 1 /\ cs \in Seq(PageIds) /\ ks \in Seq(Keys)
      /\ \A n \in 1..(N + 1) : /\ cs[n] \in PageIds /\ cs[n] # np /\ lo[cs[n]] \in Nat /\ hi[cs[n]] \in Nat
                               /\ 1 <= lo[cs[n]] /\ lo[cs[n]] <= hi[cs[n]] /\ hi[cs[n]] <= m
      /\ \A n \in 1..N : hi[cs[n]] \in 1..(m - 1)
  BY <1>1, <1>4, ChildFacts
<1>7. Spans(ks, cs, lo[p], hi[p], K, lo, hi)
  BY <1>4 DEF Placed
<1>8. half \in 1..(N - 1) /\ half \in Nat /\ p # np
      /\ half + 1 \in 1..N /\ half + 1 \in 1..(N + 1) /\ half + 2 \in 1..(N + 1)
      /\ 1 \in 1..(N + 1) /\ N + 1 \in 1..(N + 1) /\ 1 <= half + 1 /\ half + 2 <= N + 1
  <2>1. half \in 1..(N - 1) /\ N \in Nat /\ p # np
    BY <1>3 DEF InnerHalved
  <2> HIDE DEF N
  <2> QED BY <2>1
<1>9. mid \in Nat /\ mid \in 1..(m - 1)
  BY <1>6, <1>8
<1>10. /\ Spans(new[p].keys, new[p].children, lo[p], mid, K, lo, hi)
       /\ Spans(new[np].keys, new[np].children, mid + 1, hi[p], K, lo, hi)
       /\ ks[half + 1] = K[mid] /\ lo[cs[half + 2]] = mid + 1
  BY <1>3, <1>7, SpansCut
<1>11. Shared(p, np, mid, lo, hi, lo2, hi2)
  <2>1. mid + 1 \in Nat /\ hi[p] \in Nat
    BY <1>1, <1>5, <1>9
  <2> HIDE DEF mid
  <2> QED BY <1>1, <1>5, <1>8, <1>9, <2>1 DEF Shared
<1>12. \A c \in DOMAIN cs : cs[c] # p
  BY <1>1
<1>13. DOMAIN cs = 1..(N + 1) /\ sep = K[mid]
  BY <1>6, <1>10
<1> HIDE DEF lo2, hi2, ks, cs, N
<1>14. lo[p] <= mid /\ mid + 1 <= hi[p] /\ hi[p] <= m /\ 1 <= lo[p]
       /\ lo[p] \in Nat /\ hi[p] \in Nat
  <2>1. \A a, b \in 1..(N + 1) : a <= b => hi[cs[a]] <= hi[cs[b]]
    <3>1. \A n \in 1..Len(cs) : lo[cs[n]] <= hi[cs[n]]
      BY <1>6
    <3>2. Len(cs) = Len(ks) + 1
      BY <1>6 DEF N
    <3>3. \A a, b \in 1..Len(cs) : a <= b => hi[cs[a]] <= hi[cs[b]]
      BY <1>5, <1>6, <1>7, <3>1, <3>2, SpansOrder
    <3> QED BY <1>6, <3>3
  <2>2. lo[p] = lo[cs[1]] /\ hi[p] = hi[cs[N + 1]]
    BY <1>7 DEF Spans, N
  <2>3. hi[cs[1]] <= mid /\ hi[cs[half + 2]] <= hi[cs[N + 1]]
    BY <1>8, <2>1
  <2>4. lo[cs[1]] <= hi[cs[1]] /\ lo[cs[half + 2]] <= hi[cs[half + 2]] /\ hi[cs[N + 1]] <= m /\ 1 <= lo[cs[1]]
    BY <1>6, <1>8
  <2>5. lo[cs[1]] \in Nat /\ hi[cs[1]] \in Nat /\ hi[cs[half + 2]] \in Nat /\ hi[cs[N + 1]] \in Nat
    BY <1>6, <1>8
  <2> HIDE DEF mid
  <2> DEFINE a == lo[cs[1]]
             b == hi[cs[1]]
             c == hi[cs[half + 2]]
             d == hi[cs[N + 1]]
  <2>6. /\ a \in Nat /\ b \in Nat /\ c \in Nat /\ d \in Nat
        /\ b <= mid /\ c <= d /\ a <= b /\ mid + 1 <= c /\ d <= m /\ 1 <= a /\ lo[p] = a /\ hi[p] = d
    BY <1>10, <2>2, <2>3, <2>4, <2>5
  <2> HIDE DEF a, b, c, d
  <2>7. a <= mid /\ mid + 1 <= d
    BY <1>9, <2>6
  <2> QED BY <2>6, <2>7
<1> HIDE DEF mid
<1>15. /\ lo2 \in [PageIds -> Nat] /\ hi2 \in [PageIds -> Nat]
       /\ lo2[np] = mid + 1 /\ hi2[np] = hi[p] /\ lo2[p] = lo[p] /\ hi2[p] = mid
       /\ \A q \in PageIds : q # np => lo2[q] = lo[q]
       /\ \A q \in PageIds : q # np /\ q # p => hi2[q] = hi[q]
  BY <1>11 DEF Shared
<1>16. \A q \in PageIds : /\ pgs[q].kind = "leaf" => q # p /\ q # np
                          /\ new[q].kind = "leaf" => q # p /\ q # np
  BY <1>1, <1>3 DEF InnerHalved
<1>17. Chain(new, m, L, lo2, hi2) /\ Sorted(new, m, L, K) /\ Holds(new, S)
  <2>1. SameLeaves(pgs, new, lo, hi, lo2, hi2)
    BY <1>1, <1>15, <1>16 DEF SameLeaves
  <2> QED BY <1>2, <2>1, LeavesKept
<1>18. Ranges(new, m, lo2, hi2)
  <2>1. ASSUME NEW q \in PageIds, new[q].kind # "missing"
        PROVE  1 <= lo2[q] /\ lo2[q] <= hi2[q] /\ hi2[q] <= m
    <3>1. CASE q = np
      <4>1. lo2[q] = mid + 1 /\ hi2[q] = hi[p]
        BY <1>15, <3>1
      <4>2. 1 <= mid + 1
        BY <1>9
      <4> QED BY <1>14, <4>1, <4>2
    <3>2. CASE q = p
      <4>1. lo2[q] = lo[p] /\ hi2[q] = mid
        BY <1>15, <3>2
      <4>2. mid <= m
        BY <1>5, <1>9
      <4> QED BY <1>14, <4>1, <4>2
    <3>3. CASE q # np /\ q # p
      <4>1. lo2[q] = lo[q] /\ hi2[q] = hi[q] /\ pgs[q].kind # "missing"
        BY <1>1, <1>15, <2>1, <3>3
      <4> QED BY <1>2, <4>1 DEF Ranges
    <3> QED BY <3>1, <3>2, <3>3
  <2> QED BY <1>15, <2>1 DEF Ranges
<1>19. OneParent(new) /\ Orphan(new, rt) /\ Orphan(new, np) /\ np # rt
  <2>1. Orphan(pgs, np) /\ np # rt
    BY <1>1, FreshOrphan
  <2> QED BY <1>2, <2>1, KidsShared
<1>20. Standing(new, rt, S, m, L, K, lo2, hi2)
  BY <1>2, <1>17, <1>18, <1>19 DEF Standing
<1>21. \A n \in 1..(N + 1) : lo2[cs[n]] = lo[cs[n]] /\ hi2[cs[n]] = hi[cs[n]]
  BY <1>6, <1>12, <1>13, <1>15
<1>22. Spans(new[p].keys, new[p].children, lo2[p], hi2[p], K, lo2, hi2)
  <2>1. Len(new[p].keys) = half /\ \A n \in 1..(half + 1) : new[p].children[n] = cs[n]
    BY <1>3 DEF InnerHalved
  <2>2. \A n \in 1..(half + 1) : n \in 1..(N + 1)
    BY <1>6, <1>8
  <2>3. \A n \in 1..(half + 1) : lo2[new[p].children[n]] = lo[new[p].children[n]]
                               /\ hi2[new[p].children[n]] = hi[new[p].children[n]]
    BY <1>21, <2>1, <2>2
  <2>4. Len(new[p].keys) \in Nat /\ Len(new[p].keys) + 1 = half + 1
    BY <1>8, <2>1
  <2>5. Spans(new[p].keys, new[p].children, lo[p], mid, K, lo2, hi2)
    BY <1>10, <2>3, <2>4, SpansSame
  <2> QED BY <1>15, <2>5
<1>23. Spans(new[np].keys, new[np].children, lo2[np], hi2[np], K, lo2, hi2)
  <2>1. Len(new[np].keys) = (N - 1) - half /\ \A n \in 1..(N - half) : new[np].children[n] = cs[half + 1 + n]
    BY <1>3 DEF InnerHalved
  <2>2. \A n \in 1..(N - half) : half + 1 + n \in 1..(N + 1)
    BY <1>6, <1>8
  <2>3. \A n \in 1..(N - half) : lo2[new[np].children[n]] = lo[new[np].children[n]]
                               /\ hi2[new[np].children[n]] = hi[new[np].children[n]]
    BY <1>21, <2>1, <2>2
  <2>4. Len(new[np].keys) \in Nat /\ Len(new[np].keys) + 1 = N - half
    BY <1>6, <1>8, <2>1
  <2>5. Spans(new[np].keys, new[np].children, mid + 1, hi[p], K, lo2, hi2)
    BY <1>10, <2>3, <2>4, SpansSame
  <2> QED BY <1>15, <2>5
<1>24. ASSUME NEW q \in PageIds, new[q].kind = "internal", q # p, q # np
       PROVE  /\ q # None /\ new[q] = pgs[q] /\ Placed(pgs, q, m, K, lo, hi)
              /\ lo2[q] = lo[q] /\ hi2[q] = hi[q]
              /\ Len(pgs[q].keys) \in Nat /\ DOMAIN pgs[q].children = 1..(Len(pgs[q].keys) + 1)
              /\ pgs[q].keys \in Seq(Keys) /\ pgs[q].children \in Seq(PageIds)
              /\ Len(pgs[q].children) = Len(pgs[q].keys) + 1
              /\ \A n \in 1..(Len(pgs[q].keys) + 1) : pgs[q].children[n] \in PageIds /\ pgs[q].children[n] # np
              /\ Spans(pgs[q].keys, pgs[q].children, lo[q], hi[q], K, lo, hi)
  <2>1. new[q] = pgs[q] /\ q # None /\ lo2[q] = lo[q] /\ hi2[q] = hi[q]
    BY <1>1, <1>15, <1>24, Constants
  <2>2. Placed(pgs, q, m, K, lo, hi)
    BY <1>1, <1>24, <2>1, PlacedFacts
  <2>3. /\ pgs[q].keys \in Seq(Keys) /\ pgs[q].children \in Seq(PageIds)
        /\ Len(pgs[q].keys) \in Nat /\ Len(pgs[q].children) = Len(pgs[q].keys) + 1
        /\ \A n \in 1..(Len(pgs[q].keys) + 1) : pgs[q].children[n] \in PageIds /\ pgs[q].children[n] # np
    BY <1>1, <2>2, ChildFacts
  <2>4. DOMAIN pgs[q].children = 1..(Len(pgs[q].keys) + 1)
    BY <2>3
  <2>5. Spans(pgs[q].keys, pgs[q].children, lo[q], hi[q], K, lo, hi)
    BY <2>2 DEF Placed
  <2> QED BY <2>1, <2>2, <2>3, <2>4, <2>5
<1>25. ASSUME NEW q \in PageIds, new[q].kind = "internal", q # p, q # np,
              \A n \in DOMAIN pgs[q].children : pgs[q].children[n] # p
       PROVE  Spans(new[q].keys, new[q].children, lo2[q], hi2[q], K, lo2, hi2)
  <2>1. \A n \in 1..(Len(pgs[q].keys) + 1) : lo2[pgs[q].children[n]] = lo[pgs[q].children[n]]
                                           /\ hi2[pgs[q].children[n]] = hi[pgs[q].children[n]]
    BY <1>15, <1>24, <1>25
  <2>2. Spans(pgs[q].keys, pgs[q].children, lo[q], hi[q], K, lo2, hi2)
    <3>1. Len(pgs[q].keys) \in Nat /\ Spans(pgs[q].keys, pgs[q].children, lo[q], hi[q], K, lo, hi)
      BY <1>24, <1>25
    <3> DEFINE kq == pgs[q].keys
               cq == pgs[q].children
    <3>2. /\ Len(kq) \in Nat /\ Spans(kq, cq, lo[q], hi[q], K, lo, hi)
          /\ \A n \in 1..(Len(kq) + 1) : lo2[cq[n]] = lo[cq[n]] /\ hi2[cq[n]] = hi[cq[n]]
      BY <2>1, <3>1
    <3> HIDE DEF kq, cq
    <3>3. Spans(kq, cq, lo[q], hi[q], K, lo2, hi2)
      BY <3>2, SpansSame
    <3> QED BY <3>3 DEF kq, cq
  <2> QED BY <1>24, <1>25, <2>2
<1>26. CASE x = None
  <2>1. p = rt
    BY <1>26 DEF Hangs
  <2>2. Spans(<<sep>>, <<rt, np>>, 1, m, K, lo2, hi2)
    <3>1. lo2[rt] = 1 /\ hi2[rt] = mid /\ lo2[np] = mid + 1 /\ hi2[np] = m
      BY <1>2, <1>15, <2>1
    <3>2. /\ Len(<<sep>>) = 1 /\ <<sep>>[1] = sep /\ <<rt, np>>[1] = rt /\ <<rt, np>>[2] = np
      OBVIOUS
    <3>3. \A a \in 1..1 : a = 1 /\ a + 1 = 2
      OBVIOUS
    <3>4. ASSUME NEW a \in 1..Len(<<sep>>)
          PROVE  /\ lo2[<<rt, np>>[a + 1]] = hi2[<<rt, np>>[a]] + 1
                 /\ <<sep>>[a] = K[hi2[<<rt, np>>[a]]]
      <4>1. a = 1 /\ a + 1 = 2
        BY <3>2, <3>3
      <4> QED BY <1>13, <3>1, <3>2, <4>1
    <3>5. hi2[<<rt, np>>[Len(<<sep>>) + 1]] = m /\ lo2[<<rt, np>>[1]] = 1
      BY <3>1, <3>2
    <3> QED BY <3>4, <3>5 DEF Spans
  <2>3. Inner(new, None, << >>, << >>, K, lo2, hi2)
    <3>1. ASSUME NEW q \in PageIds, new[q].kind = "internal"
          PROVE  q # None /\ Spans(new[q].keys, new[q].children, lo2[q], hi2[q], K, lo2, hi2)
      <4>1. CASE q = p \/ q = np
        BY <1>1, <1>22, <1>23, <4>1
      <4>2. CASE q # p /\ q # np
        <5>1. \A n \in DOMAIN pgs[q].children : pgs[q].children[n] # p
          BY <1>2, <2>1 DEF Orphan
        <5> QED BY <1>24, <1>25, <3>1, <4>2, <5>1
      <4> QED BY <4>1, <4>2
    <3> QED BY <3>1 DEF Inner
  <2>4. Open(new, rt, S, x, i, sep, np, m, L, K, lo2, hi2)
    BY <1>19, <1>20, <1>26, <2>2, <2>3 DEF Open
  <2> QED BY <2>4
<1>27. CASE x # None
  <2>1. x \in PageIds /\ pgs[x].kind = "internal" /\ i \in DOMAIN pgs[x].children /\ pgs[x].children[i] = p
    BY <1>27 DEF Hangs
  <2>2. p # rt /\ x # p /\ x # np
    BY <1>1, <1>2, <2>1 DEF Orphan, cs
  <2>3. new[x] = pgs[x] /\ lo2[rt] = 1 /\ hi2[rt] = m
    BY <1>1, <1>2, <1>15, <1>19, <2>1, <2>2
  <2>4. Gap(pgs[x].keys, pgs[x].children, i, sep, np, lo2[x], hi2[x], K, lo2, hi2)
    <3> DEFINE kx == pgs[x].keys
               cx == pgs[x].children
               M == Len(kx)
    <3>1. /\ kx \in Seq(Keys) /\ cx \in Seq(PageIds) /\ M \in Nat /\ Len(cx) = M + 1
          /\ i \in 1..(M + 1) /\ lo2[x] = lo[x] /\ hi2[x] = hi[x]
          /\ \A n \in 1..(M + 1) : cx[n] \in PageIds /\ cx[n] # np
          /\ Spans(kx, cx, lo[x], hi[x], K, lo, hi)
      BY <1>24, <2>1, <2>2, <2>3
    <3>2. \A n \in 1..(M + 1) : n # i => cx[n] # p
      <4>1. \A n \in DOMAIN cx : n # i => cx[n] # p
        BY <1>1, <1>2, <2>1, ParentOf
      <4>2. DOMAIN cx = 1..(M + 1)
        BY <3>1
      <4> QED BY <4>1, <4>2
    <3>3. cx[i] = p /\ sep \in Keys /\ np \in PageIds
      BY <1>1, <1>3, <2>1 DEF InnerHalved, ks
    <3> HIDE DEF kx, cx, M
    <3>4. /\ lo[cx[1]] = lo[x] /\ hi[cx[M + 1]] = hi[x]
          /\ \A n \in 1..M : lo[cx[n + 1]] = hi[cx[n]] + 1 /\ kx[n] = K[hi[cx[n]]]
      BY <3>1 DEF Spans, M
    <3>5. \A n \in 1..(M + 1) : lo2[cx[n]] = lo[cx[n]] /\ (n # i => hi2[cx[n]] = hi[cx[n]])
      BY <1>15, <3>1, <3>2
    <3>6. 1 \in 1..(M + 1) /\ M + 1 \in 1..(M + 1) /\ \A n \in 1..M : n \in 1..(M + 1) /\ n + 1 \in 1..(M + 1)
      BY <3>1
    <3>7. lo2[cx[1]] = lo2[x]
      BY <3>1, <3>4, <3>5, <3>6
    <3>8. IF i = M + 1 THEN hi2[np] = hi2[x] ELSE hi2[cx[M + 1]] = hi2[x]
      BY <1>15, <3>1, <3>3, <3>4, <3>5, <3>6
    <3>9. \A n \in 1..M : n # i => lo2[cx[n + 1]] = hi2[cx[n]] + 1 /\ kx[n] = K[hi2[cx[n]]]
      BY <3>4, <3>5, <3>6
    <3>10. lo2[np] = hi2[cx[i]] + 1 /\ sep = K[hi2[cx[i]]]
      BY <1>13, <1>15, <3>3
    <3>11. i <= M => lo2[cx[i + 1]] = hi2[np] + 1 /\ kx[i] = K[hi2[np]]
      <4>1. i <= M => i \in 1..M
        BY <3>1
      <4> QED BY <1>15, <3>3, <3>4, <3>5, <3>6, <4>1
    <3>12. Gap(kx, cx, i, sep, np, lo2[x], hi2[x], K, lo2, hi2)
      BY <3>1, <3>3, <3>7, <3>8, <3>9, <3>10, <3>11 DEF Gap, M
    <3> QED BY <3>12 DEF kx, cx
  <2>5. Spans(InsertAt(new[x].keys, i, sep), InsertAt(new[x].children, i + 1, np), lo2[x], hi2[x], K, lo2, hi2)
    BY <2>3, <2>4, GapFilled
  <2>6. Inner(new, x, InsertAt(new[x].keys, i, sep), InsertAt(new[x].children, i + 1, np), K, lo2, hi2)
    <3>1. ASSUME NEW q \in PageIds, new[q].kind = "internal", q # x
          PROVE  Spans(new[q].keys, new[q].children, lo2[q], hi2[q], K, lo2, hi2)
      <4>1. CASE q = p \/ q = np
        BY <1>22, <1>23, <4>1
      <4>2. CASE q # p /\ q # np
        <5>1. \A n \in DOMAIN pgs[q].children : pgs[q].children[n] # p
          BY <1>1, <1>2, <2>1, <3>1, ParentOf
        <5> QED BY <1>25, <3>1, <4>2, <5>1
      <4> QED BY <4>1, <4>2
    <3> QED BY <2>5, <3>1 DEF Inner
  <2>7. Open(new, rt, S, x, i, sep, np, m, L, K, lo2, hi2)
    BY <1>19, <1>20, <1>27, <2>3, <2>6 DEF Open
  <2> QED BY <2>7
<1> QED BY <1>26, <1>27

\* The root has been cut in two, and both halves get a new root as their parent.
LEMMA RootRaised ==
    ASSUME NEW pgs, Linked(pgs), NEW rt \in PageIds, pgs[rt].kind # "missing", NEW S, NEW i,
           NEW sep \in Keys, NEW right \in PageIds, pgs[right].kind # "missing",
           NEW m, NEW L, NEW K, NEW lo, NEW hi, Open(pgs, rt, S, None, i, sep, right, m, L, K, lo, hi),
           NEW np \in PageIds, pgs[np].kind = "missing",
           NEW new, new = [pgs EXCEPT ![np] = Internal(<<sep>>, <<rt, right>>)]
    PROVE  \E lo2, hi2 : Complete(new, np, S, m, L, K, lo2, hi2)
<1> DEFINE cs == <<rt, right>>
           lo2 == [lo EXCEPT ![np] = 1]
           hi2 == [hi EXCEPT ![np] = m]
<1>1. /\ Fences(m, K) /\ Chain(pgs, m, L, lo, hi) /\ Sorted(pgs, m, L, K) /\ Holds(pgs, S)
      /\ Ranges(pgs, m, lo, hi) /\ OneParent(pgs) /\ Orphan(pgs, rt) /\ Orphan(pgs, right) /\ right # rt
      /\ Spans(<<sep>>, cs, 1, m, K, lo, hi) /\ Inner(pgs, None, << >>, << >>, K, lo, hi)
  BY DEF Open, Standing
<1>2. pgs \in [PageIds -> Node] /\ np # rt /\ np # right /\ np # None
  BY Constants DEF Linked
<1>3. /\ <<sep>> \in Seq(Keys) /\ cs \in Seq(PageIds) /\ Len(<<sep>>) = 1 /\ DOMAIN cs = 1..2
      /\ cs[1] = rt /\ cs[2] = right
  OBVIOUS
<1>4. /\ lo \in [PageIds -> Nat] /\ hi \in [PageIds -> Nat] /\ m \in Nat /\ m >= 1
  BY <1>1 DEF Ranges, Fences
<1>5. /\ Internal(<<sep>>, cs) \in Node /\ Internal(<<sep>>, cs).kind = "internal"
      /\ Internal(<<sep>>, cs).keys = <<sep>> /\ Internal(<<sep>>, cs).children = cs
  BY <1>3, InternalFacts
<1>6. /\ lo2 \in [PageIds -> Nat] /\ hi2 \in [PageIds -> Nat] /\ lo2[np] = 1 /\ hi2[np] = m
      /\ \A q \in PageIds : q # np => lo2[q] = lo[q] /\ hi2[q] = hi[q]
  BY <1>4
<1> HIDE DEF cs, lo2, hi2
<1>7. /\ new \in [PageIds -> Node] /\ new[np] = Internal(<<sep>>, cs)
      /\ \A q \in PageIds : q # np => new[q] = pgs[q]
  BY <1>2, <1>5 DEF cs
<1>8. new[np].kind = "internal" /\ new[np].keys = <<sep>> /\ new[np].children = cs
  BY <1>5, <1>7
<1>9. Chain(new, m, L, lo2, hi2) /\ Sorted(new, m, L, K) /\ Holds(new, S)
  <2>1. SameLeaves(pgs, new, lo, hi, lo2, hi2)
    BY <1>6, <1>7, <1>8 DEF SameLeaves
  <2> QED BY <1>1, <2>1, LeavesKept
<1>10. Ranges(new, m, lo2, hi2)
  <2>1. ASSUME NEW q \in PageIds, new[q].kind # "missing"
        PROVE  1 <= lo2[q] /\ lo2[q] <= hi2[q] /\ hi2[q] <= m
    <3>1. CASE q = np
      BY <1>4, <1>6, <3>1
    <3>2. CASE q # np
      BY <1>1, <1>6, <1>7, <2>1, <3>2 DEF Ranges
    <3> QED BY <3>1, <3>2
  <2> QED BY <1>6, <2>1 DEF Ranges
<1>11. \A q, n, c : Kid(new, q, n, c) =>
            \/ q # np /\ Kid(pgs, q, n, c)
            \/ q = np /\ n = 1 /\ c = rt
            \/ q = np /\ n = 2 /\ c = right
  <2> SUFFICES ASSUME NEW q, NEW n, NEW c, Kid(new, q, n, c)
               PROVE  \/ q # np /\ Kid(pgs, q, n, c)
                      \/ q = np /\ n = 1 /\ c = rt
                      \/ q = np /\ n = 2 /\ c = right
    OBVIOUS
  <2>1. CASE q # np
    BY <1>7, <2>1 DEF Kid
  <2>2. CASE q = np
    <3>1. n \in 1..2 /\ cs[n] = c
      BY <1>3, <1>8, <2>2 DEF Kid
    <3>2. n = 1 \/ n = 2
      BY <3>1
    <3> QED BY <1>3, <2>2, <3>1, <3>2
  <2> QED BY <2>1, <2>2
<1>12. /\ \A q, n, r, k, c : Kid(pgs, q, n, c) /\ Kid(pgs, r, k, c) => q = r /\ n = k
       /\ \A q, n : ~Kid(pgs, q, n, rt) /\ ~Kid(pgs, q, n, right)
  BY <1>1, OneParentKids, OrphanKids
<1>13. OneParent(new)
  <2>1. ASSUME NEW q, NEW n, NEW r, NEW k, NEW c, Kid(new, q, n, c), Kid(new, r, k, c)
        PROVE  q = r /\ n = k
    BY <1>1, <1>11, <1>12, <2>1
  <2> QED BY <2>1, OneParentKids
<1>14. Orphan(new, np)
  <2>1. Orphan(pgs, np)
    BY FreshOrphan
  <2>2. \A q, n : ~Kid(new, q, n, np)
    BY <1>2, <1>11, <2>1, OrphanKids
  <2> QED BY <2>2, OrphanKids
<1>15. Inner(new, None, << >>, << >>, K, lo2, hi2)
  <2> SUFFICES ASSUME NEW q \in PageIds, new[q].kind = "internal"
               PROVE  q # None /\ Spans(new[q].keys, new[q].children, lo2[q], hi2[q], K, lo2, hi2)
    BY DEF Inner
  <2>1. q # None
    BY Constants
  <2>2. CASE q = np
    <3>1. \A n \in 1..2 : lo2[cs[n]] = lo[cs[n]] /\ hi2[cs[n]] = hi[cs[n]]
      <4> TAKE n \in 1..2
      <4>1. n = 1 \/ n = 2
        OBVIOUS
      <4>2. cs[n] \in PageIds /\ cs[n] # np
        BY <1>2, <1>3, <4>1
      <4> QED BY <1>6, <4>2
    <3> DEFINE ks == <<sep>>
    <3>2. Len(ks) \in Nat /\ Len(ks) + 1 = 2 /\ Spans(ks, cs, 1, m, K, lo, hi)
      BY <1>1, <1>3
    <3> HIDE DEF ks
    <3>3. Spans(ks, cs, 1, m, K, lo2, hi2)
      BY <3>1, <3>2, SpansSame
    <3> QED BY <1>6, <1>8, <2>1, <2>2, <3>3 DEF ks
  <2>3. CASE q # np
    <3> DEFINE ks == pgs[q].keys
               cq == pgs[q].children
    <3>1. /\ new[q].keys = ks /\ new[q].children = cq /\ pgs[q].kind = "internal"
          /\ Spans(ks, cq, lo[q], hi[q], K, lo, hi) /\ lo2[q] = lo[q] /\ hi2[q] = hi[q]
      BY <1>1, <1>6, <1>7, <2>1, <2>3 DEF Inner
    <3>2. ks \in Seq(Keys) /\ cq \in Seq(PageIds) /\ Len(cq) = Len(ks) + 1
      BY <1>2, <3>1, NodeFields DEF Linked
    <3>3. Len(ks) \in Nat /\ DOMAIN cq = 1..(Len(ks) + 1) /\ \A n \in 1..(Len(ks) + 1) : cq[n] \in PageIds
      BY <3>2
    <3>4. \A n \in DOMAIN cq : pgs[cq[n]].kind # "missing"
      BY DEF Linked
    <3>5. \A n \in 1..(Len(ks) + 1) : lo2[cq[n]] = lo[cq[n]] /\ hi2[cq[n]] = hi[cq[n]]
      BY <1>6, <3>3, <3>4, SMTT(30)
    <3> HIDE DEF ks, cq
    <3>6. Spans(ks, cq, lo[q], hi[q], K, lo2, hi2)
      BY <3>1, <3>3, <3>5, SpansSame
    <3> QED BY <2>1, <3>1, <3>6
  <2> QED BY <2>2, <2>3
<1>16. Complete(new, np, S, m, L, K, lo2, hi2)
  BY <1>1, <1>6, <1>9, <1>10, <1>13, <1>14, <1>15 DEF Complete, Standing
<1> QED BY <1>16

-----------------------------------------------------------------------------
(* The steps of an insert. *)

\* The frames say where the page below them hangs.
LEMMA TrailHangs ==
    ASSUME NEW pgs, NEW rt, NEW fs \in Seq(Frame), NEW p, Trail(pgs, rt, fs, p),
           NEW new, \A k \in DOMAIN fs : new[fs[k].page] = pgs[fs[k].page]
    PROVE  Hangs(new, rt, p, Above(fs), Branch(fs))
<1>1. Len(fs) \in Nat /\ DOMAIN fs = 1..Len(fs) /\ \A k \in 1..Len(fs) : fs[k].page \in PageIds
  BY FrameFacts
<1>2. CASE Len(fs) = 0
  <2>1. Above(fs) = None /\ p = rt
    BY <1>2 DEF Above, Trail
  <2> QED BY <2>1 DEF Hangs
<1>3. CASE Len(fs) # 0
  <2> DEFINE k == Len(fs)
  <2>1. k \in DOMAIN fs /\ fs[k].page \in PageIds
    BY <1>1, <1>3
  <2>2. Above(fs) = fs[k].page /\ Branch(fs) = fs[k].child /\ fs[k].page # None
    BY <1>3, <2>1, Constants DEF Above, Branch
  <2>3. /\ pgs[fs[k].page].kind = "internal" /\ fs[k].child \in DOMAIN pgs[fs[k].page].children
        /\ pgs[fs[k].page].children[fs[k].child] = p /\ new[fs[k].page] = pgs[fs[k].page]
    BY <2>1 DEF Trail
  <2> QED BY <2>1, <2>2, <2>3 DEF Hangs
<1> QED BY <1>2, <1>3

\* A step of an insert leaves the committed tree alone.
LEMMA CommittedKept ==
    ASSUME IndexInv, UNCHANGED <<saved, kept>>, pc' \notin {"find", "collect", "found", "broken"}
    PROVE  /\ (\E m, L, K, lo, hi : CommittedTree(m, L, K, lo, hi))'
           /\ LookupExact'
<1>1. PICK m, L, K, lo, hi : CommittedTree(m, L, K, lo, hi)
  BY DEF IndexInv
<1>2. Complete(saved'.pages, saved'.root, kept', m, L, K, lo, hi)
  BY <1>1 DEF CommittedTree
<1>3. CommittedTree(m, L, K, lo, hi)'
  BY <1>2 DEF CommittedTree
<1>4. LookupExact'
  BY DEF LookupExact
<1> QED BY <1>3, <1>4

LEMMA RaiseIndex ==
    ASSUME IndexInv, EndCall, failed' = TRUE, UNCHANGED <<saved, kept>>
    PROVE  IndexInv'
<1>1. pc' = "idle"
  BY DEF EndCall
<1>2. (\E m, L, K, lo, hi : CommittedTree(m, L, K, lo, hi))' /\ LookupExact'
  BY <1>1, CommittedKept
<1> QED BY <1>1, <1>2 DEF IndexInv

\* An insert has returned: the tree is complete again, and holds one entry more.
LEMMA ReturnIndex ==
    ASSUME IndexInv, EndCall, ~failed, entries' = entries \cup {arg}, UNCHANGED <<saved, kept, failed>>,
           NEW m, NEW L, NEW K, NEW lo, NEW hi,
           Complete(pages', root', entries \cup {arg}, m, L, K, lo, hi)
    PROVE  IndexInv'
<1>1. pc' = "idle"
  BY DEF EndCall
<1>2. (\E m2, L2, K2, lo2, hi2 : CommittedTree(m2, L2, K2, lo2, hi2))' /\ LookupExact'
  BY <1>1, CommittedKept
<1>3. WorkingTree(m, L, K, lo, hi)'
  BY <1>1 DEF WorkingTree
<1> QED BY <1>1, <1>2, <1>3 DEF IndexInv

\* A page has been cut in two, and the insert goes on in its caller.
LEMMA UpIndex ==
    ASSUME IndexInv, ~failed, pc' = "up", UNCHANGED <<root, saved, arg, failed, entries, kept>>,
           NEW m, NEW L, NEW K, NEW lo, NEW hi,
           Open(pages', root, entries \cup {arg}, Above(path'), Branch(path'),
                split'.separator, split'.right, m, L, K, lo, hi)
    PROVE  IndexInv'
<1>1. (\E m2, L2, K2, lo2, hi2 : CommittedTree(m2, L2, K2, lo2, hi2))' /\ LookupExact'
  BY CommittedKept
<1>2. Rising(m, L, K, lo, hi)'
  BY DEF Rising
<1>3. WorkingTree(m, L, K, lo, hi)'
  BY <1>2 DEF WorkingTree
<1> QED BY <1>1, <1>3 DEF IndexInv

LEMMA LeafIndex ==
    ASSUME WalkInv, IndexInv, InsertInLeaf
    PROVE  IndexInv'
<1> DEFINE es == WithEntry(pages[at].entries, arg)
           S == entries \cup {arg}
           V == [pages EXCEPT ![at] = Leaf(pages[at].next, es)]
<1>1. /\ pc = "down" /\ pages[at].kind = "leaf" /\ at \in PageIds /\ arg \in Entry
      /\ pages \in [PageIds -> Node] /\ Shaped(pages, nextPage) /\ Trail(pages, root, path, at)
      /\ path \in Seq(Frame) /\ root \in PageIds /\ pages[root].kind # "missing"
      /\ nextPage \in Nat /\ (nextPage <= MaxPage => nextPage \in PageIds)
  BY WalkFacts DEF InsertInLeaf, WalkInv
<1>2. ~failed
  BY <1>1 DEF IndexInv
<1>3. PICK m, L, K, lo, hi : WorkingTree(m, L, K, lo, hi)
  BY <1>2 DEF IndexInv
<1>4. /\ Complete(pages, root, entries, m, L, K, lo, hi) /\ Heading(at, arg.key, m, K, lo, hi)
      /\ \A f \in entries : f.row # arg.row
  BY <1>1, <1>3 DEF WorkingTree, NewRow
<1>5. Linked(pages) /\ IsLeaf(pages, at)
  BY <1>1, ShapedLinked DEF IsLeaf
<1>6. Linked(V) /\ Complete(V, root, S, m, L, K, lo, hi) /\ IsLeaf(V, at)
  BY <1>1, <1>4, <1>5, LeafPut
<1>7. pages[at].next \in PageIds \cup {None} /\ pages[at].entries \in Seq(Entry)
      /\ Len(pages[at].entries) <= MaxKeys
  BY <1>1, NodeFields DEF Shaped
<1>8. es \in Seq(Entry) /\ Len(es) = Len(pages[at].entries) + 1
  BY <1>1, <1>7, WithEntryType
<1>9. IF Len(es) <= MaxKeys
      THEN StoreAndReturn(at, Leaf(pages[at].next, es))
      ELSE SplitLeaf(pages[at].next, es)
  BY DEF InsertInLeaf
<1>10. /\ \A q \in PageIds : q # at => V[q] = pages[q]
       /\ V[at] = Leaf(pages[at].next, es) /\ V[at].entries = es /\ V[at].next = pages[at].next
       /\ V \in [PageIds -> Node]
  <2>1. /\ Leaf(pages[at].next, es).entries = es /\ Leaf(pages[at].next, es).next = pages[at].next
    BY <1>7, <1>8, LeafFacts
  <2> HIDE DEF es
  <2> QED BY <1>1, <1>6, <2>1 DEF Linked
<1> HIDE DEF es
<1>11. CASE Len(es) <= MaxKeys
  <2>1. StoreAndReturn(at, Leaf(pages[at].next, es))
    BY <1>9, <1>11
  <2>2. CASE Raise
    BY <2>2, RaiseIndex DEF Raise
  <2>3. CASE pages' = V /\ Return(root)
    BY <1>2, <1>6, <2>3, ReturnIndex DEF Return
  <2> QED BY <2>1, <2>2, <2>3 DEF StoreAndReturn
<1>12. CASE ~(Len(es) <= MaxKeys)
  <2> DEFINE half == Len(es) \div 2
             left == Leaf(nextPage, Front_(es, half))
             right == Leaf(pages[at].next, Rest(es, half))
             sep == es[half + 1].key
  <2>1. Len(es) = MaxKeys + 1 /\ MaxKeys \in Nat
    <3>1. Len(pages[at].entries) \in Nat /\ MaxKeys \in Nat
      BY <1>7, Constants
    <3> QED BY <1>7, <1>8, <1>12, <3>1
  <2>2. half \in 1..MaxKeys
    BY <1>8, <2>1, LeafHalves
  <2>3. half \in 1..(Len(es) - 1)
    BY <2>1, <2>2
  <2>4. SplitInto(at, left, right, sep, path)
    BY <1>9, <1>12 DEF SplitLeaf
  <2> HIDE DEF half
  <2>5. CASE Raise
    BY <2>5, RaiseIndex DEF Raise
  <2>6. CASE /\ Allocate
             /\ pages' = [pages EXCEPT ![at] = left, ![nextPage] = right]
             /\ split' = [separator |-> sep, right |-> nextPage]
             /\ pc' = "up" /\ path' = path
             /\ UNCHANGED <<root, saved, arg, at, out, failed, entries, kept, faults>>
    <3>1. nextPage \in PageIds
      BY <1>1, <2>6 DEF Allocate
    <3>2. pages[nextPage].kind = "missing" /\ nextPage # at /\ nextPage # root
      BY <1>1, <3>1 DEF Shaped
    <3>3. V[nextPage].kind = "missing" /\ V[root].kind # "missing"
      BY <1>1, <1>6, <1>10, <3>1, <3>2 DEF IsLeaf
    <3>4. /\ pages'[at] = left /\ pages'[nextPage] = right
          /\ \A q \in PageIds : q # at /\ q # nextPage => pages'[q] = V[q]
      <4> HIDE DEF left, right
      <4> QED BY <1>1, <1>10, <2>6, <3>1, <3>2
    <3>5. pages' \in [PageIds -> Node]
      <4>1. WalkInv'
        BY InsertInLeafWalk
      <4>2. TypeOK'
        BY <4>1 DEF WalkInv
      <4> QED BY <4>2 DEF TypeOK
    <3>6. LeafCut(V, root, S, m, L, K, lo, hi, at, half, nextPage, pages')
      <4> HIDE DEF V
      <4> QED BY <1>1, <1>6, <1>10, <2>3, <3>1, <3>3, <3>4, <3>5 DEF LeafCut
    <3>7. Hangs(V, root, at, Above(path), Branch(path))
      <4>1. \A k \in DOMAIN path : path[k].page \in PageIds /\ path[k].page # at
        <5>1. DOMAIN path = 1..Len(path) /\ \A k \in 1..Len(path) : path[k].page \in PageIds
          BY <1>1, FrameFacts
        <5>2. \A k \in DOMAIN path : path[k].page # at
          BY <1>1 DEF Trail
        <5> QED BY <5>1, <5>2
      <4>2. \A k \in DOMAIN path : V[path[k].page] = pages[path[k].page]
        BY <1>10, <4>1
      <4> QED BY <1>1, <4>2, TrailHangs
    <3>8. V[at].entries[half + 1].key = sep
      BY <1>10
    <3> HIDE DEF V, sep, S
    <3>9. PICK m2, L2, K2, lo2, hi2 :
            Open(pages', root, S, Above(path), Branch(path), sep, nextPage, m2, L2, K2, lo2, hi2)
      BY <3>6, <3>7, <3>8, LeafSplit
    <3>10. split'.separator = sep /\ split'.right = nextPage
      BY <2>6
    <3>11. Open(pages', root, entries \cup {arg}, Above(path'), Branch(path'),
                split'.separator, split'.right, m2, L2, K2, lo2, hi2)
      BY <2>6, <3>9, <3>10 DEF S
    <3> QED BY <1>2, <2>6, <3>11, UpIndex
  <2> QED BY <2>4, <2>5, <2>6 DEF SplitInto, OutOfPages
<1> QED BY <1>11, <1>12

LEMMA ParentIndex ==
    ASSUME WalkInv, IndexInv, InsertInParent
    PROVE  IndexInv'
<1> DEFINE p == path[Len(path)].page
           i == path[Len(path)].child
           S == entries \cup {arg}
           node == Internal(ParentKeys, ParentChildren)
           V == [pages EXCEPT ![p] = node]
<1>1. /\ pc = "up" /\ path # << >>
      /\ IF Len(ParentKeys) <= MaxKeys THEN StoreAndReturn(p, node)
         ELSE SplitInternal(p, ParentKeys, ParentChildren)
  BY InsertInParentFacts
<1>2. PICK lev : Levels(pages, lev) /\ lev[split.right] = lev[Pending]
  BY <1>1 DEF WalkInv
<1>3. /\ p \in PageIds /\ pages[p].kind = "internal"
      /\ i \in 1..Len(pages[p].children) /\ pages[p].children \in Seq(PageIds)
      /\ split.right \in PageIds /\ split.separator \in Keys
      /\ ParentKeys \in Seq(Keys) /\ Len(ParentKeys) \in Nat /\ Len(ParentKeys) <= MaxKeys + 1
      /\ ParentChildren \in Seq(PageIds) /\ Len(ParentChildren) = Len(ParentKeys) + 1
      /\ \A n \in 1..Len(ParentChildren) : lev[ParentChildren[n]] + 1 = lev[p]
  BY <1>1, <1>2, ParentFacts
<1>4. /\ pages \in [PageIds -> Node] /\ Shaped(pages, nextPage) /\ path \in Seq(Frame)
      /\ root \in PageIds /\ pages[root].kind # "missing" /\ pages[split.right].kind # "missing"
      /\ nextPage \in Nat /\ (nextPage <= MaxPage => nextPage \in PageIds)
  BY <1>1, WalkFacts DEF WalkInv
<1>5. Linked(pages)
  BY <1>4, ShapedLinked
<1>6. ~failed
  BY <1>1 DEF IndexInv
<1>7. PICK m, L, K, lo, hi : WorkingTree(m, L, K, lo, hi)
  BY <1>6 DEF IndexInv
<1>8. Above(path) = p /\ Branch(path) = i
  <2>1. Len(path) # 0
    BY <1>1, <1>4
  <2> QED BY <2>1 DEF Above, Branch
<1>9. Open(pages, root, S, p, i, split.separator, split.right, m, L, K, lo, hi)
  BY <1>1, <1>7, <1>8 DEF WorkingTree, Rising
<1>10. Filled(pages, V, p, i, split.separator, split.right)
  <2>1. i \in DOMAIN pages[p].children
    BY <1>3
  <2>2. node = Internal(InsertAt(pages[p].keys, i, split.separator),
                        InsertAt(pages[p].children, i + 1, split.right))
    BY DEF ParentKeys, ParentChildren
  <2>3. V = [pages EXCEPT ![p] = Internal(InsertAt(pages[p].keys, i, split.separator),
                        InsertAt(pages[p].children, i + 1, split.right))]
    BY <2>2
  <2> HIDE DEF V, p, i, node
  <2> QED BY <1>3, <1>4, <1>5, <2>1, <2>3 DEF Filled
<1>11. Linked(V) /\ Complete(V, root, S, m, L, K, lo, hi)
  <2> HIDE DEF V, p, i, S
  <2> QED BY <1>9, <1>10, GapClosed
<1>12. /\ node.kind = "internal" /\ node.keys = ParentKeys /\ node.children = ParentChildren
       /\ V[p] = node /\ \A q \in PageIds : q # p => V[q] = pages[q]
  <2>1. node.kind = "internal" /\ node.keys = ParentKeys /\ node.children = ParentChildren
    BY <1>3, InternalFacts
  <2> HIDE DEF node, p
  <2> QED BY <1>3, <1>4, <2>1
<1> HIDE DEF p, i, S
<1>13. CASE Len(ParentKeys) <= MaxKeys
  <2>1. StoreAndReturn(p, node)
    BY <1>1, <1>13
  <2>2. CASE Raise
    BY <2>2, RaiseIndex DEF Raise
  <2>3. CASE pages' = V /\ Return(root)
    <3>1. Complete(pages', root', entries \cup {arg}, m, L, K, lo, hi)
      BY <1>11, <2>3 DEF Return, S
    <3> QED BY <1>6, <2>3, <3>1, ReturnIndex DEF Return
  <2> QED BY <2>1, <2>2, <2>3 DEF StoreAndReturn
<1>14. CASE ~(Len(ParentKeys) <= MaxKeys)
  <2> DEFINE ks == ParentKeys
             cs == ParentChildren
             half == Len(ks) \div 2
             left == Internal(Front_(ks, half), Front_(cs, half + 1))
             right == Internal(Rest(ks, half + 1), Rest(cs, half + 1))
             sep == ks[half + 1]
  <2>1. Len(ks) = MaxKeys + 1
    BY <1>3, <1>14, Constants
  <2>2. SplitInto(p, left, right, sep, Front(path))
    BY <1>1, <1>14 DEF SplitInternal
  <2>3. half = Len(ks) \div 2
    OBVIOUS
  <2>4. CASE Raise
    BY <2>4, RaiseIndex DEF Raise
  <2> HIDE DEF half, ks, cs
  <2>5. CASE /\ Allocate
             /\ pages' = [pages EXCEPT ![p] = left, ![nextPage] = right]
             /\ split' = [separator |-> sep, right |-> nextPage]
             /\ pc' = "up" /\ path' = Front(path)
             /\ UNCHANGED <<root, saved, arg, at, out, failed, entries, kept, faults>>
    <3>1. nextPage \in PageIds
      BY <1>4, <2>5 DEF Allocate
    <3>2. pages[nextPage].kind = "missing" /\ nextPage # p /\ nextPage # root
      BY <1>3, <1>4, <3>1 DEF Shaped
    <3>3. /\ V[nextPage].kind = "missing" /\ V[root].kind # "missing" /\ V[p].kind = "internal"
          /\ V[p].keys = ks /\ V[p].children = cs
      <4> HIDE DEF V, node
      <4> QED BY <1>4, <1>12, <3>1, <3>2 DEF ks, cs
    <3>4. /\ pages'[p] = left /\ pages'[nextPage] = right
          /\ \A q \in PageIds : q # p /\ q # nextPage => pages'[q] = V[q]
      <4> HIDE DEF left, right, node
      <4> QED BY <1>3, <1>4, <1>12, <2>5, <3>1, <3>2
    <3>5. pages' \in [PageIds -> Node]
      <4>1. WalkInv'
        BY InsertInParentWalk
      <4>2. TypeOK'
        BY <4>1 DEF WalkInv
      <4> QED BY <4>2 DEF TypeOK
    <3>6. \A n \in DOMAIN V[p].children : V[p].children[n] # p
      <4>1. DOMAIN cs = 1..Len(cs)
        BY <1>3 DEF cs
      <4>2. \A n \in 1..Len(cs) : lev[cs[n]] + 1 = lev[p]
        BY <1>3 DEF cs
      <4>3. lev[p] \in Nat
        BY <1>2, <1>3 DEF Levels
      <4>4. lev[p] + 1 # lev[p]
        BY <4>3
      <4>5. \A n \in DOMAIN cs : cs[n] # p
        BY <4>1, <4>2, <4>4
      <4> QED BY <3>3, <4>5
    <3> HIDE DEF V, left, right, sep, node
    <3>7. InnerSplitting(V, root, p, half, nextPage, pages')
      <4>1. pages'[p] = Internal(Front_(V[p].keys, half), Front_(V[p].children, half + 1))
            /\ pages'[nextPage] = Internal(Rest(V[p].keys, half + 1), Rest(V[p].children, half + 1))
        BY <3>3, <3>4 DEF left, right
      <4>2. Len(V[p].keys) = MaxKeys + 1 /\ half = Len(V[p].keys) \div 2
        BY <2>1, <2>3, <3>3
      <4> QED BY <1>3, <1>4, <1>11, <3>1, <3>3, <3>4, <3>5, <3>6, <4>1, <4>2 DEF InnerSplitting
    <3>8. Hangs(V, root, p, Above(Front(path)), Branch(Front(path)))
      <4>1. /\ Front(path) \in Seq(Frame) /\ Trail(pages, root, Front(path), p)
            /\ \A k \in DOMAIN Front(path) : Front(path)[k].page # p
        BY <1>1, FramesAbove DEF p
      <4>2. DOMAIN Front(path) = 1..Len(Front(path))
            /\ \A k \in 1..Len(Front(path)) : Front(path)[k].page \in PageIds
        BY <4>1, FrameFacts
      <4>3. \A k \in DOMAIN Front(path) : V[Front(path)[k].page] = pages[Front(path)[k].page]
        BY <1>12, <4>1, <4>2
      <4> QED BY <4>1, <4>3, TrailHangs
    <3>9. sep = V[p].keys[half + 1]
      BY <3>3 DEF sep
    <3>10. PICK lo2, hi2 : Open(pages', root, S, Above(Front(path)), Branch(Front(path)),
                                sep, nextPage, m, L, K, lo2, hi2)
      BY <1>11, <3>7, <3>8, <3>9, InnerSplit
    <3>11. split'.separator = sep /\ split'.right = nextPage
      BY <2>5
    <3>12. Open(pages', root, entries \cup {arg}, Above(path'), Branch(path'),
                split'.separator, split'.right, m, L, K, lo2, hi2)
      BY <2>5, <3>10, <3>11 DEF S
    <3> QED BY <1>6, <2>5, <3>12, UpIndex
  <2> QED BY <2>2, <2>4, <2>5 DEF SplitInto, OutOfPages
<1> QED BY <1>13, <1>14

LEMMA RootIndex ==
    ASSUME WalkInv, IndexInv, NewRoot
    PROVE  IndexInv'
<1> DEFINE S == entries \cup {arg}
<1>1. pc = "up" /\ path = << >>
  BY DEF NewRoot
<1>2. CASE Raise
  BY <1>2, RaiseIndex DEF Raise
<1>3. CASE /\ Allocate
           /\ pages' = [pages EXCEPT ![nextPage] =
                          Internal(<<split.separator>>, <<root, split.right>>)]
           /\ Return(nextPage)
  <2>1. /\ Shaped(pages, nextPage) /\ root \in PageIds /\ pages[root].kind # "missing"
        /\ split.right \in PageIds /\ pages[split.right].kind # "missing" /\ split.separator \in Keys
        /\ nextPage \in Nat /\ (nextPage <= MaxPage => nextPage \in PageIds)
    BY <1>1, WalkFacts DEF WalkInv, TypeOK
  <2>2. nextPage \in PageIds
    BY <1>3, <2>1 DEF Allocate
  <2>3. pages[nextPage].kind = "missing" /\ Linked(pages)
    <3>1. nextPage >= nextPage
      BY <2>1
    <3>2. pages[nextPage].kind = "missing"
      BY <2>1, <2>2, <3>1 DEF Shaped
    <3> QED BY <2>1, <3>2, ShapedLinked
  <2>4. ~failed
    BY <1>1 DEF IndexInv
  <2>5. PICK m, L, K, lo, hi : WorkingTree(m, L, K, lo, hi)
    BY <2>4 DEF IndexInv
  <2>6. Above(path) = None
    BY <1>1 DEF Above
  <2> HIDE DEF S
  <2>7. Open(pages, root, S, None, Branch(path), split.separator, split.right, m, L, K, lo, hi)
    BY <1>1, <2>5, <2>6 DEF WorkingTree, Rising, S
  <2>8. PICK lo2, hi2 : Complete(pages', nextPage, S, m, L, K, lo2, hi2)
    <3> DEFINE sep == split.separator
               rgt == split.right
               i == Branch(path)
               np == nextPage
    <3>1. /\ Linked(pages) /\ root \in PageIds /\ pages[root].kind # "missing" /\ sep \in Keys
          /\ rgt \in PageIds /\ pages[rgt].kind # "missing"
          /\ Open(pages, root, S, None, i, sep, rgt, m, L, K, lo, hi)
          /\ np \in PageIds /\ pages[np].kind = "missing"
          /\ pages' = [pages EXCEPT ![np] = Internal(<<sep>>, <<root, rgt>>)]
      BY <1>3, <2>1, <2>2, <2>3, <2>7
    <3> HIDE DEF sep, rgt, i, np
    <3>2. \E lo2, hi2 : Complete(pages', np, S, m, L, K, lo2, hi2)
      BY <3>1, RootRaised
    <3> QED BY <3>2 DEF np
  <2>9. Complete(pages', root', entries \cup {arg}, m, L, K, lo2, hi2)
    BY <1>3, <2>8 DEF Return, S
  <2> QED BY <1>3, <2>4, <2>9, ReturnIndex DEF Return
<1> QED BY <1>2, <1>3 DEF NewRoot, OutOfPages

LEMMA DescendIndex ==
    ASSUME WalkInv, IndexInv, Descend
    PROVE  IndexInv'
<1> DEFINE i == ChildFor(pages[at].keys, arg.key)
<1>1. /\ pc = "down" /\ pages[at].kind = "internal" /\ at' = pages[at].children[i]
      /\ UNCHANGED <<tree, saved, pc, arg, failed, entries, kept>>
  BY DEF Descend
<1>2. Shaped(pages, nextPage) /\ at \in PageIds /\ arg.key \in Keys
  BY WalkFacts
<1>3. ~failed /\ Linked(pages)
  BY <1>1, <1>2, ShapedLinked DEF IndexInv
<1>4. PICK m, L, K, lo, hi : WorkingTree(m, L, K, lo, hi)
  BY <1>3 DEF IndexInv
<1>5. Complete(pages, root, entries, m, L, K, lo, hi) /\ Heading(at, arg.key, m, K, lo, hi) /\ NewRow
  BY <1>1, <1>4 DEF WorkingTree
<1>6. Placed(pages, at, m, K, lo, hi)
  BY <1>1, <1>2, <1>3, <1>5, PlacedFacts
<1>7. Heading(at', arg.key, m, K, lo, hi)
  BY <1>1, <1>2, <1>5, <1>6, HeadDown
<1>8. WorkingTree(m, L, K, lo, hi)'
  <2>1. Complete(pages', root', entries', m, L, K, lo, hi)
    BY <1>1, <1>5 DEF tree
  <2>2. Heading(at', arg'.key, m, K, lo, hi) /\ NewRow'
    BY <1>1, <1>5, <1>7 DEF NewRow
  <2>3. pc' = "down"
    BY <1>1
  <2> QED BY <2>1, <2>2, <2>3 DEF WorkingTree
<1>9. (\E m2, L2, K2, lo2, hi2 : CommittedTree(m2, L2, K2, lo2, hi2))' /\ LookupExact'
  BY <1>1, CommittedKept
<1> QED BY <1>1, <1>3, <1>8, <1>9 DEF IndexInv

\* The root is above all leaves, so that every key belongs under it.
LEMMA HeadingRoot ==
    ASSUME NEW pgs, NEW rt, NEW S, NEW m, NEW L, NEW K, NEW lo, NEW hi,
           Complete(pgs, rt, S, m, L, K, lo, hi), NEW k
    PROVE  Heading(rt, k, m, K, lo, hi)
<1>1. lo[rt] = 1 /\ hi[rt] = m /\ m \in Nat
  BY DEF Complete, Standing, Fences
<1>2. \A c \in 1..(m - 1) : ~(c < 1) /\ ~(c >= m)
  BY <1>1
<1> QED BY <1>1, <1>2 DEF Heading

LEMMA InsertIndex ==
    ASSUME WalkInv, IndexInv, CommitAfterError = FALSE, NEW e \in Entry, Insert(e)
    PROVE  IndexInv'
<1>1. /\ pc = "idle" /\ e.row \notin {f.row : f \in entries} /\ ~failed
      /\ pc' = "down" /\ arg' = e /\ at' = root
      /\ UNCHANGED <<tree, saved, failed, entries, kept>>
  BY DEF Insert
<1>2. PICK m, L, K, lo, hi : WorkingTree(m, L, K, lo, hi)
  BY <1>1 DEF IndexInv
<1>3. Complete(pages, root, entries, m, L, K, lo, hi)
  BY <1>1, <1>2 DEF WorkingTree
<1>4. Heading(root, e.key, m, K, lo, hi)
  BY <1>3, HeadingRoot
<1>5. NewRow'
  BY <1>1 DEF NewRow
<1>6. WorkingTree(m, L, K, lo, hi)'
  BY <1>1, <1>3, <1>4, <1>5 DEF WorkingTree, tree
<1>7. (\E m2, L2, K2, lo2, hi2 : CommittedTree(m2, L2, K2, lo2, hi2))' /\ LookupExact'
  BY <1>1, CommittedKept
<1> QED BY <1>1, <1>6, <1>7 DEF IndexInv

-----------------------------------------------------------------------------
(* The steps of a lookup. *)

\* The rows of key k among the first n entries of a leaf.
RowsTo(es, k, n) == {r \in Rows : \E a \in 1..n : es[a].row = r /\ es[a].key = k}

LEMMA AppendNew ==
    ASSUME NEW s \in Seq(Rows), NEW x \in Rows, IsInjective(s), x \notin Range(s)
    PROVE  Range(Append(s, x)) = Range(s) \cup {x} /\ IsInjective(Append(s, x))
<1> DEFINE t == Append(s, x)
           N == Len(s)
<1>1. /\ N \in Nat /\ DOMAIN s = 1..N /\ DOMAIN t = 1..(N + 1) /\ t[N + 1] = x
      /\ \A i \in 1..N : t[i] = s[i]
  OBVIOUS
<1> HIDE DEF t, N
<1>2. 1..(N + 1) = 1..N \cup {N + 1}
  BY <1>1
<1>3. Range(t) = Range(s) \cup {x}
  BY <1>1, <1>2 DEF Range
<1>4. \A i \in 1..N : s[i] # x
  BY <1>1 DEF Range
<1>5. \A a, b \in 1..N : s[a] = s[b] => a = b
  BY <1>1 DEF IsInjective
<1>6. \A a, b \in 1..(N + 1) : t[a] = t[b] => a = b
  BY <1>1, <1>2, <1>4, <1>5
<1>7. IsInjective(t)
  BY <1>1, <1>6 DEF IsInjective
<1> QED BY <1>3, <1>7 DEF t

\* A lookup takes the rows of its key from a leaf, each once.
LEMMA MatchedRows ==
    ASSUME NEW es \in Seq(Entry), NEW k, NEW rows \in Seq(Rows), IsInjective(rows),
           \A a, b \in 1..Len(es) : es[a].row = es[b].row => a = b,
           \A a \in 1..Len(es) : es[a].row \notin Range(rows)
    PROVE  \A i \in 0..Len(es) : /\ Range(Matches(es, k, rows)[i]) = Range(rows) \cup RowsTo(es, k, i)
                                 /\ IsInjective(Matches(es, k, rows)[i])
<1> DEFINE f == Matches(es, k, rows)
           N == Len(es)
           T == {i \in 0..N : Range(f[i]) = Range(rows) \cup RowsTo(es, k, i) /\ IsInjective(f[i])}
<1>1. /\ f[0] = rows
      /\ \A i \in 1..N : f[i] = IF es[i].key = k THEN Append(f[i - 1], es[i].row) ELSE f[i - 1]
      /\ \A i \in 0..N : f[i] \in Seq(Rows)
  BY MatchesFacts
<1>2. N \in Nat /\ \A i \in 1..N : es[i].row \in Rows
  <2>1. \A i \in 1..N : es[i] \in Entry
    OBVIOUS
  <2> QED BY <2>1, EntryFacts
<1> HIDE DEF f
<1>3. 0 \in T
  <2>1. RowsTo(es, k, 0) = {}
    BY DEF RowsTo
  <2> QED BY <1>1, <1>2, <2>1
<1>4. ASSUME NEW n \in 0..(N - 1), n \in T PROVE n + 1 \in T
  <2>1. n + 1 \in 1..N /\ n + 1 \in 0..N /\ n \in 0..N /\ (n + 1) - 1 = n
    BY <1>2
  <2>2. /\ f[n + 1] = IF es[n + 1].key = k THEN Append(f[n], es[n + 1].row) ELSE f[n]
        /\ f[n] \in Seq(Rows) /\ es[n + 1].row \in Rows
        /\ Range(f[n]) = Range(rows) \cup RowsTo(es, k, n) /\ IsInjective(f[n])
    BY <1>1, <1>2, <1>4, <2>1
  <2>3. 1..(n + 1) = 1..n \cup {n + 1} /\ n + 1 \notin 1..n /\ 1..n \subseteq 1..N
    BY <1>2, <2>1
  <2>4. CASE es[n + 1].key = k
    <3>1. RowsTo(es, k, n + 1) = RowsTo(es, k, n) \cup {es[n + 1].row}
      BY <2>2, <2>3, <2>4 DEF RowsTo
    <3>2. es[n + 1].row \notin RowsTo(es, k, n)
      BY <2>1, <2>3 DEF RowsTo
    <3>3. es[n + 1].row \notin Range(f[n])
      BY <2>1, <2>2, <3>2
    <3>4. /\ Range(Append(f[n], es[n + 1].row)) = Range(f[n]) \cup {es[n + 1].row}
          /\ IsInjective(Append(f[n], es[n + 1].row))
      BY <2>2, <3>3, AppendNew
    <3>5. f[n + 1] = Append(f[n], es[n + 1].row)
      BY <2>2, <2>4
    <3>6. Range(f[n + 1]) = Range(rows) \cup RowsTo(es, k, n + 1) /\ IsInjective(f[n + 1])
      BY <2>2, <3>1, <3>4, <3>5
    <3> QED BY <2>1, <3>6
  <2>5. CASE es[n + 1].key # k
    <3>1. RowsTo(es, k, n + 1) = RowsTo(es, k, n)
      BY <2>3, <2>5 DEF RowsTo
    <3>2. f[n + 1] = f[n]
      BY <2>2, <2>5
    <3> QED BY <2>1, <2>2, <3>1, <3>2
  <2> QED BY <2>4, <2>5
<1>5. 0..N \subseteq T
  <2> HIDE DEF T, N
  <2> QED BY <1>2, <1>3, <1>4, UpTo
<1> QED BY <1>5 DEF f

\* Where an entry stands in the row of leaves.
LEMMA EntryPlace ==
    ASSUME NEW pgs, Linked(pgs), NEW rt, NEW S, NEW m, NEW L, NEW K, NEW lo, NEW hi,
           Complete(pgs, rt, S, m, L, K, lo, hi), NEW q, NEW a, NEW e, Stands(pgs, q, a, e)
    PROVE  /\ e \in Entry /\ e.key \in Int /\ e.row \in Rows /\ q \in PageIds
           /\ lo[q] \in 1..m /\ L[lo[q]] = q /\ m \in Nat
           /\ lo[q] < m => e.key <= K[lo[q]] /\ K[lo[q]] \in Int
           /\ lo[q] > 1 => K[lo[q] - 1] <= e.key /\ K[lo[q] - 1] \in Int
<1>1. /\ q \in PageIds /\ pgs[q].kind = "leaf" /\ a \in 1..Len(pgs[q].entries)
      /\ e = pgs[q].entries[a]
  BY DEF Stands, IsLeaf
<1>2. pgs[q].entries \in Seq(Entry)
  BY <1>1, NodeFields DEF Linked
<1>3. e \in Entry
  BY <1>1, <1>2
<1>4. e.key \in Int /\ e.row \in Rows
  BY <1>3, EntryFacts
<1>5. lo[q] \in 1..m /\ L[lo[q]] = q
  BY <1>1 DEF Complete, Standing, Chain
<1>6. InOrder(pgs[q].entries, lo[q], m, K)
  <2>1. InOrder(pgs[L[lo[q]]].entries, lo[q], m, K)
    BY <1>5 DEF Complete, Standing, Sorted
  <2> QED BY <1>5, <2>1
<1>7. (lo[q] < m => e.key <= K[lo[q]]) /\ (lo[q] > 1 => K[lo[q] - 1] <= e.key)
  BY <1>1, <1>6 DEF InOrder
<1>8. m \in Nat /\ K \in [1..(m - 1) -> Keys] /\ Keys \subseteq Int
  BY Constants DEF Complete, Standing, Fences
<1>9. \A c \in 1..(m - 1) : K[c] \in Int
  BY <1>8
<1>10. /\ lo[q] < m => lo[q] \in 1..(m - 1)
       /\ lo[q] > 1 => lo[q] - 1 \in 1..(m - 1)
  BY <1>5, <1>8
<1> QED BY <1>1, <1>3, <1>4, <1>5, <1>7, <1>8, <1>9, <1>10

\* In the words of Stands, what a lookup has passed.
LEMMA PassedRows ==
    ASSUME NEW pgs, NEW k, NEW p, NEW lo, NEW r \in Rows
    PROVE  r \in Passed(pgs, k, p, lo) <=>
                \E q, a, e : Stands(pgs, q, a, e) /\ lo[q] < lo[p] /\ e.row = r /\ e.key = k
  BY DEF Passed, Stands, IsLeaf

\* The leaf that find_leaf comes to has nothing of the key on its left.
LEMMA NothingLeft ==
    ASSUME NEW pgs, Linked(pgs), NEW rt, NEW S, NEW m, NEW L, NEW K, NEW lo, NEW hi,
           Complete(pgs, rt, S, m, L, K, lo, hi), NEW p, IsLeaf(pgs, p),
           NEW k \in Keys, Heading(p, k, m, K, lo, hi)
    PROVE  Passed(pgs, k, p, lo) = {}
<1> SUFFICES ASSUME NEW r \in Rows, r \in Passed(pgs, k, p, lo) PROVE FALSE
  BY DEF Passed
<1>1. PICK q, a, e : Stands(pgs, q, a, e) /\ lo[q] < lo[p] /\ e.row = r /\ e.key = k
  BY PassedRows
<1>2. lo[q] \in 1..m /\ m \in Nat /\ (lo[q] < m => e.key <= K[lo[q]] /\ K[lo[q]] \in Int)
  BY <1>1, EntryPlace
<1>3. lo[p] \in 1..m
  BY DEF IsLeaf, Complete, Standing, Chain
<1>4. lo[q] < m /\ lo[q] \in 1..(m - 1)
  BY <1>1, <1>2, <1>3
<1>5. K[lo[q]] < k
  BY <1>1, <1>4 DEF Heading
<1>6. k \in Int
  BY Constants
<1> QED BY <1>1, <1>2, <1>4, <1>5, <1>6

\* What stands in leaf p under key k.
LEMMA RowsHere ==
    ASSUME NEW pgs, NEW p, IsLeaf(pgs, p), NEW k, NEW r \in Rows
    PROVE  r \in RowsTo(pgs[p].entries, k, Len(pgs[p].entries)) <=>
                \E a, e : Stands(pgs, p, a, e) /\ e.row = r /\ e.key = k
  BY DEF RowsTo, Stands

\* Past leaf p the lookup has passed what stands in it too.
LEMMA PassedNext ==
    ASSUME NEW pgs, NEW rt, NEW S, NEW m, NEW L, NEW K, NEW lo, NEW hi, Linked(pgs),
           Complete(pgs, rt, S, m, L, K, lo, hi), NEW p, IsLeaf(pgs, p), pgs[p].next # None, NEW k
    PROVE  /\ IsLeaf(pgs, pgs[p].next)
           /\ Passed(pgs, k, pgs[p].next, lo)
                = Passed(pgs, k, p, lo) \cup RowsTo(pgs[p].entries, k, Len(pgs[p].entries))
<1> DEFINE j == lo[p]
           x == pgs[p].next
<1>1. /\ p \in PageIds /\ j \in 1..m /\ m \in Nat /\ L[j] = p
      /\ L \in [1..m -> PageIds]
      /\ \A c \in 1..m : /\ pgs[L[c]].kind = "leaf" /\ lo[L[c]] = c
                         /\ pgs[L[c]].next = IF c = m THEN None ELSE L[c + 1]
  BY DEF IsLeaf, Complete, Standing, Chain, Fences
<1>2. j # m /\ x = L[j + 1]
  BY <1>1
<1>3. j + 1 \in 1..m /\ j \in Int
  BY <1>1, <1>2
<1>4. IsLeaf(pgs, x) /\ lo[x] = j + 1
  BY <1>1, <1>2, <1>3 DEF IsLeaf
<1> HIDE DEF x
<1>5. ASSUME NEW r \in Rows, r \in Passed(pgs, k, x, lo)
      PROVE  r \in Passed(pgs, k, p, lo) \/ r \in RowsTo(pgs[p].entries, k, Len(pgs[p].entries))
  <2>1. PICK q, a, e : Stands(pgs, q, a, e) /\ lo[q] < lo[x] /\ e.row = r /\ e.key = k
    BY <1>5, PassedRows
  <2>2. lo[q] \in 1..m /\ L[lo[q]] = q
    BY <2>1, EntryPlace
  <2>3. lo[q] < j \/ lo[q] = j
    BY <1>1, <1>4, <2>1, <2>2
  <2>4. CASE lo[q] < j
    BY <2>1, <2>4, PassedRows
  <2>5. CASE lo[q] = j
    <3>1. q = p
      BY <1>1, <2>2, <2>5
    <3> QED BY <2>1, <3>1, RowsHere
  <2> QED BY <2>3, <2>4, <2>5
<1>6. ASSUME NEW r \in Rows, r \in Passed(pgs, k, p, lo) PROVE r \in Passed(pgs, k, x, lo)
  <2>1. PICK q, a, e : Stands(pgs, q, a, e) /\ lo[q] < lo[p] /\ e.row = r /\ e.key = k
    BY <1>6, PassedRows
  <2>2. lo[q] \in 1..m
    BY <2>1, EntryPlace
  <2>3. lo[q] < lo[x]
    BY <1>1, <1>4, <2>1, <2>2
  <2> QED BY <2>1, <2>3, PassedRows
<1>7. ASSUME NEW r \in Rows, r \in RowsTo(pgs[p].entries, k, Len(pgs[p].entries))
      PROVE  r \in Passed(pgs, k, x, lo)
  <2>0. \E a, e : Stands(pgs, p, a, e) /\ e.row = r /\ e.key = k
    <3>1. r \in RowsTo(pgs[p].entries, k, Len(pgs[p].entries)) <=>
            \E a, e : Stands(pgs, p, a, e) /\ e.row = r /\ e.key = k
      BY RowsHere
    <3> QED BY <1>7, <3>1
  <2>1. PICK a, e : Stands(pgs, p, a, e) /\ e.row = r /\ e.key = k
    BY <2>0
  <2>2. lo[p] < lo[x]
    BY <1>3, <1>4
  <2> QED BY <2>1, <2>2, PassedRows
<1>8. Passed(pgs, k, x, lo) \subseteq Rows /\ Passed(pgs, k, p, lo) \subseteq Rows
      /\ RowsTo(pgs[p].entries, k, Len(pgs[p].entries)) \subseteq Rows
  BY DEF Passed, RowsTo
<1>9. Passed(pgs, k, x, lo)
        = Passed(pgs, k, p, lo) \cup RowsTo(pgs[p].entries, k, Len(pgs[p].entries))
  BY <1>5, <1>6, <1>7, <1>8
<1> QED BY <1>4, <1>9 DEF x

\* No leaf on the right of p holds the key.
Ends(pgs, p, k, lo) == \A q, a, e : Stands(pgs, q, a, e) /\ e.key = k => lo[q] <= lo[p]

\* When no leaf further right holds the key, the lookup has met all rows of it.
LEMMA PassedAll ==
    ASSUME NEW pgs, NEW rt, NEW S, NEW m, NEW L, NEW K, NEW lo, NEW hi, Linked(pgs),
           Complete(pgs, rt, S, m, L, K, lo, hi), NEW p, IsLeaf(pgs, p), NEW k,
           Ends(pgs, p, k, lo)
    PROVE  Passed(pgs, k, p, lo) \cup RowsTo(pgs[p].entries, k, Len(pgs[p].entries))
                = {e.row : e \in {f \in S : f.key = k}}
<1>1. /\ \A q, a, e : Stands(pgs, q, a, e) => e \in S
      /\ \A e \in S : \E q, a : Stands(pgs, q, a, e)
  <2>1. Holds(pgs, S)
    BY DEF Complete, Standing
  <2> QED BY <2>1, HoldsPlaces
<1>2. lo[p] \in 1..m /\ L[lo[p]] = p /\ m \in Nat
  BY DEF IsLeaf, Complete, Standing, Chain, Fences
<1>3. ASSUME NEW r \in Rows, r \in Passed(pgs, k, p, lo)
      PROVE  r \in {e.row : e \in {f \in S : f.key = k}}
  <2>1. PICK q, a, e : Stands(pgs, q, a, e) /\ lo[q] < lo[p] /\ e.row = r /\ e.key = k
    BY <1>3, PassedRows
  <2> QED BY <1>1, <2>1
<1>4. ASSUME NEW r \in Rows, r \in RowsTo(pgs[p].entries, k, Len(pgs[p].entries))
      PROVE  r \in {e.row : e \in {f \in S : f.key = k}}
  <2>0. \E a, e : Stands(pgs, p, a, e) /\ e.row = r /\ e.key = k
    <3>1. r \in RowsTo(pgs[p].entries, k, Len(pgs[p].entries)) <=>
            \E a, e : Stands(pgs, p, a, e) /\ e.row = r /\ e.key = k
      BY DEF RowsTo, Stands
    <3> QED BY <1>4, <3>1
  <2>1. PICK a, e : Stands(pgs, p, a, e) /\ e.row = r /\ e.key = k
    BY <2>0
  <2> QED BY <1>1, <2>1
<1>5. ASSUME NEW e \in S, e.key = k
      PROVE  e.row \in Passed(pgs, k, p, lo) \cup RowsTo(pgs[p].entries, k, Len(pgs[p].entries))
  <2>1. PICK q, a : Stands(pgs, q, a, e)
    BY <1>1
  <2>2. lo[q] \in 1..m /\ L[lo[q]] = q /\ e.row \in Rows
    BY <2>1, EntryPlace
  <2>3. lo[q] <= lo[p]
    BY <1>5, <2>1 DEF Ends
  <2>4. lo[q] < lo[p] \/ lo[q] = lo[p]
    BY <1>2, <2>2, <2>3
  <2>5. CASE lo[q] < lo[p]
    BY <1>5, <2>1, <2>2, <2>5, PassedRows
  <2>6. CASE lo[q] = lo[p]
    <3>1. q = p
      BY <1>2, <2>2, <2>6
    <3> QED BY <1>5, <2>1, <2>2, <3>1, RowsHere
  <2> QED BY <2>4, <2>5, <2>6
<1>6. Passed(pgs, k, p, lo) \subseteq Rows
      /\ RowsTo(pgs[p].entries, k, Len(pgs[p].entries)) \subseteq Rows
  BY DEF Passed, RowsTo
<1> QED BY <1>3, <1>4, <1>5, <1>6

\* A lookup leaves a leaf early only at a greater key, and then skips none of its own.
LEMMA SeenAll ==
    ASSUME NEW node \in Node, arg.key \in Keys, Ascending(node.entries)
    PROVE  /\ RowsTo(node.entries, arg.key, SeenIn(node))
                = RowsTo(node.entries, arg.key, Len(node.entries))
           /\ SeenIn(node) < Len(node.entries) =>
                \E b \in 1..Len(node.entries) : node.entries[b].key > arg.key
<1> DEFINE es == node.entries
           n == SeenIn(node)
           N == Len(es)
           D == {i \in DOMAIN es : \A j \in 1..i : es[j].key <= arg.key}
<1>1. n \in 0..N /\ D = 1..n
  BY SeenFacts
<1>2. es \in Seq(Entry) /\ N \in Nat /\ DOMAIN es = 1..N /\ arg.key \in Int
  <2>1. es \in Seq(Entry)
    BY NodeFields
  <2>2. arg.key \in Int
    BY Constants
  <2> QED BY <2>1, <2>2
<1>3. \A a \in 1..N : es[a].key \in Int /\ es[a].row \in Rows
  <2>1. \A a \in 1..N : es[a] \in Entry
    BY <1>2
  <2> QED BY <2>1, EntryFacts
<1> HIDE DEF es, n, N
<1>4. ASSUME n < N PROVE n + 1 \in 1..N /\ es[n + 1].key > arg.key
  <2>1. n + 1 \in 1..N /\ n + 1 \notin 1..n
    BY <1>1, <1>2, <1>4
  <2>2. n + 1 \notin D
    BY <1>1, <2>1
  <2>3. PICK j \in 1..(n + 1) : ~(es[j].key <= arg.key)
    BY <1>2, <2>1, <2>2
  <2>4. j \in 1..N
    BY <1>1, <1>2, <2>1
  <2>5. j \notin 1..n
    <3> SUFFICES ASSUME j \in 1..n PROVE FALSE
      OBVIOUS
    <3>1. j \in D /\ j \in 1..j
      BY <1>1
    <3> QED BY <2>3, <3>1
  <2>6. j = n + 1
    BY <1>1, <2>5
  <2> QED BY <1>2, <1>3, <2>1, <2>3, <2>6
<1>5. \A a \in 1..N : es[a].key = arg.key => a \in 1..n
  <2> SUFFICES ASSUME NEW a \in 1..N, es[a].key = arg.key, a \notin 1..n PROVE FALSE
    OBVIOUS
  <2>1. n < N /\ (a = n + 1 \/ n + 1 < a)
    BY <1>1, <1>2
  <2>2. n + 1 \in 1..N /\ es[n + 1].key > arg.key
    BY <1>4, <2>1
  <2>3. a # n + 1
    BY <1>2, <1>3, <2>2
  <2>4. Before(es[n + 1], es[a])
    BY <2>1, <2>2, <2>3 DEF Ascending, es, N
  <2>5. es[n + 1].key <= es[a].key
    BY <1>3, <2>2, <2>4 DEF Before
  <2> QED BY <1>2, <1>3, <2>2, <2>5
<1>6. 1..n \subseteq 1..N
  BY <1>1, <1>2
<1>7. RowsTo(es, arg.key, n) = RowsTo(es, arg.key, N)
  BY <1>5, <1>6 DEF RowsTo
<1> QED BY <1>4, <1>7 DEF es, n, N

\* A lookup that stops in leaf p has no leaf to look at further right.
LEMMA LookupStops ==
    ASSUME NEW pgs, NEW rt, NEW S, NEW m, NEW L, NEW K, NEW lo, NEW hi, Linked(pgs),
           Complete(pgs, rt, S, m, L, K, lo, hi), NEW p, IsLeaf(pgs, p), NEW k \in Keys,
           pgs[p].next = None \/ \E b \in 1..Len(pgs[p].entries) : pgs[p].entries[b].key > k
    PROVE  Ends(pgs, p, k, lo)
<1> SUFFICES ASSUME NEW q, NEW a, NEW e, Stands(pgs, q, a, e), e.key = k, ~(lo[q] <= lo[p])
             PROVE  FALSE
  BY DEF Ends
<1>1. /\ p \in PageIds /\ lo[p] \in 1..m /\ m \in Nat /\ L[lo[p]] = p
      /\ L \in [1..m -> PageIds]
      /\ pgs[L[lo[p]]].next = IF lo[p] = m THEN None ELSE L[lo[p] + 1]
  BY DEF IsLeaf, Complete, Standing, Chain, Fences
<1>2. lo[q] \in 1..m /\ (lo[q] > 1 => K[lo[q] - 1] <= e.key /\ K[lo[q] - 1] \in Int)
  BY EntryPlace
<1>3. lo[p] < lo[q] /\ lo[q] > 1 /\ lo[p] < m /\ lo[p] # m /\ lo[p] <= lo[q] - 1
      /\ lo[p] \in 1..(m - 1) /\ lo[q] - 1 \in 1..(m - 1) /\ lo[p] + 1 \in 1..m
  BY <1>1, <1>2
<1>4. pgs[p].next # None
  BY <1>1, <1>3, Constants
<1>5. PICK b \in 1..Len(pgs[p].entries) : pgs[p].entries[b].key > k
  BY <1>4
<1> DEFINE f == pgs[p].entries[b]
<1>6. Stands(pgs, p, b, f)
  BY DEF Stands
<1> HIDE DEF f
<1>7. f.key \in Int /\ (lo[p] < m => f.key <= K[lo[p]] /\ K[lo[p]] \in Int)
  BY <1>6, EntryPlace
<1>8. K[lo[p]] <= K[lo[q] - 1]
  BY <1>3 DEF Complete, Standing, Fences
<1>9. f.key > k /\ k \in Int
  BY <1>5, Constants DEF f
<1> QED BY <1>2, <1>3, <1>7, <1>8, <1>9

\* The tree of the transaction is at rest while a lookup reads the committed one.
LEMMA QuietWorking ==
    ASSUME IndexInv, UNCHANGED <<tree, failed, entries>>, ~failed,
           pc \notin {"down", "up"}, pc' \notin {"down", "up"}
    PROVE  (\E m, L, K, lo, hi : WorkingTree(m, L, K, lo, hi))'
<1>1. PICK m, L, K, lo, hi : WorkingTree(m, L, K, lo, hi)
  BY DEF IndexInv
<1>2. Complete(pages', root', entries', m, L, K, lo, hi)
  BY <1>1 DEF WorkingTree, tree
<1>3. WorkingTree(m, L, K, lo, hi)'
  BY <1>2 DEF WorkingTree
<1> QED BY <1>3

LEMMA SavedFacts ==
    ASSUME WalkInv
    PROVE  /\ Linked(saved.pages) /\ saved.pages \in [PageIds -> Node]
           /\ saved.root \in PageIds /\ saved.pages[saved.root].kind # "missing"
           /\ at \in PageIds /\ arg \in Entry /\ arg.key \in Keys /\ out \in Seq(Rows)
<1>1. Shaped(saved.pages, saved.nextPage) /\ saved.pages[saved.root].kind # "missing"
  BY DEF WalkInv
<1>2. Linked(saved.pages)
  BY <1>1, ShapedLinked
<1>3. /\ saved.pages \in [PageIds -> Node] /\ saved.root \in PageIds
      /\ at \in PageIds /\ arg \in Entry /\ out \in Seq(Rows)
  BY DEF WalkInv, TypeOK
<1>4. arg.key \in Keys
  BY <1>3, EntryFacts
<1> QED BY <1>1, <1>2, <1>3, <1>4

LEMMA LookupIndex ==
    ASSUME WalkInv, IndexInv, NEW k \in Keys, Lookup(k)
    PROVE  IndexInv'
<1>1. /\ pc = "idle" /\ ~failed /\ pc' = "find" /\ at' = saved.root /\ out' = << >>
      /\ UNCHANGED <<tree, saved, failed, entries, kept>>
  BY DEF Lookup
<1>2. PICK m, L, K, lo, hi : CommittedTree(m, L, K, lo, hi)
  BY DEF IndexInv
<1>3. Complete(saved.pages, saved.root, kept, m, L, K, lo, hi)
  BY <1>2 DEF CommittedTree
<1>4. Heading(saved.root, arg'.key, m, K, lo, hi)
  BY <1>3, HeadingRoot
<1>5. saved.pages[saved.root].kind # "missing"
  BY SavedFacts
<1>6. CommittedTree(m, L, K, lo, hi)'
  BY <1>1, <1>3, <1>4, <1>5 DEF CommittedTree
<1>7. (\E m2, L2, K2, lo2, hi2 : WorkingTree(m2, L2, K2, lo2, hi2))'
  BY <1>1, QuietWorking
<1>8. LookupExact'
  BY <1>1 DEF LookupExact
<1> QED BY <1>1, <1>6, <1>7, <1>8 DEF IndexInv

LEMMA EmptyRows == IsInjective(<< >>) /\ Range(<< >>) = {}
  BY DEF IsInjective, Range

LEMMA FindLeafIndex ==
    ASSUME WalkInv, IndexInv, FindLeaf
    PROVE  IndexInv'
<1> DEFINE pgs == saved.pages
<1>1. /\ pc = "find" /\ pc' \in {"find", "collect"}
      /\ UNCHANGED <<tree, saved, arg, out, failed, entries, kept>>
  BY DEF FindLeaf
<1>2. ~failed
  BY <1>1 DEF IndexInv
<1>3. PICK m, L, K, lo, hi : CommittedTree(m, L, K, lo, hi)
  BY DEF IndexInv
<1>4. /\ Complete(pgs, saved.root, kept, m, L, K, lo, hi)
      /\ Heading(at, arg.key, m, K, lo, hi) /\ out = << >>
  BY <1>1, <1>3 DEF CommittedTree
<1>5. Linked(pgs) /\ at \in PageIds /\ arg.key \in Keys
  BY SavedFacts
<1>6. (\E m2, L2, K2, lo2, hi2 : WorkingTree(m2, L2, K2, lo2, hi2))'
  BY <1>1, <1>2, QuietWorking
<1>7. LookupExact'
  BY <1>1 DEF LookupExact
<1>8. CASE /\ pgs[at].kind = "internal" /\ UNCHANGED pc
           /\ at' = pgs[at].children[ChildFor(pgs[at].keys, arg.key)]
  <2>1. Placed(pgs, at, m, K, lo, hi)
    BY <1>4, <1>5, <1>8, PlacedFacts
  <2>2. Heading(at', arg.key, m, K, lo, hi)
    BY <1>4, <1>5, <1>8, <2>1, HeadDown
  <2>3. pgs[at'].kind # "missing"
    <3> DEFINE ks == pgs[at].keys
    <3>1. /\ ks \in Seq(Keys)
          /\ \A i \in 1..(Len(ks) + 1) : pgs[pgs[at].children[i]].kind # "missing"
      BY <2>1, ChildFacts
    <3>2. ChildFor(ks, arg.key) \in 1..(Len(ks) + 1)
      BY <3>1, ChildForRange
    <3> QED BY <1>8, <3>1, <3>2
  <2>4. CommittedTree(m, L, K, lo, hi)'
    BY <1>1, <1>4, <1>8, <2>2, <2>3 DEF CommittedTree
  <2> QED BY <1>1, <1>2, <1>6, <1>7, <2>4 DEF IndexInv
<1>9. CASE pgs[at].kind = "leaf" /\ pc' = "collect" /\ UNCHANGED at
  <2>1. Passed(pgs, arg.key, at, lo) = {}
    BY <1>4, <1>5, <1>9, NothingLeft DEF IsLeaf
  <2>2. IsInjective(out) /\ Range(out) = Passed(pgs, arg.key, at, lo)
    BY <1>4, <2>1, EmptyRows
  <2>3. CommittedTree(m, L, K, lo, hi)'
    BY <1>1, <1>4, <1>9, <2>2 DEF CommittedTree
  <2> QED BY <1>1, <1>2, <1>6, <1>7, <2>3 DEF IndexInv
<1> QED BY <1>8, <1>9 DEF FindLeaf

LEMMA CollectIndex ==
    ASSUME WalkInv, IndexInv, Collect
    PROVE  IndexInv'
<1> DEFINE pgs == saved.pages
           node == pgs[at]
           es == node.entries
           k == arg.key
           n == SeenIn(node)
<1>1. /\ pc = "collect" /\ node.kind = "leaf" /\ node \in Node /\ n \in 0..Len(es)
      /\ out' = Matches(es, k, out)[n]
      /\ IF n < Len(es) \/ node.next = None
         THEN pc' = "found" /\ UNCHANGED at
         ELSE at' = node.next /\ UNCHANGED pc
      /\ UNCHANGED <<tree, saved, arg, failed, entries, kept>>
  BY CollectFacts
<1>2. ~failed /\ pc' \in {"collect", "found"}
  BY <1>1 DEF IndexInv
<1>3. PICK m, L, K, lo, hi : CommittedTree(m, L, K, lo, hi)
  BY DEF IndexInv
<1>4. /\ Complete(pgs, saved.root, kept, m, L, K, lo, hi)
      /\ IsInjective(out) /\ Range(out) = Passed(pgs, k, at, lo)
  BY <1>1, <1>3 DEF CommittedTree
<1>5. Linked(pgs) /\ at \in PageIds /\ k \in Keys /\ out \in Seq(Rows) /\ IsLeaf(pgs, at)
  BY <1>1, SavedFacts DEF IsLeaf
<1>6. (\E m2, L2, K2, lo2, hi2 : WorkingTree(m2, L2, K2, lo2, hi2))'
  BY <1>1, <1>2, QuietWorking
<1>7. es \in Seq(Entry) /\ Ascending(es)
  <2>1. es \in Seq(Entry)
    BY <1>1, NodeFields
  <2>2. lo[at] \in 1..m /\ L[lo[at]] = at
    BY <1>1, <1>4, <1>5 DEF Complete, Standing, Chain
  <2>3. InOrder(pgs[L[lo[at]]].entries, lo[at], m, K)
    BY <1>4, <2>2 DEF Complete, Standing, Sorted
  <2> QED BY <2>1, <2>2, <2>3 DEF InOrder, Ascending
<1> HIDE DEF n, k
<1>8. \A p, a, e, q, b, f :
        Stands(pgs, p, a, e) /\ Stands(pgs, q, b, f) /\ e.row = f.row => p = q /\ a = b
  <2>1. Holds(pgs, kept)
    BY <1>4 DEF Complete, Standing
  <2> QED BY <2>1, HoldsPlaces
<1>9. \A a \in 1..Len(es) : Stands(pgs, at, a, es[a])
  BY <1>5 DEF Stands
<1>10. \A a, b \in 1..Len(es) : es[a].row = es[b].row => a = b
  BY <1>8, <1>9
<1>11. \A a \in 1..Len(es) : es[a].row \notin Range(out)
  <2> SUFFICES ASSUME NEW a \in 1..Len(es), es[a].row \in Passed(pgs, k, at, lo) PROVE FALSE
    BY <1>4
  <2>1. es[a].row \in Rows
    BY DEF Passed
  <2>2. PICK q, b, f : Stands(pgs, q, b, f) /\ lo[q] < lo[at] /\ f.row = es[a].row /\ f.key = k
    BY <2>1, PassedRows
  <2>3. q = at
    BY <1>8, <1>9, <2>2
  <2>4. lo[q] \in 1..m
    BY <1>4, <1>5, <2>2, EntryPlace
  <2> QED BY <2>2, <2>3, <2>4
<1> HIDE DEF es
<1>12. Range(out') = Range(out) \cup RowsTo(es, k, n) /\ IsInjective(out')
  <2>1. \A i \in 0..Len(es) : /\ Range(Matches(es, k, out)[i]) = Range(out) \cup RowsTo(es, k, i)
                              /\ IsInjective(Matches(es, k, out)[i])
    BY <1>4, <1>5, <1>7, <1>10, <1>11, MatchedRows
  <2> QED BY <1>1, <2>1
<1>13. /\ RowsTo(es, k, n) = RowsTo(es, k, Len(es))
       /\ n < Len(es) => \E b \in 1..Len(es) : es[b].key > k
  BY <1>1, <1>5, <1>7, SeenAll DEF es, k, n
<1>14. CASE n < Len(es) \/ node.next = None
  <2>1. Ends(pgs, at, k, lo)
    BY <1>4, <1>5, <1>13, <1>14, LookupStops DEF es
  <2>2. Passed(pgs, k, at, lo) \cup RowsTo(es, k, Len(es))
            = {e.row : e \in {f \in kept : f.key = k}}
    BY <1>4, <1>5, <2>1, PassedAll DEF es
  <2>3. Range(out') = {e.row : e \in {f \in kept : f.key = k}}
    BY <1>4, <1>12, <1>13, <2>2
  <2>4. pc' = "found" /\ kept' = kept /\ arg' = arg
    BY <1>1, <1>14
  <2>5. LookupExact'
    BY <1>12, <2>3, <2>4 DEF LookupExact, k
  <2>6. CommittedTree(m, L, K, lo, hi)'
    BY <1>1, <1>4, <2>4 DEF CommittedTree
  <2> QED BY <1>1, <1>2, <1>6, <2>5, <2>6 DEF IndexInv
<1>15. CASE ~(n < Len(es) \/ node.next = None)
  <2>1. at' = node.next /\ pc' = "collect" /\ node.next # None
    BY <1>1, <1>15
  <2>2. /\ IsLeaf(pgs, node.next)
        /\ Passed(pgs, k, node.next, lo) = Passed(pgs, k, at, lo) \cup RowsTo(es, k, Len(es))
    BY <1>4, <1>5, <2>1, PassedNext DEF es
  <2>3. Range(out') = Passed(pgs, k, at', lo)
    BY <1>4, <1>12, <1>13, <2>1, <2>2
  <2>4. pgs[at'].kind = "leaf"
    BY <2>1, <2>2 DEF IsLeaf
  <2>5. CommittedTree(m, L, K, lo, hi)'
    BY <1>1, <1>4, <1>12, <2>1, <2>3, <2>4 DEF CommittedTree, k
  <2>6. LookupExact'
    BY <2>1 DEF LookupExact
  <2> QED BY <1>1, <1>2, <1>6, <2>5, <2>6 DEF IndexInv
<1> QED BY <1>14, <1>15

LEMMA LookupReadFailsIndex ==
    ASSUME WalkInv, IndexInv, LookupReadFails
    PROVE  IndexInv'
<1>1. pc \in {"find", "collect"} /\ UNCHANGED <<tree, saved, failed, entries, kept>>
  BY DEF LookupReadFails
<1>2. ~failed
  BY <1>1 DEF IndexInv
<1>3. saved.pages[at].kind # "missing"
  <2>1. PICK m, L, K, lo, hi : CommittedTree(m, L, K, lo, hi)
    BY DEF IndexInv
  <2> QED BY <1>1, <2>1 DEF CommittedTree
<1>4. pc' = "error"
  BY <1>3 DEF LookupReadFails
<1>5. (\E m, L, K, lo, hi : CommittedTree(m, L, K, lo, hi))' /\ LookupExact'
  BY <1>1, <1>4, CommittedKept
<1>6. (\E m, L, K, lo, hi : WorkingTree(m, L, K, lo, hi))'
  BY <1>1, <1>2, <1>4, QuietWorking
<1> QED BY <1>1, <1>2, <1>5, <1>6 DEF IndexInv

LEMMA LookupReturnsIndex ==
    ASSUME WalkInv, IndexInv, LookupReturns
    PROVE  IndexInv'
<1>1. /\ pc \in {"found", "error", "broken"} /\ pc' = "idle"
      /\ UNCHANGED <<tree, saved, failed, entries, kept>>
  BY DEF LookupReturns, EndCall
<1>2. ~failed
  BY <1>1 DEF IndexInv
<1>3. (\E m, L, K, lo, hi : CommittedTree(m, L, K, lo, hi))' /\ LookupExact'
  BY <1>1, CommittedKept
<1>4. (\E m, L, K, lo, hi : WorkingTree(m, L, K, lo, hi))'
  BY <1>1, <1>2, QuietWorking
<1> QED BY <1>1, <1>2, <1>3, <1>4 DEF IndexInv

-----------------------------------------------------------------------------
(* Commit, rollback and the whole. *)

LEMMA CommitIndex ==
    ASSUME WalkInv, IndexInv, CommitAfterError = FALSE, Commit
    PROVE  IndexInv'
<1>1. /\ pc = "idle" /\ pc' = "idle" /\ ~failed /\ failed' = FALSE
      /\ saved' = [pages |-> pages, root |-> root, nextPage |-> nextPage] /\ kept' = entries
      /\ pages' = pages /\ root' = root /\ entries' = entries
  BY DEF Commit, tree
<1>2. PICK m, L, K, lo, hi : WorkingTree(m, L, K, lo, hi)
  BY <1>1 DEF IndexInv
<1>3. Complete(pages, root, entries, m, L, K, lo, hi)
  BY <1>1, <1>2 DEF WorkingTree
<1>4. saved'.pages = pages /\ saved'.root = root
  BY <1>1
<1>5. CommittedTree(m, L, K, lo, hi)'
  BY <1>1, <1>3, <1>4 DEF CommittedTree
<1>6. WorkingTree(m, L, K, lo, hi)'
  BY <1>1, <1>3 DEF WorkingTree
<1>7. LookupExact'
  BY <1>1 DEF LookupExact
<1> QED BY <1>1, <1>5, <1>6, <1>7 DEF IndexInv

LEMMA DiscardIndex ==
    ASSUME WalkInv, IndexInv, Discard
    PROVE  IndexInv'
<1>1. /\ pc = "idle" /\ pc' = "idle" /\ failed' = FALSE
      /\ pages' = saved.pages /\ root' = saved.root /\ entries' = kept
      /\ UNCHANGED <<saved, kept>>
  BY DEF Discard
<1>2. PICK m, L, K, lo, hi : CommittedTree(m, L, K, lo, hi)
  BY DEF IndexInv
<1>3. Complete(saved.pages, saved.root, kept, m, L, K, lo, hi)
  BY <1>2 DEF CommittedTree
<1>4. WorkingTree(m, L, K, lo, hi)'
  BY <1>1, <1>3 DEF WorkingTree
<1>5. (\E m2, L2, K2, lo2, hi2 : CommittedTree(m2, L2, K2, lo2, hi2))' /\ LookupExact'
  BY <1>1, CommittedKept
<1> QED BY <1>1, <1>4, <1>5 DEF IndexInv

LEMMA IndexInit == Init => IndexInv
<1> SUFFICES ASSUME Init PROVE IndexInv
  OBVIOUS
<1> DEFINE L == [j \in 1..1 |-> root]
           K == [j \in 1..0 |-> AnyEntry.key]
           lo == [p \in PageIds |-> 1]
<1>1. /\ root \in PageIds /\ pc = "idle" /\ failed = FALSE /\ entries = {} /\ kept = {}
      /\ pages = [p \in PageIds |-> IF p = root THEN Leaf(None, << >>) ELSE Missing]
      /\ saved = [pages |-> pages, root |-> root, nextPage |-> nextPage]
  BY TreeAssumption DEF Init, PageIds
<1>2. saved.pages = pages /\ saved.root = root
  BY <1>1
<1>3. /\ Leaf(None, << >>).kind = "leaf" /\ Leaf(None, << >>).next = None
      /\ Leaf(None, << >>).entries = << >> /\ Leaf(None, << >>).children = << >>
      /\ Missing.kind = "missing" /\ Missing.entries = << >> /\ Missing.children = << >>
  BY DEF Leaf, Missing
<1>4. /\ pages[root].kind = "leaf" /\ pages[root].next = None
      /\ \A p \in PageIds : /\ pages[p].entries = << >> /\ pages[p].children = << >>
                            /\ pages[p].kind # "internal"
                            /\ p # root => pages[p].kind = "missing"
  BY <1>1, <1>3
<1>5. Len(<< >>) = 0 /\ DOMAIN << >> = {} /\ 1..0 = {} /\ 1..1 = {1} /\ 1 - 1 = 0
  OBVIOUS
<1>6. Fences(1, K)
  BY <1>5 DEF Fences
<1>7. Chain(pages, 1, L, lo, lo)
  BY <1>1, <1>4, <1>5 DEF Chain
<1>8. Sorted(pages, 1, L, K)
  BY <1>1, <1>4, <1>5 DEF Sorted, InOrder
<1>9. Holds(pages, {})
  BY <1>4, <1>5 DEF Holds
<1>10. Ranges(pages, 1, lo, lo) /\ lo[root] = 1
  BY <1>1 DEF Ranges
<1>11. OneParent(pages) /\ Orphan(pages, root) /\ Inner(pages, None, << >>, << >>, K, lo, lo)
  BY <1>4, <1>5 DEF OneParent, Orphan, Inner
<1> HIDE DEF L, K, lo
<1>12. Complete(pages, root, {}, 1, L, K, lo, lo)
  BY <1>6, <1>7, <1>8, <1>9, <1>10, <1>11 DEF Complete, Standing
<1>13. WorkingTree(1, L, K, lo, lo)
  BY <1>1, <1>12 DEF WorkingTree
<1>14. CommittedTree(1, L, K, lo, lo)
  BY <1>1, <1>2, <1>12 DEF CommittedTree
<1>15. LookupExact
  BY <1>1 DEF LookupExact
<1> QED BY <1>1, <1>13, <1>14, <1>15 DEF IndexInv

LEMMA IndexStep ==
    ASSUME WalkInv, IndexInv, [Next]_vars, CommitAfterError = FALSE
    PROVE  IndexInv'
<1>1. ASSUME NEW e \in Entry, Insert(e) PROVE IndexInv'
  BY <1>1, InsertIndex
<1>2. CASE Descend
  BY <1>2, DescendIndex
<1>3. CASE InsertInLeaf
  BY <1>3, LeafIndex
<1>4. CASE InsertInParent
  BY <1>4, ParentIndex
<1>5. CASE NewRoot
  BY <1>5, RootIndex
<1>6. CASE InsertReadFails
  BY <1>6, RaiseIndex DEF InsertReadFails
<1>7. ASSUME NEW k \in Keys, Lookup(k) PROVE IndexInv'
  BY <1>7, LookupIndex
<1>8. CASE FindLeaf
  BY <1>8, FindLeafIndex
<1>9. CASE Collect
  BY <1>9, CollectIndex
<1>10. CASE LookupReadFails
  BY <1>10, LookupReadFailsIndex
<1>11. CASE LookupReturns
  BY <1>11, LookupReturnsIndex
<1>12. CASE Commit
  BY <1>12, CommitIndex
<1>13. CASE Discard
  BY <1>13, DiscardIndex
<1>14. CASE UNCHANGED vars
  <2>1. UNCHANGED <<pages, root, saved, pc, arg, at, path, split, out, failed, entries, kept>>
    BY <1>14 DEF vars, tree, call
  <2>2. LookupExact' /\ (failed' => pc' = "idle")
    BY <2>1 DEF IndexInv, LookupExact
  <2>3. ~failed => (\E m, L, K, lo, hi : WorkingTree(m, L, K, lo, hi))'
    <3> SUFFICES ASSUME ~failed PROVE (\E m, L, K, lo, hi : WorkingTree(m, L, K, lo, hi))'
      OBVIOUS
    <3>1. PICK m, L, K, lo, hi : WorkingTree(m, L, K, lo, hi)
      BY DEF IndexInv
    <3>2. WorkingTree(m, L, K, lo, hi)'
      BY <2>1, <3>1 DEF WorkingTree, Rising, NewRow
    <3> QED BY <3>2
  <2>4. (\E m, L, K, lo, hi : CommittedTree(m, L, K, lo, hi))'
    <3>1. PICK m, L, K, lo, hi : CommittedTree(m, L, K, lo, hi)
      BY DEF IndexInv
    <3>2. CommittedTree(m, L, K, lo, hi)'
      BY <2>1, <3>1 DEF CommittedTree
    <3> QED BY <3>2
  <2> QED BY <2>1, <2>2, <2>3, <2>4 DEF IndexInv
<1> QED BY <1>1, <1>2, <1>3, <1>4, <1>5, <1>6, <1>7, <1>8, <1>9, <1>10, <1>11, <1>12, <1>13, <1>14
       DEF Next, Step, Call

\* rdbms_index::lookup is exact: where no caller commits after an insert has failed, a
\* lookup of the committed index returns exactly the rows committed under its key, each
\* once, whatever keys were inserted, whatever nodes split, at any height of the tree.
THEOREM LookupsExact == CommitAfterError = FALSE => (Spec => []LookupExact)
<1> SUFFICES ASSUME CommitAfterError = FALSE PROVE Spec => []LookupExact
  OBVIOUS
<1>1. Init => WalkInv /\ IndexInv
  BY WalkInit, IndexInit
<1>2. (WalkInv /\ IndexInv) /\ [Next]_vars => (WalkInv /\ IndexInv)'
  BY WalkStep, IndexStep
<1>3. IndexInv => LookupExact
  BY DEF IndexInv
<1> QED BY <1>1, <1>2, <1>3, PTL DEF Spec

-----------------------------------------------------------------------------
(***************************************************************************)
(* The shape that a caller sees between two calls, from the layout: the    *)
(* leaves under a page are the leaves of the row that it spans.            *)
(***************************************************************************)

\* The partial results of FlattenSeq.
Joined(ss, f) ==
    /\ f[1] = ss[1]
    /\ \A i \in 1..(Len(ss) - 1) : f[i + 1] = f[i] \o ss[i + 1]

LEMMA FlattenFacts ==
    ASSUME NEW S, NEW ss \in Seq(S), Len(ss) # 0
    PROVE  \E f : Joined(ss, f) /\ FlattenSeq(ss) = f[Len(ss)]
<1> DEFINE N == Len(ss)
           body(t) == [i \in 1..N |-> IF i = 1 THEN ss[i] ELSE t[i - 1] \o ss[i]]
           Run(f, n) == /\ DOMAIN f = 1..(n + 1) /\ f[1] = ss[1]
                        /\ \A i \in 1..n : f[i + 1] = f[i] \o ss[i + 1]
           T == {n \in 0..(N - 1) : \E f : Run(f, n)}
           m == CHOOSE t : t = body(t)
<1>1. N \in Nat /\ N >= 1
  OBVIOUS
<1> HIDE DEF N
<1>2. 0 \in T
  <2>1. Run([i \in 1..1 |-> ss[1]], 0)
    OBVIOUS
  <2>2. 0 \in 0..(N - 1)
    BY <1>1
  <2> HIDE DEF Run
  <2>3. \E f : Run(f, 0)
    BY <2>1
  <2> QED BY <2>2, <2>3
<1>3. ASSUME NEW n \in 0..((N - 1) - 1), n \in T PROVE n + 1 \in T
  <2>1. PICK f : Run(f, n)
    BY <1>3
  <2> DEFINE g == [i \in 1..((n + 1) + 1) |-> IF i = (n + 1) + 1 THEN f[n + 1] \o ss[n + 2] ELSE f[i]]
  <2>2. n + 1 \in 0..(N - 1) /\ n \in Nat /\ n + 2 = (n + 1) + 1
    BY <1>1
  <2>3. /\ DOMAIN g = 1..((n + 1) + 1) /\ g[1] = ss[1]
        /\ g[(n + 1) + 1] = f[n + 1] \o ss[n + 2]
        /\ \A i \in 1..(n + 1) : g[i] = f[i]
    <3>1. /\ (n + 1) + 1 \in 1..((n + 1) + 1) /\ 1 \in 1..(n + 1)
          /\ \A i \in 1..(n + 1) : i \in 1..((n + 1) + 1) /\ i # (n + 1) + 1
      BY <2>2
    <3>2. f[1] = ss[1]
      BY <2>1
    <3> QED BY <3>1, <3>2
  <2> HIDE DEF g
  <2>4. ASSUME NEW i \in 1..(n + 1) PROVE g[i + 1] = g[i] \o ss[i + 1]
    <3>1. CASE i = n + 1
      BY <2>2, <2>3, <3>1
    <3>2. CASE i # n + 1
      <4>1. i \in 1..n /\ i + 1 \in 1..(n + 1)
        BY <2>2, <2>4, <3>2
      <4>2. g[i + 1] = f[i + 1] /\ g[i] = f[i] /\ f[i + 1] = f[i] \o ss[i + 1]
        BY <2>1, <2>3, <4>1
      <4> QED BY <4>2
    <3> QED BY <3>1, <3>2
  <2>5. Run(g, n + 1)
    BY <2>3, <2>4
  <2> QED BY <2>2, <2>5
<1>4. PICK f : Run(f, N - 1)
  <2>1. N - 1 \in T
    <3> HIDE DEF T
    <3>1. N - 1 \in Nat
      BY <1>1
    <3>2. 0..(N - 1) \subseteq T
      BY <1>2, <1>3, <3>1, UpTo
    <3> QED BY <3>1, <3>2
  <2> QED BY <2>1
<1> DEFINE g == [i \in 1..N |-> f[i]]
<1>5. g = body(g)
  <2>1. \A i \in 1..N : g[i] = IF i = 1 THEN ss[i] ELSE g[i - 1] \o ss[i]
    <3> TAKE i \in 1..N
    <3>1. CASE i = 1
      BY <1>4, <3>1
    <3>2. CASE i # 1
      <4>1. i - 1 \in 1..(N - 1) /\ (i - 1) + 1 = i /\ i - 1 \in 1..N
        BY <1>1, <3>2
      <4>2. f[i] = f[i - 1] \o ss[i]
        BY <1>4, <4>1
      <4> QED BY <3>2, <4>1, <4>2
    <3> QED BY <3>1, <3>2
  <2> HIDE DEF g
  <2>2. DOMAIN g = 1..N
    BY DEF g
  <2>3. g = [i \in 1..N |-> g[i]]
    BY DEF g
  <2> QED BY <2>1, <2>3
<1>6. m = body(m)
  <2> HIDE DEF body, g
  <2> QED BY <1>5
<1>7. FlattenSeq(ss) = m[N]
  BY <1>1 DEF FlattenSeq, N
<1> HIDE DEF m
<1>8. \A i \in 1..N : m[i] = IF i = 1 THEN ss[i] ELSE m[i - 1] \o ss[i]
  <2>1. \A i \in 1..N : m[i] = body(m)[i]
    <3> HIDE DEF body
    <3> QED BY <1>6
  <2> QED BY <2>1
<1>9. Joined(ss, m)
  <2>1. 1 \in 1..N /\ \A i \in 1..(N - 1) : i + 1 \in 1..N /\ i + 1 # 1 /\ (i + 1) - 1 = i
    BY <1>1
  <2> HIDE DEF body
  <2> QED BY <1>8, <2>1 DEF Joined, N
<1> QED BY <1>7, <1>9 DEF N

\* The leaves x..y of the row.
Row(L, x, y) == [j \in 1..(y - x + 1) |-> L[x + j - 1]]

LEMMA RowJoin ==
    ASSUME NEW L, NEW x \in Nat, NEW y \in Nat, NEW z \in Nat, x <= y, y < z
    PROVE  Row(L, x, y) \o Row(L, y + 1, z) = Row(L, x, z)
<1> DEFINE a == Row(L, x, y)
           b == Row(L, y + 1, z)
           X == {L[j] : j \in Nat}
<1>1. a \in Seq(X) /\ Len(a) = y - x + 1 /\ \A j \in 1..(y - x + 1) : a[j] = L[x + j - 1]
  <2>1. y - x + 1 \in Nat /\ \A j \in 1..(y - x + 1) : x + j - 1 \in Nat
    OBVIOUS
  <2>2. a \in [1..(y - x + 1) -> X] /\ \A j \in 1..(y - x + 1) : a[j] = L[x + j - 1]
    BY <2>1 DEF Row
  <2> HIDE DEF a, X
  <2> QED BY <2>1, <2>2
<1>2. b \in Seq(X) /\ Len(b) = z - y /\ \A j \in 1..(z - y) : b[j] = L[y + j]
  <2>1. z - y \in Nat /\ z - (y + 1) + 1 = z - y /\ \A j \in 1..(z - y) : y + j \in Nat /\ (y + 1) + j - 1 = y + j
    OBVIOUS
  <2>2. b \in [1..(z - y) -> X] /\ \A j \in 1..(z - y) : b[j] = L[y + j]
    BY <2>1 DEF Row
  <2> HIDE DEF b, X
  <2> QED BY <2>1, <2>2
<1> HIDE DEF a, b, X
<1>3. Len(a) + Len(b) = z - x + 1 /\ z - x + 1 \in Nat
  BY <1>1, <1>2
<1>4. a \o b \in Seq(X) /\ Len(a \o b) = z - x + 1
  BY <1>1, <1>2, <1>3, ConcatFacts
<1>5. ASSUME NEW n \in 1..(z - x + 1) PROVE (a \o b)[n] = L[x + n - 1]
  <2>1. (a \o b)[n] = IF n <= Len(a) THEN a[n] ELSE b[n - Len(a)]
    BY <1>1, <1>2, <1>3, <1>5, ConcatFacts
  <2>2. CASE n <= y - x + 1
    <3>1. n \in 1..(y - x + 1)
      BY <2>2
    <3> QED BY <1>1, <2>1, <2>2, <3>1
  <2>3. CASE ~(n <= y - x + 1)
    <3>1. n - (y - x + 1) \in 1..(z - y) /\ y + (n - (y - x + 1)) = x + n - 1
      BY <2>3
    <3> QED BY <1>1, <1>2, <2>1, <2>3, <3>1
  <2> QED BY <2>2, <2>3
<1>6. a \o b = [n \in 1..(z - x + 1) |-> (a \o b)[n]]
  <2> DEFINE s == a \o b
  <2>1. s \in Seq(X) /\ Len(s) = z - x + 1
    BY <1>4
  <2> HIDE DEF s
  <2>2. s = [n \in 1..Len(s) |-> s[n]]
    BY <2>1
  <2> QED BY <2>1, <2>2 DEF s
<1>7. a \o b = Row(L, x, z)
  BY <1>5, <1>6 DEF Row
<1> QED BY <1>7 DEF a, b

\* ss is made of N pieces of the row, which follow one another.
Pieces(L, N, a, b, X, ss) ==
    /\ N \in Nat /\ N # 0 /\ ss \in Seq(X) /\ Len(ss) = N
    /\ \A i \in 1..N : a[i] \in Nat /\ b[i] \in Nat /\ a[i] <= b[i]
    /\ \A i \in 1..(N - 1) : a[i + 1] = b[i] + 1
    /\ \A i \in 1..N : ss[i] = Row(L, a[i], b[i])

LEMMA RowFlatten ==
    ASSUME NEW L, NEW N, NEW a, NEW b, NEW X, NEW ss, Pieces(L, N, a, b, X, ss)
    PROVE  FlattenSeq(ss) = Row(L, a[1], b[N])
<1>1. /\ N \in Nat /\ N # 0 /\ ss \in Seq(X) /\ Len(ss) = N
      /\ \A i \in 1..N : a[i] \in Nat /\ b[i] \in Nat /\ a[i] <= b[i]
      /\ \A i \in 1..(N - 1) : a[i + 1] = b[i] + 1
      /\ \A i \in 1..N : ss[i] = Row(L, a[i], b[i])
  BY DEF Pieces
<1>2. PICK f : Joined(ss, f) /\ FlattenSeq(ss) = f[N]
  BY <1>1, FlattenFacts
<1>3. /\ f[1] = ss[1] /\ \A i \in 1..(N - 1) : f[i + 1] = f[i] \o ss[i + 1]
  BY <1>1, <1>2 DEF Joined
<1> DEFINE T == {n \in 0..(N - 1) : f[n + 1] = Row(L, a[1], b[n + 1]) /\ a[1] <= b[n + 1]}
<1>4. 0 \in T
  <2>1. 1 \in 1..N /\ 0 + 1 = 1 /\ 0 \in 0..(N - 1)
    BY <1>1
  <2> QED BY <1>1, <1>3, <2>1
<1>5. ASSUME NEW n \in 0..((N - 1) - 1), n \in T PROVE n + 1 \in T
  <2> DEFINE k == n + 1
  <2>1. k \in 1..(N - 1) /\ k \in 1..N /\ k + 1 \in 1..N /\ k \in 0..(N - 1) /\ 1 \in 1..N
    BY <1>1
  <2>2. f[k] = Row(L, a[1], b[k]) /\ a[1] <= b[k]
    BY <1>5
  <2> HIDE DEF k
  <2>3. f[k + 1] = Row(L, a[1], b[k]) \o Row(L, b[k] + 1, b[k + 1])
    BY <1>1, <1>3, <2>1, <2>2
  <2>4. a[1] \in Nat /\ b[k] \in Nat /\ b[k + 1] \in Nat /\ a[k + 1] <= b[k + 1] /\ a[k + 1] = b[k] + 1
    BY <1>1, <2>1
  <2>5. b[k] < b[k + 1] /\ a[1] <= b[k + 1]
    BY <2>2, <2>4
  <2>6. f[k + 1] = Row(L, a[1], b[k + 1])
    BY <2>2, <2>3, <2>4, <2>5, RowJoin
  <2> QED BY <2>1, <2>5, <2>6 DEF k
<1>6. N - 1 \in T
  <2> HIDE DEF T
  <2>1. N - 1 \in Nat
    BY <1>1
  <2>2. 0..(N - 1) \subseteq T
    BY <1>4, <1>5, <2>1, UpTo
  <2> QED BY <2>1, <2>2
<1>7. (N - 1) + 1 = N
  BY <1>1
<1> QED BY <1>2, <1>6, <1>7

\* One step of LeavesInOrder: t gives the leaves one level further down.
Beneath(pgs, t) ==
    [p \in PageIds |->
        IF pgs[p].kind # "internal" THEN <<p>>
        ELSE FlattenSeq([i \in DOMAIN pgs[p].children |-> t[pgs[p].children[i]]])]

\* The leaves under each page for every depth, of which LeavesInOrder is the last.
Unrolled(t) ==
    /\ t[0] = [p \in PageIds |-> <<p>>]
    /\ \A d \in 0..(MaxPage - 1) : t[d + 1] = Beneath(pages, t[d])

LEMMA LeavesUnrolled == \E t : Unrolled(t) /\ LeavesInOrder = t[MaxPage]
<1> DEFINE N == MaxPage
           z == [p \in PageIds |-> <<p>>]
           body(t) == [d \in 0..N |->
                        [p \in PageIds |->
                            IF d = 0 \/ pages[p].kind # "internal" THEN <<p>>
                            ELSE FlattenSeq([i \in DOMAIN pages[p].children |->
                                                t[d - 1][pages[p].children[i]]])]]
           Run(f, n) == /\ DOMAIN f = 0..n /\ f[0] = z
                        /\ \A d \in 0..(n - 1) : f[d + 1] = Beneath(pages, f[d])
           T == {n \in 0..N : \E f : Run(f, n)}
           m == CHOOSE t : t = body(t)
<1>1. N \in Nat /\ N >= 1
  BY Constants
<1>2. LeavesInOrder = m[N]
  BY DEF LeavesInOrder
<1> HIDE DEF N, z
<1>3. 0 \in T
  <2>1. Run([i \in 0..0 |-> z], 0)
    OBVIOUS
  <2>2. 0 \in 0..N
    BY <1>1
  <2> HIDE DEF Run
  <2>3. \E f : Run(f, 0)
    BY <2>1
  <2> QED BY <2>2, <2>3
<1>4. ASSUME NEW n \in 0..(N - 1), n \in T PROVE n + 1 \in T
  <2>1. PICK f : Run(f, n)
    BY <1>4
  <2> DEFINE x == Beneath(pages, f[n])
             g == [i \in 0..(n + 1) |-> IF i = n + 1 THEN x ELSE f[i]]
  <2>2. n + 1 \in 0..N /\ n \in Nat /\ (n + 1) - 1 = n
    BY <1>1
  <2> HIDE DEF x
  <2>3. /\ DOMAIN g = 0..(n + 1) /\ g[0] = z /\ g[n + 1] = x
        /\ \A i \in 0..n : g[i] = f[i]
    <3>1. /\ n + 1 \in 0..(n + 1) /\ 0 \in 0..n
          /\ \A i \in 0..n : i \in 0..(n + 1) /\ i # n + 1
      BY <2>2
    <3>2. f[0] = z
      BY <2>1
    <3> QED BY <3>1, <3>2
  <2> HIDE DEF g
  <2>4. ASSUME NEW d \in 0..n PROVE g[d + 1] = Beneath(pages, g[d])
    <3>1. CASE d = n
      <4>1. g[d] = f[n]
        BY <2>3, <3>1
      <4> QED BY <2>3, <3>1, <4>1 DEF x
    <3>2. CASE d # n
      <4>1. d \in 0..(n - 1) /\ d + 1 \in 0..n
        BY <2>2, <2>4, <3>2
      <4>2. g[d + 1] = f[d + 1] /\ g[d] = f[d] /\ f[d + 1] = Beneath(pages, f[d])
        BY <2>1, <2>3, <4>1
      <4> QED BY <4>2
    <3> QED BY <3>1, <3>2
  <2>5. Run(g, n + 1)
    BY <2>2, <2>3, <2>4
  <2> HIDE DEF Run
  <2>6. \E h : Run(h, n + 1)
    BY <2>5
  <2> QED BY <2>2, <2>6
<1>5. PICK f : Run(f, N)
  <2>1. N \in T
    <3> HIDE DEF T
    <3>1. 0..N \subseteq T
      BY <1>1, <1>3, <1>4, UpTo
    <3> QED BY <1>1, <3>1
  <2> QED BY <2>1
<1> DEFINE g == [i \in 0..N |-> f[i]]
<1>6. \A t : \A d \in 0..N : body(t)[d] = IF d = 0 THEN z ELSE Beneath(pages, t[d - 1])
  <2> TAKE t
  <2> TAKE d \in 0..N
  <2>1. body(t)[d] = [p \in PageIds |->
                            IF d = 0 \/ pages[p].kind # "internal" THEN <<p>>
                            ELSE FlattenSeq([i \in DOMAIN pages[p].children |->
                                                t[d - 1][pages[p].children[i]]])]
    OBVIOUS
  <2> HIDE DEF body
  <2>2. CASE d = 0
    <3>1. body(t)[d] = [p \in PageIds |-> <<p>>]
      BY <2>1, <2>2, Zenon
    <3> QED BY <2>2, <3>1 DEF z
  <2>3. CASE d # 0
    <3>1. body(t)[d] = Beneath(pages, t[d - 1])
      BY <2>1, <2>3, Zenon DEF Beneath
    <3> QED BY <2>3, <3>1
  <2> QED BY <2>2, <2>3
<1>7. \A t : body(t) = [d \in 0..N |-> body(t)[d]]
  OBVIOUS
<1> HIDE DEF body
<1>8. g = body(g)
  <2>1. ASSUME NEW d \in 0..N PROVE g[d] = body(g)[d]
    <3>1. g[d] = f[d]
      OBVIOUS
    <3>2. CASE d = 0
      <4>1. f[0] = z
        BY <1>5
      <4> QED BY <1>6, <3>1, <3>2, <4>1
    <3>3. CASE d # 0
      <4>1. d - 1 \in 0..(N - 1) /\ (d - 1) + 1 = d /\ d - 1 \in 0..N
        BY <1>1, <3>3
      <4>2. f[d] = Beneath(pages, f[d - 1])
        BY <1>5, <4>1
      <4>3. g[d - 1] = f[d - 1]
        BY <4>1
      <4> HIDE DEF g
      <4> QED BY <1>6, <3>1, <3>3, <4>2, <4>3
    <3> QED BY <3>2, <3>3
  <2>2. g = [d \in 0..N |-> g[d]]
    OBVIOUS
  <2> HIDE DEF g
  <2> QED BY <1>7, <2>1, <2>2
<1>9. m = body(m)
  <2> HIDE DEF g
  <2> QED BY <1>8
<1> HIDE DEF m
<1>10. Unrolled(m)
  <2>1. m[0] = z
    <3>1. 0 \in 0..N
      BY <1>1
    <3> QED BY <1>6, <1>9, <3>1
  <2>2. ASSUME NEW d \in 0..(N - 1) PROVE m[d + 1] = Beneath(pages, m[d])
    <3>1. d + 1 \in 0..N /\ d + 1 # 0 /\ (d + 1) - 1 = d
      BY <1>1
    <3>2. body(m)[d + 1] = Beneath(pages, m[(d + 1) - 1])
      BY <1>6, <3>1
    <3> QED BY <1>9, <3>1, <3>2
  <2> QED BY <2>1, <2>2 DEF Unrolled, z, N
<1> QED BY <1>2, <1>10 DEF N

\* Under a stored page are the leaves that it spans, in the order of the row.
LEMMA LeavesRow ==
    ASSUME Linked(pages), NEW rt, NEW S, NEW m, NEW L, NEW K, NEW lo, NEW hi,
           Complete(pages, rt, S, m, L, K, lo, hi), NEW lev, Levels(pages, lev),
           NEW t, Unrolled(t)
    PROVE  \A d \in 0..MaxPage : \A p \in PageIds :
                pages[p].kind # "missing" /\ lev[p] <= d => t[d][p] = Row(L, lo[p], hi[p])
<1> DEFINE Good(d) == \A p \in PageIds : pages[p].kind # "missing" /\ lev[p] <= d =>
                                            t[d][p] = Row(L, lo[p], hi[p])
           T == {d \in 0..MaxPage : Good(d)}
<1>1. /\ MaxPage \in Nat /\ lev \in [PageIds -> Nat] /\ lo \in [PageIds -> Nat] /\ m \in Nat
      /\ \A p \in PageIds : pages[p].kind \in {"leaf", "internal", "missing"}
      /\ \A p \in PageIds : pages[p].kind = "leaf" =>
            lo[p] \in 1..m /\ hi[p] = lo[p] /\ L[lo[p]] = p
  <2>1. \A p \in PageIds : pages[p].kind \in {"leaf", "internal", "missing"}
    BY NodeFields DEF Linked
  <2>2. MaxPage \in Nat
    BY Constants
  <2>3. /\ lev \in [PageIds -> Nat] /\ lo \in [PageIds -> Nat] /\ m \in Nat
    BY DEF Levels, Complete, Standing, Ranges, Fences
  <2>4. \A p \in PageIds : pages[p].kind = "leaf" =>
            lo[p] \in 1..m /\ hi[p] = lo[p] /\ L[lo[p]] = p
    <3>1. Chain(pages, m, L, lo, hi)
      BY DEF Complete, Standing
    <3> QED BY <3>1 DEF Chain
  <2> QED BY <2>1, <2>2, <2>3, <2>4
<1>2. ASSUME NEW p \in PageIds, pages[p].kind = "leaf" PROVE <<p>> = Row(L, lo[p], hi[p])
  <2>1. /\ hi[p] - lo[p] + 1 = 1 /\ \A j \in 1..1 : lo[p] + j - 1 = lo[p]
    BY <1>1, <1>2
  <2>2. Row(L, lo[p], hi[p]) = [j \in 1..1 |-> p]
    BY <1>1, <1>2, <2>1 DEF Row
  <2> QED BY <2>2
<1>3. ASSUME NEW p \in PageIds, pages[p].kind = "internal"
      PROVE  /\ Placed(pages, p, m, K, lo, hi)
             /\ \A i \in 1..(Len(pages[p].keys) + 1) : lev[pages[p].children[i]] + 1 = lev[p]
  <2>1. Placed(pages, p, m, K, lo, hi)
    BY <1>3, PlacedFacts
  <2>2. pages[p].children \in Seq(PageIds) /\ Len(pages[p].children) = Len(pages[p].keys) + 1
    BY <2>1, ChildFacts
  <2>3. DOMAIN pages[p].children = 1..(Len(pages[p].keys) + 1)
    BY <2>2
  <2> QED BY <2>1, <2>3 DEF Levels
<1>4. Good(0)
  <2> SUFFICES ASSUME NEW p \in PageIds, pages[p].kind # "missing", lev[p] <= 0
               PROVE  t[0][p] = Row(L, lo[p], hi[p])
    OBVIOUS
  <2>1. pages[p].kind = "leaf"
    <3> SUFFICES ASSUME pages[p].kind = "internal" PROVE FALSE
      BY <1>1
    <3>1. Len(pages[p].keys) \in Nat /\ pages[p].children[1] \in PageIds
      <4>1. /\ Len(pages[p].keys) \in Nat
            /\ \A i \in 1..(Len(pages[p].keys) + 1) : pages[p].children[i] \in PageIds
        BY <1>3, ChildFacts
      <4> QED BY <4>1
    <3>2. lev[pages[p].children[1]] + 1 = lev[p]
      BY <1>3, <3>1
    <3>3. lev[pages[p].children[1]] \in Nat /\ lev[p] \in Nat
      BY <1>1, <3>1
    <3> QED BY <3>2, <3>3
  <2>2. t[0][p] = <<p>>
    BY DEF Unrolled
  <2> QED BY <1>2, <2>1, <2>2
<1>5. ASSUME NEW d \in 0..(MaxPage - 1), Good(d) PROVE Good(d + 1)
  <2> SUFFICES ASSUME NEW p \in PageIds, pages[p].kind # "missing", lev[p] <= d + 1
               PROVE  t[d + 1][p] = Row(L, lo[p], hi[p])
    OBVIOUS
  <2>1. t[d + 1][p] = IF pages[p].kind # "internal" THEN <<p>>
                      ELSE FlattenSeq([i \in DOMAIN pages[p].children |-> t[d][pages[p].children[i]]])
    BY DEF Unrolled, Beneath
  <2>2. CASE pages[p].kind = "leaf"
    BY <1>2, <2>1, <2>2
  <2>3. CASE pages[p].kind = "internal"
    <3> DEFINE ks == pages[p].keys
               cs == pages[p].children
               N == Len(ks) + 1
               a == [i \in 1..N |-> lo[cs[i]]]
               b == [i \in 1..N |-> hi[cs[i]]]
    <3>1. /\ Placed(pages, p, m, K, lo, hi) /\ \A i \in 1..N : lev[cs[i]] + 1 = lev[p]
      BY <1>3, <2>3
    <3>2. /\ cs \in Seq(PageIds) /\ Len(ks) \in Nat /\ Len(cs) = N
          /\ \A i \in 1..N : /\ cs[i] \in PageIds /\ pages[cs[i]].kind # "missing"
                             /\ lo[cs[i]] \in Nat /\ hi[cs[i]] \in Nat /\ lo[cs[i]] <= hi[cs[i]]
      BY <3>1, ChildFacts
    <3>3. Spans(ks, cs, lo[p], hi[p], K, lo, hi)
      BY <3>1 DEF Placed
    <3>4. /\ lo[cs[1]] = lo[p] /\ hi[cs[N]] = hi[p]
          /\ \A i \in 1..(N - 1) : lo[cs[i + 1]] = hi[cs[i]] + 1
      <4>1. N - 1 = Len(ks)
        BY <3>2
      <4> QED BY <3>3, <4>1 DEF Spans
    <3>5. N \in Nat /\ N # 0 /\ DOMAIN cs = 1..N /\ 1 \in 1..N /\ N \in 1..N
      BY <3>2
    <3> HIDE DEF cs, N, ks
    <3>6. \A i \in 1..N : t[d][cs[i]] = Row(L, lo[cs[i]], hi[cs[i]])
      <4> TAKE i \in 1..N
      <4>1. lev[cs[i]] \in Nat /\ lev[p] \in Nat
        BY <1>1, <3>2
      <4>2. lev[cs[i]] <= d
        BY <3>1, <4>1
      <4> QED BY <1>5, <3>2, <4>2
    <3>7. /\ \A i \in 1..N : a[i] = lo[cs[i]] /\ b[i] = hi[cs[i]]
      OBVIOUS
    <3> HIDE DEF a, b
    <3>8. \A i \in 1..(N - 1) : i \in 1..N /\ i + 1 \in 1..N
      BY <3>5
    <3>9. /\ \A i \in 1..N : a[i] \in Nat /\ b[i] \in Nat /\ a[i] <= b[i]
          /\ \A i \in 1..(N - 1) : a[i + 1] = b[i] + 1
      BY <3>2, <3>4, <3>7, <3>8
    <3> DEFINE X == {Row(L, lo[q], hi[q]) : q \in PageIds}
               ss == [i \in DOMAIN cs |-> t[d][cs[i]]]
    <3>10. ss \in Seq(X) /\ Len(ss) = N /\ \A i \in 1..N : ss[i] = Row(L, a[i], b[i])
      <4>1. ss \in [1..N -> X] /\ \A i \in 1..N : ss[i] = Row(L, a[i], b[i])
        BY <3>2, <3>5, <3>6, <3>7
      <4> HIDE DEF ss, X
      <4> QED BY <3>5, <4>1
    <3> HIDE DEF ss, X
    <3>11. FlattenSeq(ss) = Row(L, a[1], b[N])
      <4>1. Pieces(L, N, a, b, X, ss)
        BY <3>5, <3>9, <3>10 DEF Pieces
      <4> QED BY <4>1, RowFlatten
    <3>12. t[d + 1][p] = FlattenSeq(ss)
      BY <2>1, <2>3 DEF cs, ss
    <3> QED BY <3>4, <3>5, <3>7, <3>11, <3>12
  <2> QED BY <1>1, <2>2, <2>3
<1>6. 0..MaxPage \subseteq T
  <2> HIDE DEF Good
  <2>1. 0 \in T
    BY <1>1, <1>4
  <2>2. ASSUME NEW d \in 0..(MaxPage - 1), d \in T PROVE d + 1 \in T
    <3>1. d + 1 \in 0..MaxPage
      BY <1>1
    <3> QED BY <1>5, <2>2, <3>1
  <2> HIDE DEF T
  <2> QED BY <1>1, <2>1, <2>2, UpTo
<1> QED BY <1>6

\* An internal page has a child, one level down.
LEMMA InnerChild ==
    ASSUME NEW pgs, Linked(pgs), NEW lev, Levels(pgs, lev), NEW p \in PageIds,
           pgs[p].kind = "internal"
    PROVE  \E c \in PageIds : pgs[c].kind # "missing" /\ lev[c] + 1 = lev[p]
<1>1. pgs[p].keys \in Seq(Keys) /\ pgs[p].children \in Seq(PageIds)
  BY NodeFields DEF Linked
<1>2. Len(pgs[p].children) = Len(pgs[p].keys) + 1
  BY DEF Linked
<1>3. 1 \in DOMAIN pgs[p].children /\ pgs[p].children[1] \in PageIds
  BY <1>1, <1>2
<1>4. pgs[pgs[p].children[1]].kind # "missing" /\ lev[pgs[p].children[1]] + 1 = lev[p]
  BY <1>3 DEF Linked, Levels
<1> QED BY <1>3, <1>4

\* A leaf is at level 0, and no other stored page is.
LEMMA LeafLevel ==
    ASSUME NEW pgs, Linked(pgs), NEW lev, Levels(pgs, lev), NEW p \in PageIds,
           pgs[p].kind # "missing"
    PROVE  pgs[p].kind = IF lev[p] = 0 THEN "leaf" ELSE "internal"
<1>1. pgs[p].kind \in {"leaf", "internal", "missing"}
  BY NodeFields DEF Linked
<1>2. CASE pgs[p].kind = "leaf"
  BY <1>2 DEF Levels
<1>3. CASE pgs[p].kind = "internal"
  <2>1. PICK c \in PageIds : lev[c] + 1 = lev[p]
    BY <1>3, InnerChild
  <2>2. lev[c] \in Nat
    BY DEF Levels
  <2>3. lev[p] # 0
    BY <2>1, <2>2
  <2> QED BY <1>3, <2>3
<1> QED BY <1>1, <1>2, <1>3

\* There are fewer levels than pages.
LEMMA LevelBound ==
    ASSUME NEW pgs, Linked(pgs), NEW lev, Levels(pgs, lev), NEW p \in PageIds,
           pgs[p].kind # "missing"
    PROVE  lev[p] \in 0..MaxPage
<1> DEFINE N == lev[p]
           At(v) == \E q \in PageIds : pgs[q].kind # "missing" /\ lev[q] = v
           T == {n \in 0..N : At(N - n)}
<1>1. N \in Nat /\ MaxPage \in Nat /\ lev \in [PageIds -> Nat]
  BY Constants DEF Levels
<1> HIDE DEF N
<1>2. At(N)
  BY DEF N
<1>3. ASSUME NEW n \in 0..(N - 1), At(N - n) PROVE At(N - (n + 1))
  <2>1. PICK q \in PageIds : pgs[q].kind # "missing" /\ lev[q] = N - n
    BY <1>3
  <2>2. lev[q] # 0
    BY <1>1, <2>1
  <2>3. pgs[q].kind = "internal"
    BY <2>1, <2>2, LeafLevel
  <2>4. PICK c \in PageIds : pgs[c].kind # "missing" /\ lev[c] + 1 = lev[q]
    BY <2>3, InnerChild
  <2>5. lev[c] \in Nat
    BY <1>1
  <2>6. lev[c] = N - (n + 1)
    BY <1>1, <2>1, <2>4, <2>5
  <2> QED BY <2>4, <2>6
<1>4. 0..N \subseteq T
  <2> HIDE DEF At
  <2>1. 0 \in T
    <3>1. N - 0 = N /\ 0 \in 0..N
      BY <1>1
    <3> QED BY <1>2, <3>1
  <2>2. ASSUME NEW n \in 0..(N - 1), n \in T PROVE n + 1 \in T
    <3>1. n + 1 \in 0..N
      BY <1>1
    <3> QED BY <1>3, <2>2, <3>1
  <2> HIDE DEF T
  <2> QED BY <1>1, <2>1, <2>2, UpTo
<1>5. \A v \in 0..N : At(v)
  <2> TAKE v \in 0..N
  <2>1. N - v \in 0..N /\ N - (N - v) = v
    BY <1>1
  <2> HIDE DEF At
  <2>2. N - v \in T
    BY <1>4, <2>1
  <2>3. At(N - (N - v))
    BY <2>2
  <2> QED BY <2>1, <2>3
<1> DEFINE f == [v \in 0..N |-> CHOOSE q \in PageIds : lev[q] = v]
<1>6. \A v \in 0..N : f[v] \in PageIds /\ lev[f[v]] = v
  BY <1>5
<1>7. f \in [0..N -> PageIds]
  BY <1>6
<1> HIDE DEF f
<1>8. IsFiniteSet(0..N) /\ Cardinality(0..N) = N + 1
  <2>1. 0 \in Int /\ N \in Int /\ ~(0 > N) /\ N - 0 + 1 = N + 1
    BY <1>1
  <2> QED BY <2>1, FS_Interval
<1>9. IsFiniteSet(PageIds) /\ Cardinality(PageIds) = MaxPage
  <2>1. 1 \in Int /\ MaxPage \in Int /\ ~(1 > MaxPage) /\ MaxPage - 1 + 1 = MaxPage
    BY Constants
  <2> QED BY <2>1, FS_Interval DEF PageIds
<1>10. ASSUME MaxPage < N + 1 PROVE FALSE
  <2>1. Cardinality(PageIds) < Cardinality(0..N)
    BY <1>8, <1>9, <1>10
  <2>2. \E x, y \in 0..N : x # y /\ f[x] = f[y]
    BY <1>7, <1>8, <1>9, <2>1, FS_PigeonHole
  <2> QED BY <1>6, <2>2
<1>11. N \in 0..MaxPage
  BY <1>1, <1>10
<1> QED BY <1>11 DEF N

\* One step of Level.
LEMMA LevelFacts ==
    /\ DOMAIN Level = 0..MaxPage /\ Level[0] = {root}
    /\ \A d \in 0..(MaxPage - 1) :
        Level[d + 1] = UNION {Range(pages[p].children) : p \in Level[d]}
<1> DEFINE N == MaxPage
           down(S) == UNION {Range(pages[p].children) : p \in S}
           body(t) == [d \in 0..N |-> IF d = 0 THEN {root}
                                      ELSE UNION {Range(pages[p].children) : p \in t[d - 1]}]
           Run(f, n) == /\ DOMAIN f = 0..n /\ f[0] = {root}
                        /\ \A d \in 0..(n - 1) : f[d + 1] = down(f[d])
           T == {n \in 0..N : \E f : Run(f, n)}
           m == CHOOSE t : t = body(t)
<1>1. N \in Nat /\ N >= 1
  BY Constants
<1>2. Level = m
  BY DEF Level
<1> HIDE DEF N
<1>3. \A t : /\ DOMAIN body(t) = 0..N /\ body(t) = [d \in 0..N |-> body(t)[d]]
             /\ \A d \in 0..N : body(t)[d] = IF d = 0 THEN {root} ELSE down(t[d - 1])
  OBVIOUS
<1> HIDE DEF down, body
<1>4. 0 \in T
  <2>1. Run([i \in 0..0 |-> {root}], 0)
    OBVIOUS
  <2>2. 0 \in 0..N
    BY <1>1
  <2> HIDE DEF Run
  <2>3. \E f : Run(f, 0)
    BY <2>1
  <2> QED BY <2>2, <2>3
<1>5. ASSUME NEW n \in 0..(N - 1), n \in T PROVE n + 1 \in T
  <2>1. PICK f : Run(f, n)
    BY <1>5
  <2> DEFINE x == down(f[n])
             g == [i \in 0..(n + 1) |-> IF i = n + 1 THEN x ELSE f[i]]
  <2>2. n + 1 \in 0..N /\ n \in Nat /\ (n + 1) - 1 = n
    BY <1>1
  <2> HIDE DEF x
  <2>3. /\ DOMAIN g = 0..(n + 1) /\ g[0] = {root} /\ g[n + 1] = x
        /\ \A i \in 0..n : g[i] = f[i]
    <3>1. /\ n + 1 \in 0..(n + 1) /\ 0 \in 0..n
          /\ \A i \in 0..n : i \in 0..(n + 1) /\ i # n + 1
      BY <2>2
    <3>2. f[0] = {root}
      BY <2>1
    <3> QED BY <3>1, <3>2
  <2> HIDE DEF g
  <2>4. ASSUME NEW d \in 0..n PROVE g[d + 1] = down(g[d])
    <3>1. CASE d = n
      <4>1. g[d] = f[n]
        BY <2>3, <3>1
      <4> QED BY <2>3, <3>1, <4>1 DEF x
    <3>2. CASE d # n
      <4>1. d \in 0..(n - 1) /\ d + 1 \in 0..n
        BY <2>2, <2>4, <3>2
      <4>2. g[d + 1] = f[d + 1] /\ g[d] = f[d] /\ f[d + 1] = down(f[d])
        BY <2>1, <2>3, <4>1
      <4> QED BY <4>2
    <3> QED BY <3>1, <3>2
  <2>5. Run(g, n + 1)
    BY <2>2, <2>3, <2>4
  <2> HIDE DEF Run
  <2>6. \E h : Run(h, n + 1)
    BY <2>5
  <2> QED BY <2>2, <2>6
<1>6. PICK f : Run(f, N)
  <2>1. N \in T
    <3> HIDE DEF T
    <3>1. 0..N \subseteq T
      BY <1>1, <1>4, <1>5, UpTo
    <3> QED BY <1>1, <3>1
  <2> QED BY <2>1
<1> DEFINE g == [i \in 0..N |-> f[i]]
<1>7. g = body(g)
  <2>1. ASSUME NEW d \in 0..N PROVE g[d] = body(g)[d]
    <3>1. g[d] = f[d]
      OBVIOUS
    <3>2. CASE d = 0
      <4>1. f[0] = {root}
        BY <1>6
      <4> QED BY <1>3, <3>1, <3>2, <4>1
    <3>3. CASE d # 0
      <4>1. d - 1 \in 0..(N - 1) /\ (d - 1) + 1 = d /\ d - 1 \in 0..N
        BY <1>1, <3>3
      <4>2. f[d] = down(f[d - 1])
        BY <1>6, <4>1
      <4>3. g[d - 1] = f[d - 1]
        BY <4>1
      <4> HIDE DEF g
      <4> QED BY <1>3, <3>1, <3>3, <4>2, <4>3
    <3> QED BY <3>2, <3>3
  <2>2. g = [d \in 0..N |-> g[d]]
    OBVIOUS
  <2> HIDE DEF g
  <2> QED BY <1>3, <2>1, <2>2
<1>8. m = body(m)
  <2> HIDE DEF g
  <2> QED BY <1>7
<1> HIDE DEF m
<1>9. DOMAIN m = 0..N /\ m[0] = {root}
  <2>1. 0 \in 0..N
    BY <1>1
  <2> QED BY <1>3, <1>8, <2>1
<1>10. ASSUME NEW d \in 0..(N - 1) PROVE m[d + 1] = down(m[d])
  <2>1. d + 1 \in 0..N /\ d + 1 # 0 /\ (d + 1) - 1 = d
    BY <1>1
  <2>2. body(m)[d + 1] = down(m[(d + 1) - 1])
    BY <1>3, <2>1
  <2> QED BY <1>8, <2>1, <2>2
<1>11. \A d \in 0..(N - 1) : m[d + 1] = UNION {Range(pages[p].children) : p \in m[d]}
  BY <1>10 DEF down
<1> QED BY <1>2, <1>9, <1>11 DEF N

\* The pages at one depth are stored, and on one level.
LEMMA LevelPages ==
    ASSUME Linked(pages), root \in PageIds, pages[root].kind # "missing",
           NEW lev, Levels(pages, lev)
    PROVE  \A d \in 0..MaxPage : \A p \in Level[d] :
                p \in PageIds /\ pages[p].kind # "missing" /\ lev[p] + d = lev[root]
<1> DEFINE Good(d) == \A p \in Level[d] :
                          p \in PageIds /\ pages[p].kind # "missing" /\ lev[p] + d = lev[root]
           T == {d \in 0..MaxPage : Good(d)}
<1>1. MaxPage \in Nat /\ lev \in [PageIds -> Nat]
  BY Constants DEF Levels
<1>2. Good(0)
  <2>1. lev[root] + 0 = lev[root]
    BY <1>1
  <2> QED BY <2>1, LevelFacts
<1>3. ASSUME NEW d \in 0..(MaxPage - 1), Good(d) PROVE Good(d + 1)
  <2> SUFFICES ASSUME NEW c \in Level[d + 1]
               PROVE  c \in PageIds /\ pages[c].kind # "missing" /\ lev[c] + (d + 1) = lev[root]
    OBVIOUS
  <2>1. PICK p \in Level[d] : c \in Range(pages[p].children)
    BY LevelFacts
  <2>2. PICK i \in DOMAIN pages[p].children : c = pages[p].children[i]
    BY <2>1 DEF Range
  <2>3. p \in PageIds /\ lev[p] + d = lev[root]
    BY <1>3, <2>1
  <2>4. c \in PageIds
    <3>1. pages[p].children \in Seq(PageIds)
      BY <2>3, NodeFields DEF Linked
    <3> QED BY <2>2, <3>1
  <2>5. pages[c].kind # "missing" /\ lev[c] + 1 = lev[p]
    BY <2>2, <2>3 DEF Linked, Levels
  <2>6. lev[c] \in Nat /\ lev[p] \in Nat /\ lev[root] \in Nat
    BY <1>1, <2>3, <2>4
  <2>7. lev[c] + (d + 1) = lev[root]
    BY <1>1, <2>3, <2>5, <2>6
  <2> QED BY <2>4, <2>5, <2>7
<1>4. 0..MaxPage \subseteq T
  <2> HIDE DEF Good
  <2>1. 0 \in T
    BY <1>1, <1>2
  <2>2. ASSUME NEW d \in 0..(MaxPage - 1), d \in T PROVE d + 1 \in T
    <3>1. d + 1 \in 0..MaxPage
      BY <1>1
    <3> QED BY <1>3, <2>2, <3>1
  <2> HIDE DEF T
  <2> QED BY <1>1, <2>1, <2>2, UpTo
<1> QED BY <1>4

LEMMA RowMembers ==
    ASSUME NEW L, NEW x \in Nat, NEW y \in Nat, NEW l, l \in Range(Row(L, x, y))
    PROVE  \E j \in x..y : l = L[j]
<1>1. PICK i \in 1..(y - x + 1) : l = L[x + i - 1]
  BY DEF Range, Row
<1>2. x + i - 1 \in x..y
  OBVIOUS
<1> QED BY <1>1, <1>2

\* The layout at rest, with what its pages are.
AtRest(m, L, K, lo, hi) ==
    /\ Linked(pages) /\ Complete(pages, root, entries, m, L, K, lo, hi)
    /\ root \in PageIds /\ pages[root].kind # "missing"
    /\ \E lev : Levels(pages, lev)

LEMMA RestFacts ==
    ASSUME WalkInv, IndexInv, Intact
    PROVE  \E m, L, K, lo, hi : AtRest(m, L, K, lo, hi)
<1>1. PICK m, L, K, lo, hi : WorkingTree(m, L, K, lo, hi)
  BY DEF IndexInv, Intact
<1>2. Complete(pages, root, entries, m, L, K, lo, hi)
  BY <1>1 DEF WorkingTree, Intact
<1>3. Shaped(pages, nextPage) /\ root \in PageIds /\ pages[root].kind # "missing"
  BY WalkFacts
<1>4. Linked(pages)
  BY <1>3, ShapedLinked
<1>5. \E lev : Levels(pages, lev)
  BY DEF WalkInv
<1> QED BY <1>2, <1>3, <1>4, <1>5 DEF AtRest

LEMMA LeavesUnder ==
    ASSUME NEW m, NEW L, NEW K, NEW lo, NEW hi, AtRest(m, L, K, lo, hi),
           NEW p \in PageIds, pages[p].kind # "missing"
    PROVE  LeavesInOrder[p] = Row(L, lo[p], hi[p])
<1>1. PICK lev : Levels(pages, lev)
  BY DEF AtRest
<1>2. PICK t : Unrolled(t) /\ LeavesInOrder = t[MaxPage]
  BY LeavesUnrolled
<1>3. Linked(pages) /\ Complete(pages, root, entries, m, L, K, lo, hi)
  BY DEF AtRest
<1>4. lev[p] \in 0..MaxPage
  BY <1>1, <1>3, LevelBound
<1>5. MaxPage \in 0..MaxPage /\ lev[p] <= MaxPage
  BY <1>4, Constants
<1>6. \A d \in 0..MaxPage : \A q \in PageIds :
        pages[q].kind # "missing" /\ lev[q] <= d => t[d][q] = Row(L, lo[q], hi[q])
  BY <1>1, <1>2, <1>3, LeavesRow
<1> QED BY <1>2, <1>5, <1>6

\* An entry under page p stands in a leaf of the row that p spans.
LEMMA EntryUnder ==
    ASSUME NEW m, NEW L, NEW K, NEW lo, NEW hi, AtRest(m, L, K, lo, hi),
           NEW p \in PageIds, pages[p].kind # "missing", NEW e \in EntriesUnder(p)
    PROVE  \E q, a : Stands(pages, q, a, e) /\ lo[p] <= lo[q] /\ lo[q] <= hi[p]
<1>1. /\ Linked(pages) /\ Complete(pages, root, entries, m, L, K, lo, hi)
  BY DEF AtRest
<1>2. /\ lo \in [PageIds -> Nat] /\ hi \in [PageIds -> Nat]
      /\ 1 <= lo[p] /\ hi[p] <= m /\ m \in Nat
  BY <1>1 DEF Complete, Standing, Ranges, Fences
<1>3. PICK q \in Range(LeavesInOrder[p]) : e \in Range(pages[q].entries)
  BY DEF EntriesUnder
<1>4. q \in Range(Row(L, lo[p], hi[p]))
  BY <1>3, LeavesUnder
<1>5. lo[p] \in Nat /\ hi[p] \in Nat
  BY <1>2
<1>6. PICK j \in lo[p]..hi[p] : q = L[j]
  BY <1>4, <1>5, RowMembers
<1>7. j \in 1..m /\ lo[p] <= j /\ j <= hi[p]
  BY <1>2, <1>5, <1>6
<1>8. q \in PageIds /\ pages[q].kind = "leaf" /\ lo[q] = j
  BY <1>1, <1>6, <1>7 DEF Complete, Standing, Chain
<1>9. pages[q].entries \in Seq(Entry)
  BY <1>1, <1>8, NodeFields DEF Linked
<1>10. PICK a \in 1..Len(pages[q].entries) : e = pages[q].entries[a]
  BY <1>3, <1>9 DEF Range
<1>11. Stands(pages, q, a, e)
  BY <1>8, <1>10 DEF Stands, IsLeaf
<1> QED BY <1>7, <1>8, <1>11

LEMMA SeparatorsHold ==
    ASSUME NEW m, NEW L, NEW K, NEW lo, NEW hi, AtRest(m, L, K, lo, hi)
    PROVE  SeparatorsBound
<1> SUFFICES ASSUME NEW p \in UNION Range(Level), pages[p].kind = "internal"
             PROVE  /\ Len(pages[p].children) = Len(pages[p].keys) + 1
                    /\ \A i \in DOMAIN pages[p].keys :
                        /\ \A e \in EntriesUnder(pages[p].children[i]) : e.key <= pages[p].keys[i]
                        /\ \A e \in EntriesUnder(pages[p].children[i + 1]) : e.key >= pages[p].keys[i]
  BY DEF SeparatorsBound
<1>1. /\ Linked(pages) /\ Complete(pages, root, entries, m, L, K, lo, hi)
      /\ root \in PageIds /\ pages[root].kind # "missing" /\ \E lev : Levels(pages, lev)
  BY DEF AtRest
<1>2. p \in PageIds
  <2>1. PICK d \in 0..MaxPage : p \in Level[d]
    BY LevelFacts DEF Range
  <2> QED BY <1>1, <2>1, LevelPages
<1> DEFINE ks == pages[p].keys
           cs == pages[p].children
<1>3. Placed(pages, p, m, K, lo, hi)
  BY <1>1, <1>2, PlacedFacts
<1>4. /\ ks \in Seq(Keys) /\ Len(ks) \in Nat /\ Len(cs) = Len(ks) + 1
      /\ \A i \in 1..(Len(ks) + 1) : /\ cs[i] \in PageIds /\ pages[cs[i]].kind # "missing"
                                     /\ lo[cs[i]] \in Nat /\ hi[cs[i]] \in Nat
      /\ \A i \in 1..Len(ks) : hi[cs[i]] \in 1..(m - 1) /\ ks[i] = K[hi[cs[i]]]
  BY <1>3, ChildFacts
<1>5. /\ m \in Nat /\ \A a, b \in 1..(m - 1) : a <= b => K[a] <= K[b]
      /\ \A a \in 1..(m - 1) : K[a] \in Int
  <2>1. Fences(m, K)
    BY <1>3 DEF Placed
  <2> QED BY <2>1, Constants DEF Fences
<1>6. \A i \in 1..Len(ks) : lo[cs[i + 1]] = hi[cs[i]] + 1
  BY <1>3 DEF Placed, Spans
<1>7. DOMAIN ks = 1..Len(ks)
  BY <1>4
<1> HIDE DEF ks, cs
<1>8. ASSUME NEW i \in 1..Len(ks), NEW e \in EntriesUnder(cs[i]) PROVE e.key <= ks[i]
  <2>1. i \in 1..(Len(ks) + 1)
    BY <1>4
  <2>2. PICK q, a : Stands(pages, q, a, e) /\ lo[cs[i]] <= lo[q] /\ lo[q] <= hi[cs[i]]
    BY <1>4, <1>8, <2>1, EntryUnder
  <2>3. /\ lo[q] \in 1..m /\ e.key \in Int
        /\ lo[q] < m => e.key <= K[lo[q]] /\ K[lo[q]] \in Int
    BY <1>1, <2>2, EntryPlace
  <2>4. hi[cs[i]] \in 1..(m - 1) /\ ks[i] = K[hi[cs[i]]]
    BY <1>4
  <2>5. lo[q] < m /\ lo[q] \in 1..(m - 1)
    BY <1>5, <2>2, <2>3, <2>4
  <2>6. K[lo[q]] <= K[hi[cs[i]]] /\ K[hi[cs[i]]] \in Int
    BY <1>5, <2>2, <2>4, <2>5
  <2> QED BY <2>3, <2>4, <2>5, <2>6
<1>9. ASSUME NEW i \in 1..Len(ks), NEW e \in EntriesUnder(cs[i + 1]) PROVE e.key >= ks[i]
  <2>1. i + 1 \in 1..(Len(ks) + 1)
    BY <1>4
  <2>2. PICK q, a : Stands(pages, q, a, e) /\ lo[cs[i + 1]] <= lo[q] /\ lo[q] <= hi[cs[i + 1]]
    BY <1>4, <1>9, <2>1, EntryUnder
  <2>3. /\ lo[q] \in 1..m /\ e.key \in Int
        /\ lo[q] > 1 => K[lo[q] - 1] <= e.key /\ K[lo[q] - 1] \in Int
    BY <1>1, <2>2, EntryPlace
  <2>4. hi[cs[i]] \in 1..(m - 1) /\ ks[i] = K[hi[cs[i]]] /\ lo[cs[i + 1]] = hi[cs[i]] + 1
    BY <1>4, <1>6
  <2>5. lo[q] > 1 /\ lo[q] - 1 \in 1..(m - 1) /\ hi[cs[i]] <= lo[q] - 1
    BY <1>5, <2>2, <2>3, <2>4
  <2>6. K[hi[cs[i]]] <= K[lo[q] - 1] /\ K[hi[cs[i]]] \in Int
    BY <1>5, <2>4, <2>5
  <2> QED BY <2>3, <2>4, <2>5, <2>6
<1> QED BY <1>4, <1>7, <1>8, <1>9 DEF ks, cs

LEMMA LevelsAlike ==
    ASSUME NEW m, NEW L, NEW K, NEW lo, NEW hi, AtRest(m, L, K, lo, hi)
    PROVE  LeavesAtOneLevel
<1>1. PICK lev : Levels(pages, lev)
  BY DEF AtRest
<1>2. Linked(pages) /\ root \in PageIds /\ pages[root].kind # "missing"
  BY DEF AtRest
<1> SUFFICES ASSUME NEW d \in DOMAIN Level, NEW p \in Level[d], NEW q \in Level[d]
             PROVE  pages[p].kind = pages[q].kind
  BY DEF LeavesAtOneLevel
<1>3. d \in 0..MaxPage
  BY LevelFacts
<1>4. /\ p \in PageIds /\ pages[p].kind # "missing" /\ lev[p] + d = lev[root]
      /\ q \in PageIds /\ pages[q].kind # "missing" /\ lev[q] + d = lev[root]
  BY <1>1, <1>2, <1>3, LevelPages
<1>5. lev[p] \in Nat /\ lev[q] \in Nat /\ d \in Int
  BY <1>1, <1>3, <1>4 DEF Levels
<1>6. lev[p] = lev[q]
  BY <1>4, <1>5
<1> QED BY <1>1, <1>2, <1>4, <1>6, LeafLevel

\* insert keeps the tree in shape: after any splits, where no caller commits after an
\* insert has failed, every separator bounds the keys on its two sides, and all leaves
\* are equally deep.
THEOREM ShapeKept == CommitAfterError = FALSE => (Spec => []TreeShape)
<1> SUFFICES ASSUME CommitAfterError = FALSE PROVE Spec => []TreeShape
  OBVIOUS
<1>1. Init => WalkInv /\ IndexInv
  BY WalkInit, IndexInit
<1>2. (WalkInv /\ IndexInv) /\ [Next]_vars => (WalkInv /\ IndexInv)'
  BY WalkStep, IndexStep
<1>3. WalkInv /\ IndexInv => TreeShape
  <2> SUFFICES ASSUME WalkInv, IndexInv PROVE SeparatorsBound /\ LeavesAtOneLevel
    BY DEF TreeShape
  <2>1. CASE Intact
    <3>1. PICK m, L, K, lo, hi : AtRest(m, L, K, lo, hi)
      BY <2>1, RestFacts
    <3> QED BY <3>1, SeparatorsHold, LevelsAlike
  <2>2. CASE ~Intact
    BY <2>2 DEF SeparatorsBound, LeavesAtOneLevel
  <2> QED BY <2>1, <2>2
<1> QED BY <1>1, <1>2, <1>3, PTL DEF Spec

\* A sequence of entries in the order of their keys, without repetition.
Listed(s) ==
    /\ s \in Seq(Entry)
    /\ \A x, y \in 1..Len(s) : x < y => s[x].key <= s[y].key /\ s[x] # s[y]

LEMMA ListedJoin ==
    ASSUME NEW s, NEW t, Listed(s), Listed(t),
           \A x \in 1..Len(s), y \in 1..Len(t) : s[x].key <= t[y].key /\ s[x] # t[y]
    PROVE  Listed(s \o t) /\ Range(s \o t) = Range(s) \cup Range(t)
<1> DEFINE u == s \o t
           m == Len(s)
           n == Len(t)
<1>1. s \in Seq(Entry) /\ t \in Seq(Entry)
  BY DEF Listed
<1>2. m \in Nat /\ n \in Nat /\ DOMAIN s = 1..m /\ DOMAIN t = 1..n
  BY <1>1
<1>3. /\ u \in Seq(Entry) /\ Len(u) = m + n
      /\ \A x \in 1..(m + n) : u[x] = IF x <= m THEN s[x] ELSE t[x - m]
  BY <1>1, ConcatFacts
<1> HIDE DEF u, m, n
<1>4. /\ \A x \in 1..m : x \in 1..(m + n) /\ u[x] = s[x]
      /\ \A y \in 1..n : m + y \in 1..(m + n) /\ u[m + y] = t[y]
  <2>1. \A x \in 1..m : x \in 1..(m + n) /\ x <= m
    BY <1>2
  <2>2. \A y \in 1..n : m + y \in 1..(m + n) /\ ~(m + y <= m) /\ (m + y) - m = y
    BY <1>2
  <2> QED BY <1>3, <2>1, <2>2
<1>5. \A x \in 1..(m + n) : x \in 1..m \/ \E y \in 1..n : x = m + y
  <2> TAKE x \in 1..(m + n)
  <2>1. x \in 1..m \/ (x - m \in 1..n /\ x = m + (x - m))
    BY <1>2
  <2> QED BY <2>1
<1>6. DOMAIN u = 1..(m + n)
  BY <1>2, <1>3
<1>7. Range(u) = Range(s) \cup Range(t)
  <2>1. /\ Range(u) = {u[x] : x \in 1..(m + n)} /\ Range(s) = {s[x] : x \in 1..m}
        /\ Range(t) = {t[y] : y \in 1..n}
    BY <1>2, <1>6 DEF Range
  <2>2. \A v \in Range(s) : v \in Range(u)
    BY <1>4, <2>1
  <2>3. \A v \in Range(t) : v \in Range(u)
    BY <1>4, <2>1
  <2>4. \A v \in Range(u) : v \in Range(s) \cup Range(t)
    <3> TAKE v \in Range(u)
    <3>1. PICK x \in 1..(m + n) : v = u[x]
      BY <2>1
    <3>2. CASE x \in 1..m
      BY <1>4, <2>1, <3>1, <3>2
    <3>3. CASE \E y \in 1..n : x = m + y
      BY <1>4, <2>1, <3>1, <3>3
    <3> QED BY <1>5, <3>2, <3>3
  <2> QED BY <2>2, <2>3, <2>4
<1>8. ASSUME NEW x \in 1..(m + n), NEW y \in 1..(m + n), x < y
      PROVE  u[x].key <= u[y].key /\ u[x] # u[y]
  <2>1. CASE x \in 1..m /\ y \in 1..m
    BY <1>4, <1>8, <2>1 DEF Listed, m
  <2>2. CASE x \in 1..m /\ \E b \in 1..n : y = m + b
    BY <1>4, <2>2 DEF m, n
  <2>3. CASE (\E a \in 1..n : x = m + a) /\ (\E b \in 1..n : y = m + b)
    <3>1. PICK a \in 1..n, b \in 1..n : x = m + a /\ y = m + b
      BY <2>3
    <3>2. a < b
      BY <1>2, <1>8, <3>1
    <3>3. t[a].key <= t[b].key /\ t[a] # t[b]
      BY <3>2 DEF Listed, n
    <3> QED BY <1>4, <3>1, <3>3
  <2>4. ~((\E a \in 1..n : x = m + a) /\ y \in 1..m)
    BY <1>2, <1>8
  <2> QED BY <1>5, <2>1, <2>2, <2>3, <2>4
<1>9. Listed(u)
  BY <1>3, <1>8 DEF Listed
<1> QED BY <1>7, <1>9 DEF u

\* The entries of the first n parts.
Parts(ss, n) == {e \in Entry : \E i \in 1..n : e \in Range(ss[i])}

\* Parts that are in order one by one and one after another.
ListedParts(ss) ==
    /\ \A i \in 1..Len(ss) : Listed(ss[i])
    /\ \A i, j \in 1..Len(ss) : i < j =>
        \A e \in Range(ss[i]), f \in Range(ss[j]) : e.key <= f.key /\ e # f

LEMMA ListedRange ==
    ASSUME NEW s, Listed(s)
    PROVE  Range(s) \subseteq Entry /\ \A x \in 1..Len(s) : s[x] \in Range(s)
  BY DEF Listed, Range

LEMMA PartsFlatten ==
    ASSUME NEW X, NEW ss \in Seq(X), Len(ss) # 0, ListedParts(ss)
    PROVE  Listed(FlattenSeq(ss)) /\ Range(FlattenSeq(ss)) = Parts(ss, Len(ss))
<1> DEFINE N == Len(ss)
<1>1. PICK f : Joined(ss, f) /\ FlattenSeq(ss) = f[N]
  BY FlattenFacts
<1>2. /\ N \in Nat /\ N # 0 /\ f[1] = ss[1]
      /\ \A i \in 1..(N - 1) : f[i + 1] = f[i] \o ss[i + 1]
      /\ \A i \in 1..N : Listed(ss[i])
      /\ \A i, j \in 1..N : i < j =>
            \A e \in Range(ss[i]), g \in Range(ss[j]) : e.key <= g.key /\ e # g
  <2>1. N \in Nat /\ N # 0
    OBVIOUS
  <2>2. f[1] = ss[1] /\ \A i \in 1..(N - 1) : f[i + 1] = f[i] \o ss[i + 1]
    BY <1>1 DEF Joined
  <2> QED BY <2>1, <2>2 DEF ListedParts
<1> HIDE DEF N
<1> DEFINE Good(n) == Listed(f[n]) /\ Range(f[n]) = Parts(ss, n)
           T == {n \in 0..(N - 1) : Good(n + 1)}
<1>3. Good(1)
  <2>1. 1 \in 1..N /\ 1..1 = {1}
    BY <1>2
  <2>2. Listed(ss[1]) /\ Range(ss[1]) \subseteq Entry
    BY <1>2, <2>1, ListedRange
  <2>3. Parts(ss, 1) = Range(ss[1])
    BY <2>1, <2>2 DEF Parts
  <2> QED BY <1>2, <2>2, <2>3
<1>4. ASSUME NEW k \in 1..(N - 1), Good(k) PROVE Good(k + 1)
  <2>1. k + 1 \in 1..N /\ k \in Nat /\ 1..(k + 1) = 1..k \cup {k + 1}
        /\ \A i \in 1..k : i \in 1..N /\ i < k + 1
    BY <1>2
  <2>2. Listed(f[k]) /\ Listed(ss[k + 1]) /\ Range(f[k]) = Parts(ss, k)
    BY <1>2, <1>4, <2>1
  <2>3. Range(ss[k + 1]) \subseteq Entry
    BY <2>2, ListedRange
  <2>4. \A e \in Range(f[k]), g \in Range(ss[k + 1]) : e.key <= g.key /\ e # g
    <3> TAKE e \in Range(f[k]), g \in Range(ss[k + 1])
    <3>1. PICK i \in 1..k : e \in Range(ss[i])
      BY <2>2 DEF Parts
    <3>2. i \in 1..N /\ i < k + 1
      BY <2>1
    <3> QED BY <1>2, <2>1, <3>1, <3>2
  <2> DEFINE s == f[k]
             t == ss[k + 1]
  <2>5. \A x \in 1..Len(s), y \in 1..Len(t) : s[x].key <= t[y].key /\ s[x] # t[y]
    BY <2>2, <2>4, ListedRange
  <2>6. Listed(s) /\ Listed(t)
    BY <2>2
  <2>7. f[k + 1] = s \o t
    BY <1>2
  <2>8. Parts(ss, k + 1) = Parts(ss, k) \cup Range(t)
    BY <2>1, <2>3 DEF Parts
  <2>9. Range(s) = Parts(ss, k)
    BY <2>2
  <2> HIDE DEF s, t
  <2>10. Listed(s \o t) /\ Range(s \o t) = Range(s) \cup Range(t)
    BY <2>5, <2>6, ListedJoin
  <2> QED BY <2>7, <2>8, <2>9, <2>10
<1>5. 0..(N - 1) \subseteq T
  <2> HIDE DEF Good
  <2>0. N - 1 \in Nat
    BY <1>2
  <2>1. 0 \in T
    BY <1>3, <2>0
  <2>2. ASSUME NEW n \in 0..((N - 1) - 1), n \in T PROVE n + 1 \in T
    <3>1. n + 1 \in 1..(N - 1) /\ n + 1 \in 0..(N - 1)
      BY <1>2
    <3>2. Good(n + 1)
      BY <2>2
    <3>3. Good((n + 1) + 1)
      BY <1>4, <3>1, <3>2
    <3> QED BY <3>1, <3>3
  <2> HIDE DEF T
  <2> QED BY <2>0, <2>1, <2>2, UpTo
<1>6. Good(N)
  <2> HIDE DEF Good
  <2>1. N - 1 \in 0..(N - 1) /\ (N - 1) + 1 = N
    BY <1>2
  <2>2. N - 1 \in T
    BY <1>5, <2>1
  <2>3. Good((N - 1) + 1)
    BY <2>2
  <2> QED BY <2>1, <2>3
<1> QED BY <1>1, <1>6 DEF N

\* A sequence without repetition is as long as its set is large.
LEMMA ListedLength ==
    ASSUME NEW s, Listed(s)
    PROVE  Len(s) = Cardinality(Range(s))
<1>1. s \in Seq(Entry) /\ Len(s) \in Nat
  BY DEF Listed
<1>2. DOMAIN s = 1..Len(s)
  BY <1>1
<1>3. \A x, y \in 1..Len(s) : s[x] = s[y] => x = y
  <2> SUFFICES ASSUME NEW x \in 1..Len(s), NEW y \in 1..Len(s), x # y PROVE s[x] # s[y]
    OBVIOUS
  <2>1. x < y \/ y < x
    BY <1>1
  <2> QED BY <2>1 DEF Listed
<1>4. s \in [1..Len(s) -> Range(s)]
  BY <1>1, <1>2 DEF Range
<1>5. s \in Injection(1..Len(s), Range(s))
  BY <1>2, <1>3, <1>4 DEF Injection, IsInjective
<1>6. s \in Surjection(1..Len(s), Range(s))
  BY <1>2, <1>4 DEF Surjection, Range
<1>7. ExistsBijection(1..Len(s), Range(s))
  BY <1>5, <1>6 DEF ExistsBijection, Bijection
<1> QED BY <1>1, <1>7, FS_CountingElements

\* The leaves of the row hold the entries part by part.
LEMMA RowParts ==
    ASSUME NEW m, NEW L, NEW K, NEW lo, NEW hi, AtRest(m, L, K, lo, hi),
           NEW X, NEW ss \in Seq(X), Len(ss) = m, \A i \in 1..m : ss[i] = pages[L[i]].entries
    PROVE  ListedParts(ss) /\ Parts(ss, m) = entries
<1>1. /\ Linked(pages) /\ Complete(pages, root, entries, m, L, K, lo, hi)
  BY DEF AtRest
<1>2. /\ m \in Nat /\ L \in [1..m -> PageIds]
      /\ \A j \in 1..m : pages[L[j]].kind = "leaf" /\ lo[L[j]] = j
      /\ \A a, b \in 1..(m - 1) : a <= b => K[a] <= K[b]
  BY <1>1 DEF Complete, Standing, Fences, Chain
<1>3. /\ \A q, a, e : Stands(pages, q, a, e) => e \in entries
      /\ \A e \in entries : \E q, a : Stands(pages, q, a, e)
      /\ \A p, a, e, q, b, f :
            Stands(pages, p, a, e) /\ Stands(pages, q, b, f) /\ e.row = f.row => p = q /\ a = b
  <2>1. Holds(pages, entries)
    BY <1>1 DEF Complete, Standing
  <2> QED BY <2>1, HoldsPlaces
<1>4. \A j \in 1..m : ss[j] \in Seq(Entry)
  <2> TAKE j \in 1..m
  <2>1. L[j] \in PageIds /\ pages[L[j]] \in Node
    BY <1>1, <1>2 DEF Linked
  <2> QED BY <2>1, NodeFields
<1>5. \A j \in 1..m : \A a \in 1..Len(ss[j]) : Stands(pages, L[j], a, ss[j][a])
  BY <1>2 DEF Stands, IsLeaf
<1>6. \A j \in 1..m : \A e \in Range(ss[j]) : \E a : Stands(pages, L[j], a, e)
  <2> TAKE j \in 1..m
  <2> TAKE e \in Range(ss[j])
  <2>1. PICK a \in 1..Len(ss[j]) : e = ss[j][a]
    BY <1>4 DEF Range
  <2> QED BY <1>5, <2>1
<1>7. ASSUME NEW j \in 1..m PROVE Listed(ss[j])
  <2>1. InOrder(pages[L[j]].entries, j, m, K)
    BY <1>1 DEF Complete, Standing, Sorted
  <2> SUFFICES ASSUME NEW x \in 1..Len(ss[j]), NEW y \in 1..Len(ss[j]), x < y
               PROVE  ss[j][x].key <= ss[j][y].key /\ ss[j][x] # ss[j][y]
    BY <1>4 DEF Listed
  <2>2. Before(ss[j][x], ss[j][y])
    BY <2>1 DEF InOrder
  <2>3. ss[j][x] \in Entry /\ ss[j][y] \in Entry
    BY <1>4
  <2>4. /\ ss[j][x].key \in Int /\ ss[j][y].key \in Int
        /\ ss[j][x].row \in Int /\ ss[j][y].row \in Int
    BY <2>3, EntryFacts
  <2> QED BY <2>2, <2>4 DEF Before
<1>8. ASSUME NEW i \in 1..m, NEW j \in 1..m, i < j, NEW e \in Range(ss[i]), NEW f \in Range(ss[j])
      PROVE  e.key <= f.key /\ e # f
  <2>1. PICK a : Stands(pages, L[i], a, e)
    BY <1>6
  <2>2. PICK b : Stands(pages, L[j], b, f)
    BY <1>6
  <2>3. lo[L[i]] = i /\ lo[L[j]] = j
    BY <1>2
  <2>4. e # f
    <3>1. L[i] # L[j]
      BY <1>8, <2>3
    <3> QED BY <1>3, <2>1, <2>2, <3>1
  <2>5. e.key \in Int /\ (i < m => e.key <= K[i] /\ K[i] \in Int)
    <3>1. e.key \in Int /\ (lo[L[i]] < m => e.key <= K[lo[L[i]]] /\ K[lo[L[i]]] \in Int)
      BY <1>1, <2>1, EntryPlace
    <3> QED BY <2>3, <3>1
  <2>6. f.key \in Int /\ (j > 1 => K[j - 1] <= f.key /\ K[j - 1] \in Int)
    <3>1. f.key \in Int
          /\ (lo[L[j]] > 1 => K[lo[L[j]] - 1] <= f.key /\ K[lo[L[j]] - 1] \in Int)
      BY <1>1, <2>2, EntryPlace
    <3> QED BY <2>3, <3>1
  <2>7. i < m /\ j > 1 /\ i <= j - 1 /\ i \in 1..(m - 1) /\ j - 1 \in 1..(m - 1)
    BY <1>2, <1>8
  <2>8. K[i] <= K[j - 1]
    BY <1>2, <2>7
  <2>9. e.key <= f.key
    BY <2>5, <2>6, <2>7, <2>8
  <2> QED BY <2>4, <2>9
<1>9. ListedParts(ss)
  BY <1>7, <1>8 DEF ListedParts
<1>10. \A e \in Parts(ss, m) : e \in entries
  <2> TAKE e \in Parts(ss, m)
  <2>1. PICK i \in 1..m : e \in Range(ss[i])
    BY DEF Parts
  <2> QED BY <1>3, <1>6, <2>1
<1>11. \A e \in entries : e \in Parts(ss, m)
  <2> TAKE e \in entries
  <2>1. PICK q, a : Stands(pages, q, a, e)
    BY <1>3
  <2>2. e \in Entry /\ lo[q] \in 1..m /\ L[lo[q]] = q
    BY <1>1, <2>1, EntryPlace
  <2>3. a \in 1..Len(ss[lo[q]]) /\ e = ss[lo[q]][a]
    BY <2>1, <2>2 DEF Stands
  <2>4. e \in Range(ss[lo[q]])
    BY <1>4, <2>2, <2>3 DEF Range
  <2> QED BY <2>2, <2>4 DEF Parts
<1> QED BY <1>9, <1>10, <1>11

LEMMA ChainHeld ==
    ASSUME NEW m, NEW L, NEW K, NEW lo, NEW hi, AtRest(m, L, K, lo, hi)
    PROVE  ChainHoldsEntries
<1>1. /\ Linked(pages) /\ Complete(pages, root, entries, m, L, K, lo, hi)
      /\ root \in PageIds /\ pages[root].kind # "missing"
  BY DEF AtRest
<1>2. /\ m \in Nat /\ m >= 1 /\ L \in [1..m -> PageIds] /\ lo[root] = 1 /\ hi[root] = m
      /\ \A j \in 1..m : pages[L[j]].next = IF j = m THEN None ELSE L[j + 1]
  BY <1>1 DEF Complete, Standing, Fences, Chain
<1> DEFINE leaves == LeavesInOrder[root]
           ss == [i \in DOMAIN leaves |-> pages[leaves[i]].entries]
           X == {pages[p].entries : p \in PageIds}
<1>3. leaves = Row(L, 1, m)
  BY <1>1, <1>2, LeavesUnder
<1>4. DOMAIN leaves = 1..m /\ Len(leaves) = m /\ \A i \in 1..m : leaves[i] = L[i]
  <2>1. m - 1 + 1 = m /\ \A i \in 1..m : 1 + i - 1 = i
    BY <1>2
  <2>2. DOMAIN leaves = 1..m /\ \A i \in 1..m : leaves[i] = L[i]
    BY <1>3, <2>1 DEF Row
  <2>3. leaves \in Seq(PageIds)
    <3>1. leaves = [i \in 1..m |-> L[i]]
      BY <1>3, <2>1 DEF Row
    <3> QED BY <1>2, <3>1
  <2> HIDE DEF leaves
  <2> QED BY <1>2, <2>2, <2>3
<1> HIDE DEF leaves
<1>5. ss \in Seq(X) /\ Len(ss) = m /\ \A i \in 1..m : ss[i] = pages[L[i]].entries
  <2>1. ss \in [1..m -> X] /\ \A i \in 1..m : ss[i] = pages[L[i]].entries
    BY <1>2, <1>4
  <2> HIDE DEF ss, X
  <2> QED BY <1>2, <2>1
<1> DEFINE all == FlattenSeq(ss)
<1>6. Listed(all) /\ Range(all) = entries
  <2> HIDE DEF ss, X
  <2>1. ListedParts(ss) /\ Parts(ss, m) = entries
    BY <1>5, RowParts
  <2> QED BY <1>2, <1>5, <2>1, PartsFlatten
<1>7. \A i \in DOMAIN leaves :
        pages[leaves[i]].next = IF i = Len(leaves) THEN None ELSE leaves[i + 1]
  <2> TAKE i \in DOMAIN leaves
  <2>1. i \in 1..m /\ (i # m => i + 1 \in 1..m)
    BY <1>2, <1>4
  <2> QED BY <1>2, <1>4, <2>1
<1> HIDE DEF ss
<1>8. \A i \in 1..(Len(all) - 1) : all[i].key <= all[i + 1].key
  <2> TAKE i \in 1..(Len(all) - 1)
  <2>1. Len(all) \in Nat
    BY <1>6 DEF Listed
  <2>2. i \in 1..Len(all) /\ i + 1 \in 1..Len(all) /\ i < i + 1
    BY <2>1
  <2> QED BY <1>6, <2>2 DEF Listed
<1>9. Len(all) = Cardinality(entries)
  BY <1>6, ListedLength
<1> QED BY <1>6, <1>7, <1>8, <1>9 DEF ChainHoldsEntries, leaves, ss

\* The next_leaf chain that lookup follows has exactly the leaves under the root in their
\* order, and they hold every entry inserted once, in the order of the keys, where no
\* caller commits after an insert has failed.
THEOREM ChainKept == CommitAfterError = FALSE => (Spec => []ChainHoldsEntries)
<1> SUFFICES ASSUME CommitAfterError = FALSE PROVE Spec => []ChainHoldsEntries
  OBVIOUS
<1>1. Init => WalkInv /\ IndexInv
  BY WalkInit, IndexInit
<1>2. (WalkInv /\ IndexInv) /\ [Next]_vars => (WalkInv /\ IndexInv)'
  BY WalkStep, IndexStep
<1>3. WalkInv /\ IndexInv => ChainHoldsEntries
  <2> SUFFICES ASSUME WalkInv, IndexInv PROVE ChainHoldsEntries
    OBVIOUS
  <2>1. CASE Intact
    <3>1. PICK m, L, K, lo, hi : AtRest(m, L, K, lo, hi)
      BY <2>1, RestFacts
    <3> QED BY <3>1, ChainHeld
  <2>2. CASE ~Intact
    BY <2>2 DEF ChainHoldsEntries
  <2> QED BY <2>1, <2>2
<1> QED BY <1>1, <1>2, <1>3, PTL DEF Spec
====
