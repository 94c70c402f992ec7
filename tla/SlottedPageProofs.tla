------------------------- MODULE SlottedPageProofs -------------------------
(***************************************************************************)
(* The slotted page of SlottedPage keeps its records, for every page size, *)
(* every size of the header, every set of byte values and every sequence   *)
(* of inserts, deletes and compactions.                                    *)
(***************************************************************************)
EXTENDS SlottedPage, TLAPS, WellFoundedInduction

-----------------------------------------------------------------------------
(* Sums. *)

\* A nonempty set of natural numbers has a least one.
LEMMA LeastNat ==
    ASSUME NEW S \in SUBSET Nat, S # {}
    PROVE  \E k \in S : \A j \in S : k <= j
<1> DEFINE R == OpToRel(<, Nat)
<1>1. \E u \in S : \A v \in S : ~ (<<v, u>> \in R)
  <2> HIDE DEF R
  <2>1. IsWellFoundedOn(R, Nat)
    BY NatLessThanWellFounded DEF R
  <2> QED BY <2>1, WFMin
<1>2. \A u, v \in Nat : ~ (<<v, u>> \in R) => u <= v
  BY DEF OpToRel
<1> HIDE DEF R
<1> QED BY <1>1, <1>2

\* What holds at 0, and at n + 1 if it holds at n, holds up to N: T is the set of the
\* numbers where it holds.
LEMMA UpTo ==
    ASSUME NEW N \in Nat, NEW T, 0 \in T,
           \A n \in 0..(N - 1) : n \in T => n + 1 \in T
    PROVE  0..N \subseteq T
<1> DEFINE S == {n \in 0..N : n \notin T}
<1> SUFFICES ASSUME S # {} PROVE FALSE
  OBVIOUS
<1>1. S \in SUBSET Nat
  OBVIOUS
<1>2. PICK k \in S : \A j \in S : k <= j
  <2> HIDE DEF S
  <2> QED BY <1>1, LeastNat
<1>3. k \in Nat /\ k # 0 /\ k <= N /\ k \notin T
  BY <1>2
<1>4. k - 1 \in 0..(N - 1) /\ k - 1 \in 0..N /\ k = (k - 1) + 1 /\ ~(k <= k - 1)
  BY <1>3
<1>5. k - 1 \in T
  BY <1>2, <1>4
<1> QED BY <1>3, <1>4, <1>5

LEMMA SumFacts ==
    ASSUME NEW ns \in Seq(Nat)
    PROVE  /\ SumTo(ns, 0) = 0
           /\ \A k \in 1..Len(ns) : SumTo(ns, k) = SumTo(ns, k - 1) + ns[k]
           /\ \A k \in 0..Len(ns) : SumTo(ns, k) \in Nat
<1> DEFINE N == Len(ns)
           IsSum(f, n) == /\ f \in [0..n -> Nat] /\ f[0] = 0
                          /\ \A k \in 1..n : f[k] = f[k - 1] + ns[k]
           T == {n \in 0..N : \E f : IsSum(f, n)}
           body(t) == [k \in 0..N |-> IF k = 0 THEN 0 ELSE t[k - 1] + ns[k]]
           total == CHOOSE t : t = body(t)
<1>1. N \in Nat /\ \A k \in 1..N : ns[k] \in Nat
  OBVIOUS
<1> HIDE DEF N
<1>2. 0 \in T
  <2>1. IsSum([k \in 0..0 |-> 0], 0)
    OBVIOUS
  <2>2. 0 \in 0..N
    BY <1>1
  <2> QED BY <2>1, <2>2
<1>3. ASSUME NEW n \in 0..(N - 1), n \in T PROVE n + 1 \in T
  <2>1. PICK f : IsSum(f, n)
    BY <1>3
  <2> DEFINE g == [k \in 0..(n + 1) |-> IF k = n + 1 THEN f[n] + ns[n + 1] ELSE f[k]]
  <2>2. n + 1 \in 0..N /\ n + 1 \in 1..N /\ n \in Nat
    BY <1>1, <1>3
  <2>3. g \in [0..(n + 1) -> Nat] /\ g[0] = 0
    BY <1>1, <2>1, <2>2
  <2>4. ASSUME NEW k \in 1..(n + 1) PROVE g[k] = g[k - 1] + ns[k]
    <3>1. CASE k = n + 1
      BY <2>2, <3>1
    <3>2. CASE k # n + 1
      <4>1. k \in 1..n /\ k - 1 \in 0..(n + 1) /\ k - 1 # n + 1
        BY <2>2, <2>4, <3>2
      <4> QED BY <2>1, <3>2, <4>1
    <3> QED BY <3>1, <3>2
  <2> HIDE DEF g
  <2> QED BY <2>2, <2>3, <2>4
<1>4. PICK f : IsSum(f, N)
  <2>1. N \in T
    <3> HIDE DEF T
    <3>1. 0..N \subseteq T
      BY <1>1, <1>2, <1>3, UpTo
    <3> QED BY <1>1, <3>1
  <2> QED BY <2>1
<1>5. f = body(f)
  <2>1. \A k \in 0..N : f[k] = IF k = 0 THEN 0 ELSE f[k - 1] + ns[k]
    BY <1>1, <1>4
  <2> QED BY <1>4, <2>1
<1>6. total = body(total)
  <2> HIDE DEF body
  <2> QED BY <1>5
<1>7. \A k : SumTo(ns, k) = total[k]
  BY DEF SumTo, N
<1> HIDE DEF total
<1>8. /\ total[0] = 0 /\ \A k \in 1..N : total[k] = total[k - 1] + ns[k]
  BY <1>1, <1>6
<1>9. ASSUME NEW k \in 0..N PROVE total[k] \in Nat
  <2> DEFINE U == {n \in 0..N : total[n] \in Nat}
  <2>1. 0 \in U /\ \A n \in 0..(N - 1) : n \in U => n + 1 \in U
    <3>1. 0 \in U
      BY <1>1, <1>8
    <3>2. ASSUME NEW n \in 0..(N - 1), n \in U PROVE n + 1 \in U
      <4>1. n + 1 \in 1..N /\ (n + 1) - 1 = n /\ n + 1 \in 0..N
        BY <1>1
      <4>2. total[n + 1] = total[n] + ns[n + 1]
        BY <1>8, <4>1
      <4> QED BY <3>2, <4>1, <4>2, <1>1
    <3> QED BY <3>1, <3>2
  <2> HIDE DEF U
  <2>2. 0..N \subseteq U
    BY <1>1, <2>1, UpTo
  <2> QED BY <2>2 DEF U
<1> QED BY <1>7, <1>8, <1>9 DEF N

\* One step of a sum.
LEMMA SumStep ==
    ASSUME NEW ns \in Seq(Nat), NEW n \in 0..(Len(ns) - 1)
    PROVE  /\ n \in Nat /\ n + 1 \in 1..Len(ns) /\ n \in 0..Len(ns) /\ n + 1 \in 0..Len(ns)
           /\ SumTo(ns, n + 1) = SumTo(ns, n) + ns[n + 1]
           /\ SumTo(ns, n) \in Nat /\ SumTo(ns, n + 1) \in Nat /\ ns[n + 1] \in Nat
<1>1. n \in Nat /\ n + 1 \in 1..Len(ns) /\ n \in 0..Len(ns) /\ n + 1 \in 0..Len(ns) /\ (n + 1) - 1 = n
  OBVIOUS
<1>2. SumTo(ns, n + 1) = SumTo(ns, (n + 1) - 1) + ns[n + 1]
  BY <1>1, SumFacts
<1> QED BY <1>1, <1>2, SumFacts

\* Arithmetic on one step of two sums.
LEMMA SumArith ==
    /\ \A a, b, x, y \in Nat : a <= b /\ x <= y => a + x <= b + y
    /\ \A a, b, x, y \in Nat : a < b /\ x <= y => a + x < b + y
    /\ \A a, b, x, y \in Nat : a <= b /\ x <= y /\ x # y => a + x < b + y
    /\ \A a, b, x, y \in Nat : a + x <= b => a + x <= b + y
  OBVIOUS

\* Partial sums grow, by what is added.
LEMMA SumMonotone ==
    ASSUME NEW ns \in Seq(Nat), NEW i \in 1..Len(ns), NEW k \in i..Len(ns)
    PROVE  SumTo(ns, i - 1) + ns[i] <= SumTo(ns, k)
<1> DEFINE N == Len(ns)
           T == {n \in 0..N : n >= i => SumTo(ns, i - 1) + ns[i] <= SumTo(ns, n)}
<1>1. N \in Nat /\ i \in Nat /\ i >= 1 /\ i <= N /\ ns[i] \in Nat
  OBVIOUS
<1>2. SumTo(ns, i) = SumTo(ns, i - 1) + ns[i] /\ SumTo(ns, i) \in Nat /\ i - 1 \in 0..N
  BY SumFacts
<1>3. 0 \in T
  BY <1>1
<1>4. ASSUME NEW n \in 0..(N - 1), n \in T PROVE n + 1 \in T
  <2>1. /\ n \in Nat /\ n + 1 \in 0..N /\ SumTo(ns, n + 1) = SumTo(ns, n) + ns[n + 1]
        /\ SumTo(ns, n) \in Nat /\ SumTo(ns, n + 1) \in Nat /\ ns[n + 1] \in Nat
    BY SumStep
  <2>2. SumTo(ns, i - 1) \in Nat
    BY <1>2, SumFacts
  <2>3. CASE n >= i
    <3>1. SumTo(ns, i - 1) + ns[i] <= SumTo(ns, n)
      BY <1>4, <2>3
    <3>2. SumTo(ns, i - 1) + ns[i] <= SumTo(ns, n) + ns[n + 1]
      BY <1>1, <2>1, <2>2, <3>1, SumArith, Zenon
    <3>3. SumTo(ns, i - 1) + ns[i] <= SumTo(ns, n + 1)
      BY <2>1, <3>2, Zenon
    <3> QED BY <2>1, <3>3
  <2>4. CASE n + 1 = i
    <3>1. SumTo(ns, n + 1) = SumTo(ns, i - 1) + ns[i]
      BY <1>2, <2>4, Zenon
    <3>2. SumTo(ns, n + 1) <= SumTo(ns, n + 1)
      BY <2>1
    <3>3. SumTo(ns, i - 1) + ns[i] <= SumTo(ns, n + 1)
      BY <3>1, <3>2, Zenon
    <3> QED BY <2>1, <3>3
  <2>5. CASE n + 1 < i
    BY <1>1, <2>1, <2>5
  <2> QED BY <1>1, <2>1, <2>3, <2>4, <2>5
<1>5. 0..N \subseteq T
  <2> HIDE DEF T
  <2> QED BY <1>1, <1>3, <1>4, UpTo
<1>6. k \in 0..N /\ k >= i
  BY <1>1
<1> QED BY <1>5, <1>6

\* Larger numbers have a larger sum, and an equal sum only if they are equal.
LEMMA SumCompare ==
    ASSUME NEW ns \in Seq(Nat), NEW ms \in Seq(Nat), NEW N \in Nat,
           N <= Len(ns), N <= Len(ms), \A k \in 1..N : ns[k] <= ms[k]
    PROVE  /\ SumTo(ns, N) <= SumTo(ms, N)
           /\ SumTo(ns, N) = SumTo(ms, N) => \A k \in 1..N : ns[k] = ms[k]
<1> DEFINE T == {n \in 0..N : SumTo(ns, n) <= SumTo(ms, n)}
<1>1. ASSUME NEW n \in 0..(N - 1)
      PROVE  /\ n \in Nat /\ n + 1 \in 0..N /\ ns[n + 1] <= ms[n + 1]
             /\ SumTo(ns, n + 1) = SumTo(ns, n) + ns[n + 1]
             /\ SumTo(ms, n + 1) = SumTo(ms, n) + ms[n + 1]
             /\ SumTo(ns, n) \in Nat /\ SumTo(ms, n) \in Nat
             /\ ns[n + 1] \in Nat /\ ms[n + 1] \in Nat
  <2>1. n \in Nat /\ n + 1 \in 0..N /\ n + 1 \in 1..N /\ n \in 0..(Len(ns) - 1) /\ n \in 0..(Len(ms) - 1)
    OBVIOUS
  <2> QED BY <2>1, SumStep
<1>2. 0 \in T
  BY SumFacts
<1>3. ASSUME NEW n \in 0..(N - 1), n \in T PROVE n + 1 \in T
  <2>1. SumTo(ns, n) <= SumTo(ms, n)
    BY <1>3
  <2>2. /\ SumTo(ns, n) \in Nat /\ SumTo(ms, n) \in Nat
        /\ ns[n + 1] \in Nat /\ ms[n + 1] \in Nat /\ ns[n + 1] <= ms[n + 1]
    BY <1>1
  <2>3. SumTo(ns, n) + ns[n + 1] <= SumTo(ms, n) + ms[n + 1]
    BY <2>1, <2>2, SumArith, Zenon
  <2>4. SumTo(ns, n + 1) <= SumTo(ms, n + 1)
    BY <1>1, <2>3
  <2> QED BY <1>1, <2>4
<1>4. 0..N \subseteq T
  <2> HIDE DEF T
  <2> QED BY <1>2, <1>3, UpTo
<1>5. ASSUME NEW k \in 1..N, ns[k] # ms[k] PROVE SumTo(ns, N) # SumTo(ms, N)
  <2> DEFINE U == {n \in 0..N : n >= k => SumTo(ns, n) < SumTo(ms, n)}
  <2>1. 0 \in U
    OBVIOUS
  <2>2. ASSUME NEW n \in 0..(N - 1), n \in U PROVE n + 1 \in U
    <3>1. CASE n >= k
      <4>1. SumTo(ns, n) < SumTo(ms, n)
        BY <2>2, <3>1
      <4>2. SumTo(ns, n) + ns[n + 1] < SumTo(ms, n) + ms[n + 1]
        BY <1>1, <4>1, SumArith, Zenon
      <4> QED BY <1>1, <4>2
    <3>2. CASE n + 1 = k
      <4>1. SumTo(ns, n) <= SumTo(ms, n)
        BY <1>1, <1>4
      <4>2. ns[n + 1] # ms[n + 1]
        BY <1>5, <3>2
      <4>3. SumTo(ns, n) + ns[n + 1] < SumTo(ms, n) + ms[n + 1]
        BY <1>1, <4>1, <4>2, SumArith, Zenon
      <4> QED BY <1>1, <4>3
    <3>3. CASE n + 1 < k
      BY <1>1, <3>3
    <3> QED BY <1>1, <3>1, <3>2, <3>3
  <2>3. 0..N \subseteq U
    <3> HIDE DEF U
    <3> QED BY <2>1, <2>2, UpTo
  <2>4. SumTo(ns, N) < SumTo(ms, N)
    BY <2>3
  <2>5. SumTo(ns, N) \in Nat /\ SumTo(ms, N) \in Nat
    <3>1. N \in 0..Len(ns) /\ N \in 0..Len(ms)
      OBVIOUS
    <3> QED BY <3>1, SumFacts
  <2> QED BY <2>4, <2>5
<1> QED BY <1>4, <1>5

LEMMA SumSame ==
    ASSUME NEW ns \in Seq(Nat), NEW ms \in Seq(Nat), NEW N \in Nat,
           N <= Len(ns), N <= Len(ms), \A k \in 1..N : ns[k] = ms[k]
    PROVE  SumTo(ns, N) = SumTo(ms, N)
<1>1. \A k \in 1..N : ns[k] <= ms[k] /\ ms[k] <= ns[k]
  <2>1. \A k \in 1..N : ns[k] \in Nat
    OBVIOUS
  <2> QED BY <2>1
<1>2. SumTo(ns, N) <= SumTo(ms, N) /\ SumTo(ms, N) <= SumTo(ns, N)
  BY <1>1, SumCompare
<1>3. SumTo(ns, N) \in Nat /\ SumTo(ms, N) \in Nat
  <2>1. N \in 0..Len(ns) /\ N \in 0..Len(ms)
    OBVIOUS
  <2> QED BY <2>1, SumFacts
<1> QED BY <1>2, <1>3

\* One number changes.
LEMMA SumChange ==
    ASSUME NEW ns \in Seq(Nat), NEW ms \in Seq(Nat), Len(ms) = Len(ns), NEW i \in 1..Len(ns),
           \A k \in 1..Len(ns) : k # i => ms[k] = ns[k]
    PROVE  SumTo(ms, Len(ms)) = SumTo(ns, Len(ns)) - ns[i] + ms[i]
<1> DEFINE N == Len(ns)
           T == {n \in 0..N : SumTo(ms, n) = SumTo(ns, n) + (IF n >= i THEN ms[i] - ns[i] ELSE 0)}
<1>1. N \in Nat /\ i \in Nat /\ i >= 1 /\ i <= N /\ ns[i] \in Nat /\ ms[i] \in Nat
  OBVIOUS
<1>2. 0 \in T
  BY <1>1, SumFacts
<1>3. ASSUME NEW n \in 0..(N - 1), n \in T PROVE n + 1 \in T
  <2>1. /\ n \in Nat /\ n + 1 \in 0..N /\ n + 1 \in 1..N
        /\ SumTo(ns, n + 1) = SumTo(ns, n) + ns[n + 1]
        /\ SumTo(ms, n + 1) = SumTo(ms, n) + ms[n + 1]
        /\ SumTo(ns, n) \in Nat /\ SumTo(ms, n) \in Nat
        /\ ns[n + 1] \in Nat /\ ms[n + 1] \in Nat
    BY SumStep
  <2>2. SumTo(ms, n) = SumTo(ns, n) + (IF n >= i THEN ms[i] - ns[i] ELSE 0)
    BY <1>3
  <2>3. CASE n + 1 = i
    <3>1. SumTo(ms, n) = SumTo(ns, n) /\ n + 1 >= i
      BY <1>1, <2>1, <2>2, <2>3
    <3>2. SumTo(ns, n) + ms[n + 1] = (SumTo(ns, n) + ns[n + 1]) + (ms[n + 1] - ns[n + 1])
      <4> DEFINE a == SumTo(ns, n)
                 x == ns[n + 1]
                 y == ms[n + 1]
      <4>1. a \in Nat /\ x \in Nat /\ y \in Nat
        BY <2>1
      <4> HIDE DEF a, x, y
      <4>2. a + y = (a + x) + (y - x)
        BY <4>1
      <4> QED BY <4>2 DEF a, x, y
    <3>3. SumTo(ms, n + 1) = SumTo(ns, n + 1) + (ms[n + 1] - ns[n + 1])
      BY <2>1, <3>1, <3>2, Zenon
    <3> QED BY <2>1, <2>3, <3>1, <3>3
  <2>4. CASE n + 1 > i
    <3>1. SumTo(ms, n) = SumTo(ns, n) + (ms[i] - ns[i]) /\ ms[n + 1] = ns[n + 1] /\ n + 1 >= i
      BY <1>1, <2>1, <2>2, <2>4
    <3>2. (SumTo(ns, n) + (ms[i] - ns[i])) + ns[n + 1]
            = (SumTo(ns, n) + ns[n + 1]) + (ms[i] - ns[i])
      <4> DEFINE a == SumTo(ns, n)
                 x == ns[n + 1]
                 d == ms[i]
                 e == ns[i]
      <4>1. a \in Nat /\ x \in Nat /\ d \in Nat /\ e \in Nat
        BY <1>1, <2>1
      <4> HIDE DEF a, x, d, e
      <4>2. (a + (d - e)) + x = (a + x) + (d - e)
        BY <4>1
      <4> QED BY <4>2 DEF a, x, d, e
    <3>3. SumTo(ms, n + 1) = SumTo(ns, n + 1) + (ms[i] - ns[i])
      BY <2>1, <3>1, <3>2, Zenon
    <3> QED BY <2>1, <3>1, <3>3
  <2>5. CASE n + 1 < i
    <3>1. SumTo(ms, n) = SumTo(ns, n) /\ ms[n + 1] = ns[n + 1] /\ ~(n + 1 >= i)
      BY <1>1, <2>1, <2>2, <2>5
    <3>2. SumTo(ms, n + 1) = SumTo(ns, n + 1) + 0
      BY <2>1, <3>1
    <3> QED BY <2>1, <3>1, <3>2
  <2> QED BY <1>1, <2>1, <2>3, <2>4, <2>5
<1>4. N \in T
  <2>1. 0..N \subseteq T
    <3> HIDE DEF T
    <3> QED BY <1>1, <1>2, <1>3, UpTo
  <2>2. N \in 0..N
    BY <1>1
  <2> QED BY <2>1, <2>2
<1>5. SumTo(ns, N) \in Nat
  BY <1>1, SumFacts
<1> QED BY <1>1, <1>4, <1>5

-----------------------------------------------------------------------------
(* The inductive invariant. *)

\* The directory ends where the free area starts, and the live records lie above it.
Layout ==
    /\ freeStart = HeaderSize + Len(slots) * SlotSize
    /\ freeStart <= freeEnd /\ freeEnd <= PageSize
    /\ \A i \in DOMAIN slots : Live(i) =>
          freeEnd <= slots[i].offset /\ slots[i].offset + slots[i].len <= PageSize

\* A live slot has the length and the bytes of its record; another has none.
Held ==
    \A i \in DOMAIN slots :
        IF Live(i)
        THEN /\ stored[i] \in Records /\ slots[i].len = Len(stored[i])
             /\ \A k \in 1..slots[i].len : cells[slots[i].offset + k - 1] = stored[i][k]
        ELSE stored[i] = None

Directory == \A i \in DOMAIN slots : \A c \in SlotCells(i) : cells[c] = Dir

\* The free area holds zeroes, and the live records fit above it, however they lie.
FreeZero == \A c \in freeStart..(freeEnd - 1) : cells[c] = 0
Fits == SumTo(LiveLens(slots), Len(slots)) <= PageSize - freeEnd

Summed == sum = Checksum(cells, slots, freeStart, freeEnd)

Shape == TypeOK /\ Len(stored) = Len(slots)

PageInv ==
    Shape /\ Layout /\ RecordsDisjoint /\ Held /\ Directory /\ FreeZero /\ Fits /\ Summed

-----------------------------------------------------------------------------
(* Facts about the parts of a page. *)

LEMMA Sizes ==
    /\ PageSize \in Nat /\ HeaderSize \in Nat /\ SlotSize \in Nat /\ MaxLen \in Nat
    /\ SlotSize > 0 /\ HeaderSize <= PageSize
    /\ Bytes \subseteq Nat /\ Dir \notin Nat /\ None \notin Records
    /\ ByteBase \in Nat /\ ByteBase > 2
<1>1. 0..(ByteBase - 1) \subseteq Nat
  BY PageAssumption
<1> QED BY <1>1, PageAssumption DEF Records, SlotSize

LEMMA ZeroNat == 0 \in Nat
  OBVIOUS

LEMMA RecordFacts ==
    ASSUME NEW record \in Records
    PROVE  /\ record \in Seq(Bytes) /\ Len(record) \in Nat /\ DOMAIN record = 1..Len(record)
           /\ \A k \in 1..Len(record) : record[k] \in Bytes /\ record[k] \in Nat
           /\ record = [k \in 1..Len(record) |-> record[k]]
<1>1. PICK m \in 0..MaxLen : record \in [1..m -> Bytes]
  BY DEF Records, SeqOf
<1>2. m \in Nat
  BY Sizes
<1>3. record \in Seq(Bytes) /\ Len(record) = m
  BY <1>1, <1>2
<1>4. \A b \in Bytes : b \in Nat
  BY Sizes
<1>5. \A k \in 1..m : record[k] \in Bytes
  BY <1>1
<1>6. record = [k \in 1..m |-> record[k]] /\ DOMAIN record = 1..m
  BY <1>1
<1> QED BY <1>2, <1>3, <1>4, <1>5, <1>6

LEMMA ShapeFacts ==
    ASSUME Shape
    PROVE  /\ slots \in Seq(Slot) /\ Len(slots) \in Nat /\ DOMAIN slots = 1..Len(slots)
           /\ stored \in Seq(Records \cup {None}) /\ DOMAIN stored = 1..Len(slots)
           /\ \A i \in 1..Len(slots) :
                 /\ slots[i] \in Slot /\ slots[i].offset \in Nat /\ slots[i].len \in Nat
                 /\ slots[i].flags \in {"live", "dead"}
           /\ freeStart \in Nat /\ freeEnd \in Nat
           /\ cells \in [Cells -> Bytes \cup {0, Dir}]
<1>1. slots \in Seq(Slot) /\ stored \in Seq(Records \cup {None}) /\ Len(stored) = Len(slots)
  BY DEF Shape, TypeOK
<1>2. \A i \in 1..Len(slots) : slots[i] \in Slot
  BY <1>1
<1> QED BY <1>1, <1>2, Sizes DEF Shape, TypeOK, Slot

\* The slot entries lie one behind the other.
LEMMA SlotArea ==
    ASSUME NEW n \in Nat
    PROVE  /\ HeaderSize + n * SlotSize \in Nat
           /\ HeaderSize + (n + 1) * SlotSize = HeaderSize + n * SlotSize + SlotSize
           /\ \A i \in 1..n : \A c \in SlotCells(i) :
                 c \in Nat /\ c >= HeaderSize /\ c < HeaderSize + n * SlotSize
           /\ SlotCells(n + 1) = (HeaderSize + n * SlotSize)..(HeaderSize + n * SlotSize + SlotSize - 1)
<1> DEFINE S == SlotSize
<1>1. S \in Nat /\ HeaderSize \in Nat
  BY Sizes
<1> HIDE DEF S
<1>2. n * S \in Nat /\ (n + 1) * S = n * S + S
  BY <1>1
<1>3. ASSUME NEW i \in 1..n
      PROVE  (i - 1) * S \in Nat /\ i * S \in Nat /\ i * S <= n * S
  <2>1. PICK m \in Nat : n = i + m
    <3>1. n - i \in Nat /\ n = i + (n - i)
      OBVIOUS
    <3> QED BY <3>1
  <2>2. n * S = i * S + m * S /\ m * S \in Nat /\ i * S \in Nat /\ (i - 1) * S \in Nat
    BY <1>1, <2>1
  <2> QED BY <2>2
<1>4. ASSUME NEW i \in 1..n, NEW c \in SlotCells(i)
      PROVE  c \in Nat /\ c >= HeaderSize /\ c < HeaderSize + n * S
  <2>1. c \in (HeaderSize + (i - 1) * S)..(HeaderSize + i * S - 1)
    BY DEF SlotCells, S
  <2> QED BY <1>1, <1>2, <1>3, <2>1
<1>5. SlotCells(n + 1) = (HeaderSize + n * S)..(HeaderSize + n * S + S - 1)
  <2>1. /\ HeaderSize + ((n + 1) - 1) * S = HeaderSize + n * S
        /\ HeaderSize + (n + 1) * S - 1 = HeaderSize + n * S + S - 1
    BY <1>1, <1>2
  <2>2. SlotCells(n + 1) = (HeaderSize + ((n + 1) - 1) * S)..(HeaderSize + (n + 1) * S - 1)
    BY DEF SlotCells, S
  <2> QED BY <2>1, <2>2, Zenon
<1> QED BY <1>1, <1>2, <1>4, <1>5 DEF S

\* A field of two bytes.
LEMMA FieldFacts ==
    ASSUME NEW v \in Nat
    PROVE  v % ByteBase \in Nat /\ v \div ByteBase \in Nat /\ FieldSum(v) \in Nat
<1> DEFINE B == ByteBase
<1>1. B \in Nat /\ B > 0
  BY Sizes
<1> HIDE DEF B
<1>2. v % B \in Nat /\ v \div B \in Nat
  BY <1>1
<1> QED BY <1>2 DEF B, FieldSum

\* The slot entries, by the offsets of their bytes.
LEMMA PlaceFacts ==
    ASSUME NEW c \in Nat
    PROVE  /\ SlotAt(c) \in Int /\ PlaceAt(c) \in 1..6
           /\ \A n \in Nat : SlotAt(c) = n + 1 <=> c \in SlotCells(n + 1)
<1>1. HeaderSize \in Nat
  BY Sizes
<1>2. SlotAt(c) \in Int /\ PlaceAt(c) \in 1..6
  BY <1>1 DEF SlotAt, PlaceAt, SlotSize
<1>3. ASSUME NEW n \in Nat PROVE SlotAt(c) = n + 1 <=> c \in SlotCells(n + 1)
  BY <1>1 DEF SlotAt, SlotCells, SlotSize
<1> QED BY <1>2, <1>3

LEMMA EntryByteNat ==
    ASSUME NEW entry \in Slot, NEW k \in 1..6
    PROVE  EntryBytes(entry)[k] \in Nat
<1>1. entry.offset \in Nat /\ entry.len \in Nat
  BY Sizes DEF Slot
<1>2. /\ entry.offset % ByteBase \in Nat /\ entry.offset \div ByteBase \in Nat
      /\ entry.len % ByteBase \in Nat /\ entry.len \div ByteBase \in Nat
  BY <1>1, FieldFacts
<1>3. (IF entry.flags = "live" THEN 1 ELSE 2) \in Nat
  OBVIOUS
<1> QED BY <1>2, <1>3 DEF EntryBytes

\* The byte at an offset of the page.
LEMMA PageByteFacts ==
    ASSUME NEW cs \in [Cells -> Bytes \cup {0, Dir}], NEW ss \in Seq(Slot), NEW k \in 1..PageSize
    PROVE  /\ k - 1 \in Cells /\ k - 1 \in Nat
           /\ PageBytes(cs, ss)[k] \in Nat
           /\ PageBytes(cs, ss)[k] =
                IF SlotAt(k - 1) \in 1..Len(ss) THEN EntryBytes(ss[SlotAt(k - 1)])[PlaceAt(k - 1)]
                ELSE IF cs[k - 1] = Dir THEN 0 ELSE cs[k - 1]
<1>1. k - 1 \in Cells /\ k - 1 \in Nat
  BY Sizes DEF Cells
<1>2. PageBytes(cs, ss)[k] =
         IF SlotAt(k - 1) \in 1..Len(ss) THEN EntryBytes(ss[SlotAt(k - 1)])[PlaceAt(k - 1)]
         ELSE IF cs[k - 1] = Dir THEN 0 ELSE cs[k - 1]
  BY DEF PageBytes
<1>3. cs[k - 1] # Dir => cs[k - 1] \in Nat
  <2>1. cs[k - 1] \in Bytes \cup {0, Dir} /\ Bytes \subseteq Nat
    BY <1>1, Sizes
  <2> QED BY <2>1, ZeroNat, Zenon
<1>4. ASSUME SlotAt(k - 1) \in 1..Len(ss)
      PROVE  EntryBytes(ss[SlotAt(k - 1)])[PlaceAt(k - 1)] \in Nat
  <2>1. ss[SlotAt(k - 1)] \in Slot
    BY <1>4
  <2>2. PlaceAt(k - 1) \in 1..6
    BY <1>1, PlaceFacts
  <2> QED BY <2>1, <2>2, EntryByteNat
<1> QED BY <1>1, <1>2, <1>3, <1>4, ZeroNat

LEMMA ValuesFacts ==
    /\ \A cs \in [Cells -> Bytes \cup {0, Dir}] : \A ss \in Seq(Slot) :
          PageBytes(cs, ss) \in Seq(Nat) /\ Len(PageBytes(cs, ss)) = PageSize
    /\ \A ss \in Seq(Slot) : LiveLens(ss) \in Seq(Nat) /\ Len(LiveLens(ss)) = Len(ss)
<1>1. ASSUME NEW cs \in [Cells -> Bytes \cup {0, Dir}], NEW ss \in Seq(Slot)
      PROVE  PageBytes(cs, ss) \in Seq(Nat) /\ Len(PageBytes(cs, ss)) = PageSize
  <2> DEFINE bs == PageBytes(cs, ss)
  <2>1. \A k \in 1..PageSize : bs[k] \in Nat
    BY PageByteFacts
  <2>2. DOMAIN bs = 1..PageSize /\ bs = [k \in 1..PageSize |-> bs[k]]
    BY DEF PageBytes
  <2> HIDE DEF bs
  <2>3. bs \in [1..PageSize -> Nat]
    BY <2>1, <2>2
  <2>4. bs \in Seq(Nat) /\ Len(bs) = PageSize
    BY <2>3, Sizes
  <2> QED BY <2>4 DEF bs
<1>2. ASSUME NEW ss \in Seq(Slot)
      PROVE  LiveLens(ss) \in Seq(Nat) /\ Len(LiveLens(ss)) = Len(ss)
  <2>1. DOMAIN ss = 1..Len(ss) /\ Len(ss) \in Nat
    OBVIOUS
  <2>2. \A i \in 1..Len(ss) : ss[i].len \in Nat
    <3>1. \A i \in 1..Len(ss) : ss[i] \in Slot
      OBVIOUS
    <3> QED BY <3>1, Sizes DEF Slot
  <2>3. LiveLens(ss) \in [1..Len(ss) -> Nat]
    BY <2>1, <2>2 DEF LiveLens
  <2> QED BY <2>1, <2>3, SMTT(30)
<1> QED BY <1>1, <1>2

LEMMA ChecksumNat ==
    ASSUME NEW cs \in [Cells -> Bytes \cup {0, Dir}], NEW ss \in Seq(Slot),
           NEW start \in Nat, NEW end \in Nat
    PROVE  /\ Checksum(cs, ss, start, end) \in Nat /\ HeaderSum(start, end, Len(ss)) \in Nat
           /\ SumTo(PageBytes(cs, ss), PageSize) \in Nat
<1>1. SumTo(PageBytes(cs, ss), PageSize) \in Nat
  <2>1. PageSize \in 0..Len(PageBytes(cs, ss))
    BY ValuesFacts, Sizes
  <2> QED BY <2>1, ValuesFacts, SumFacts
<1>2. Len(ss) \in Nat
  OBVIOUS
<1>3. /\ FieldSum(start) \in Nat /\ FieldSum(end) \in Nat /\ FieldSum(Len(ss)) \in Nat
  BY <1>2, FieldFacts
<1>4. HeaderSum(start, end, Len(ss)) \in Nat
  BY <1>3 DEF HeaderSum
<1> QED BY <1>1, <1>4 DEF Checksum

-----------------------------------------------------------------------------
(* Insert. *)

LEMMA PageInit == Init => PageInv
<1> SUFFICES ASSUME Init PROVE PageInv
  OBVIOUS
<1>1. /\ cells = [i \in Cells |-> 0] /\ slots = << >> /\ stored = << >>
      /\ freeStart = HeaderSize /\ freeEnd = PageSize /\ Summed
  BY DEF Init, Summed
<1>2. /\ cells \in [Cells -> Bytes \cup {0, Dir}]
      /\ slots \in Seq(Slot) /\ stored \in Seq(Records \cup {None})
      /\ Len(slots) = 0 /\ Len(stored) = 0 /\ DOMAIN slots = {}
  BY <1>1
<1>3. freeStart \in 0..PageSize /\ freeEnd \in 0..PageSize /\ freeStart \in Nat /\ freeEnd \in Nat
  BY <1>1, Sizes
<1>4. sum \in Nat
  BY <1>1, <1>2, <1>3, ChecksumNat DEF Summed
<1>5. Shape
  BY <1>2, <1>3, <1>4 DEF Shape, TypeOK
<1>6. Layout
  <2>1. HeaderSize + 0 * SlotSize = HeaderSize
    BY Sizes
  <2> QED BY <1>1, <1>2, <2>1, Sizes DEF Layout
<1>7. RecordsDisjoint /\ Held /\ Directory
  BY <1>2 DEF RecordsDisjoint, Held, Directory
<1>8. FreeZero
  BY <1>1, Sizes DEF FreeZero, Cells
<1>9. Fits
  <2>1. SumTo(LiveLens(slots), 0) = 0
    BY <1>2, ValuesFacts, SumFacts
  <2> QED BY <1>1, <1>2, <2>1, Sizes DEF Fits
<1> QED BY <1>1, <1>5, <1>6, <1>7, <1>8, <1>9 DEF PageInv

\* The slot of an insert is a dead one, or a new one if there is none.
LEMMA InsertSlot ==
    ASSUME Shape
    PROVE  \/ DeadSlots = {} /\ SlotForInsert = Len(slots) + 1
           \/ DeadSlots # {} /\ SlotForInsert \in 1..Len(slots) /\ ~Live(SlotForInsert)
<1>1. DeadSlots \subseteq 1..Len(slots) /\ Len(slots) \in Nat
  BY ShapeFacts DEF DeadSlots
<1>2. CASE DeadSlots # {}
  <2>1. DeadSlots \in SUBSET Nat
    BY <1>1
  <2>2. \E i \in DeadSlots : \A j \in DeadSlots : i <= j
    BY <1>2, <2>1, LeastNat
  <2>3. FirstDead \in DeadSlots
    BY <2>2 DEF FirstDead
  <2> QED BY <1>1, <1>2, <2>3 DEF SlotForInsert, DeadSlots, Live
<1> QED BY <1>2 DEF SlotForInsert

\* What an insert does to the page.
LEMMA InsertFacts ==
    ASSUME PageInv, NEW record \in Records, InsertRecord(record)
    PROVE  LET i == SlotForInsert
               n == Len(slots)
               offset == freeEnd - Len(record)
           IN  /\ i \in 1..(n + 1) /\ (i \in 1..n => ~Live(i))
               /\ slots' \in Seq(Slot) /\ Len(slots') = (IF i = n + 1 THEN n + 1 ELSE n)
               /\ slots'[i] = [offset |-> offset, len |-> Len(record), flags |-> "live"]
               /\ \A j \in 1..n : j # i => slots'[j] = slots[j]
               /\ stored' \in Seq(Records \cup {None}) /\ Len(stored') = Len(slots')
               /\ stored'[i] = record
               /\ \A j \in 1..n : j # i => stored'[j] = stored[j]
               /\ freeStart' = HeaderSize + Len(slots') * SlotSize
               /\ freeStart <= freeStart' /\ freeStart' <= offset /\ freeEnd' = offset
               /\ offset \in Nat /\ freeStart' \in Nat /\ offset + Len(record) = freeEnd
<1> DEFINE i == SlotForInsert
           n == Len(slots)
           offset == freeEnd - Len(record)
           entry == [offset |-> offset, len |-> Len(record), flags |-> "live"]
<1>0. Shape /\ Layout
  BY DEF PageInv
<1>1. /\ Needed(record) <= freeEnd - freeStart
      /\ slots' = IF i > n THEN Append(slots, entry) ELSE [slots EXCEPT ![i] = entry]
      /\ stored' = IF i > n THEN Append(stored, record) ELSE [stored EXCEPT ![i] = record]
      /\ freeEnd' = offset /\ freeStart' = HeaderSize + Len(slots') * SlotSize
  BY DEF InsertRecord
<1>2. /\ n \in Nat /\ freeStart \in Nat /\ freeEnd \in Nat /\ freeEnd <= PageSize
      /\ freeStart = HeaderSize + n * SlotSize /\ freeStart <= freeEnd
      /\ slots \in Seq(Slot) /\ stored \in Seq(Records \cup {None}) /\ Len(stored) = n
  BY <1>0, ShapeFacts DEF Layout, Shape, TypeOK
<1>3. Len(record) \in Nat /\ SlotSize \in Nat /\ PageSize \in Nat
  BY RecordFacts, Sizes
<1>4. /\ i \in 1..(n + 1) /\ (i \in 1..n => ~Live(i))
      /\ (i > n <=> DeadSlots = {}) /\ (i > n <=> i = n + 1)
  BY <1>0, <1>2, InsertSlot
<1>5. Len(record) + (IF i > n THEN SlotSize ELSE 0) <= freeEnd - freeStart
  BY <1>1, <1>4 DEF Needed
<1>6. /\ offset \in Nat /\ offset <= PageSize /\ Len(record) <= PageSize /\ offset + Len(record) = freeEnd
      /\ freeStart + (IF i > n THEN SlotSize ELSE 0) <= offset
  BY <1>2, <1>3, <1>5
<1>7. entry \in Slot
  BY <1>3, <1>6 DEF Slot
<1> HIDE DEF i, offset, entry
<1>8. CASE i > n
  <2>1. i = n + 1 /\ slots' = Append(slots, entry) /\ stored' = Append(stored, record)
    BY <1>1, <1>4, <1>8
  <2>2. /\ slots' \in Seq(Slot) /\ Len(slots') = n + 1 /\ slots'[n + 1] = entry
        /\ \A j \in 1..n : slots'[j] = slots[j]
    BY <1>2, <1>7, <2>1
  <2>3. /\ stored' \in Seq(Records \cup {None}) /\ Len(stored') = n + 1 /\ stored'[n + 1] = record
        /\ \A j \in 1..n : stored'[j] = stored[j]
    BY <1>2, <2>1
  <2>4. freeStart' = freeStart + SlotSize /\ freeStart' \in Nat
    <3>1. HeaderSize + (n + 1) * SlotSize = HeaderSize + n * SlotSize + SlotSize
      BY <1>2, SlotArea
    <3> QED BY <1>1, <1>2, <1>3, <2>2, <3>1, SMTT(30)
  <2>5. freeStart <= freeStart' /\ freeStart' <= offset
    BY <1>2, <1>3, <1>6, <1>8, <2>4
  <2> QED BY <1>1, <1>4, <1>6, <2>1, <2>2, <2>3, <2>4, <2>5 DEF i, offset, entry
<1>9. CASE ~(i > n)
  <2>1. i \in 1..n /\ i # n + 1 /\ slots' = [slots EXCEPT ![i] = entry] /\ stored' = [stored EXCEPT ![i] = record]
    BY <1>1, <1>2, <1>4, <1>9
  <2>2. /\ slots' \in Seq(Slot) /\ Len(slots') = n /\ slots'[i] = entry
        /\ \A j \in 1..n : j # i => slots'[j] = slots[j]
    BY <1>2, <1>7, <2>1
  <2>3. /\ stored' \in Seq(Records \cup {None}) /\ Len(stored') = n /\ stored'[i] = record
        /\ \A j \in 1..n : j # i => stored'[j] = stored[j]
    BY <1>2, <2>1
  <2>4. freeStart' = freeStart /\ freeStart <= freeStart' /\ freeStart' <= offset
    BY <1>1, <1>2, <1>6, <1>9, <2>2
  <2> QED BY <1>1, <1>2, <1>4, <1>6, <2>1, <2>2, <2>3, <2>4 DEF i, offset, entry
<1> QED BY <1>8, <1>9

\* ... and to its bytes.
LEMMA InsertCells ==
    ASSUME PageInv, NEW record \in Records, InsertRecord(record)
    PROVE  LET i == SlotForInsert
               offset == freeEnd - Len(record)
           IN  /\ cells' \in [Cells -> Bytes \cup {0, Dir}]
               /\ \A c \in SlotCells(i) : c \in Cells /\ c < freeStart' /\ cells'[c] = Dir
               /\ \A k \in 1..Len(record) : offset + k - 1 \in Cells /\ cells'[offset + k - 1] = record[k]
               /\ \A c \in Cells : c \notin SlotCells(i) /\ (c < offset \/ c >= freeEnd) =>
                     cells'[c] = cells[c]
<1> DEFINE i == SlotForInsert
           n == Len(slots)
           offset == freeEnd - Len(record)
<1>1. /\ i \in 1..(n + 1) /\ Len(slots') = (IF i = n + 1 THEN n + 1 ELSE n)
      /\ freeStart' = HeaderSize + Len(slots') * SlotSize
      /\ freeStart <= freeStart' /\ freeStart' <= offset
      /\ offset \in Nat /\ freeStart' \in Nat /\ offset + Len(record) = freeEnd
  BY InsertFacts
<1>2. /\ n \in Nat /\ freeEnd \in Nat /\ freeEnd <= PageSize /\ PageSize \in Nat /\ HeaderSize \in Nat
      /\ cells \in [Cells -> Bytes \cup {0, Dir}] /\ Len(slots') \in Nat
  BY <1>1, ShapeFacts, Sizes DEF PageInv, Layout
<1>3. /\ Len(record) \in Nat /\ \A k \in 1..Len(record) : record[k] \in Bytes
  BY RecordFacts
<1>4. ASSUME NEW c \in SlotCells(i) PROVE c \in Cells /\ c < freeStart'
  <2>1. i \in 1..Len(slots')
    BY <1>1, <1>2
  <2>2. c \in Nat /\ c < freeStart'
    BY <1>1, <1>2, <2>1, SlotArea
  <2> QED BY <1>1, <1>2, <1>3, <2>2 DEF Cells
<1>5. ASSUME NEW c \in Cells
      PROVE  cells'[c] = IF c \in SlotCells(i) THEN Dir
                         ELSE IF c \in offset..(offset + Len(record) - 1) THEN record[c - offset + 1]
                         ELSE cells[c]
  BY DEF InsertRecord, WithSlotWritten, WithRecordAt
<1>6. DOMAIN cells' = Cells /\ cells' = [c \in Cells |-> cells'[c]]
  BY DEF InsertRecord, WithSlotWritten
<1> HIDE DEF i, offset
<1>7. ASSUME NEW k \in 1..Len(record)
      PROVE  offset + k - 1 \in Cells /\ cells'[offset + k - 1] = record[k]
  <2>1. /\ offset + k - 1 \in Cells /\ offset + k - 1 \in offset..(offset + Len(record) - 1)
        /\ (offset + k - 1) - offset + 1 = k /\ ~(offset + k - 1 < freeStart')
    BY <1>1, <1>2, <1>3 DEF Cells
  <2>2. offset + k - 1 \notin SlotCells(i)
    BY <1>4, <2>1
  <2> QED BY <1>5, <2>1, <2>2
<1>8. ASSUME NEW c \in Cells PROVE cells'[c] \in Bytes \cup {0, Dir}
  <2>1. c \in offset..(offset + Len(record) - 1) => c - offset + 1 \in 1..Len(record)
    BY <1>1, <1>3 DEF Cells
  <2>2. cells[c] \in Bytes \cup {0, Dir}
    BY <1>2
  <2> QED BY <1>3, <1>5, <2>1, <2>2
<1>9. ASSUME NEW c \in Cells, c \notin SlotCells(i), c < offset \/ c >= freeEnd
      PROVE  cells'[c] = cells[c]
  <2>1. c \notin offset..(offset + Len(record) - 1)
    BY <1>1, <1>2, <1>3, <1>9 DEF Cells
  <2> QED BY <1>5, <1>9, <2>1
<1>10. cells' \in [Cells -> Bytes \cup {0, Dir}]
  BY <1>6, <1>8
<1>11. \A c \in SlotCells(i) : cells'[c] = Dir
  BY <1>4, <1>5
<1> QED BY <1>4, <1>7, <1>9, <1>10, <1>11 DEF i, offset

LEMMA InsertKeeps ==
    ASSUME PageInv, NEW record \in Records, InsertRecord(record)
    PROVE  PageInv'
<1> DEFINE i == SlotForInsert
           n == Len(slots)
           offset == freeEnd - Len(record)
<1>1. /\ i \in 1..(n + 1) /\ (i \in 1..n => ~Live(i))
      /\ slots' \in Seq(Slot) /\ Len(slots') = (IF i = n + 1 THEN n + 1 ELSE n)
      /\ slots'[i] = [offset |-> offset, len |-> Len(record), flags |-> "live"]
      /\ \A j \in 1..n : j # i => slots'[j] = slots[j]
      /\ stored' \in Seq(Records \cup {None}) /\ Len(stored') = Len(slots')
      /\ stored'[i] = record
      /\ \A j \in 1..n : j # i => stored'[j] = stored[j]
      /\ freeStart' = HeaderSize + Len(slots') * SlotSize
      /\ freeStart <= freeStart' /\ freeStart' <= offset /\ freeEnd' = offset
      /\ offset \in Nat /\ freeStart' \in Nat /\ offset + Len(record) = freeEnd
  BY InsertFacts
<1>2. /\ cells' \in [Cells -> Bytes \cup {0, Dir}]
      /\ \A c \in SlotCells(i) : c \in Cells /\ c < freeStart' /\ cells'[c] = Dir
      /\ \A k \in 1..Len(record) : offset + k - 1 \in Cells /\ cells'[offset + k - 1] = record[k]
      /\ \A c \in Cells : c \notin SlotCells(i) /\ (c < offset \/ c >= freeEnd) => cells'[c] = cells[c]
  BY InsertCells
<1>3. /\ n \in Nat /\ freeStart \in Nat /\ freeEnd \in Nat /\ freeEnd <= PageSize /\ PageSize \in Nat
      /\ HeaderSize \in Nat /\ Len(record) \in Nat /\ Len(slots') \in Nat
      /\ DOMAIN slots = 1..n /\ DOMAIN slots' = 1..Len(slots')
  <2>1. Len(slots') \in Nat /\ DOMAIN slots' = 1..Len(slots')
    BY <1>1
  <2>2. n \in Nat /\ freeStart \in Nat /\ freeEnd \in Nat /\ DOMAIN slots = 1..n
    BY ShapeFacts DEF PageInv
  <2> QED BY <2>1, <2>2, RecordFacts, Sizes DEF PageInv, Layout
<1> HIDE DEF i, offset
<1>4. /\ \A j \in 1..n : slots[j].offset \in Nat /\ slots[j].len \in Nat
      /\ \A j \in 1..n : Live(j) => /\ freeEnd <= slots[j].offset
                                    /\ slots[j].offset + slots[j].len <= PageSize
  BY <1>3, ShapeFacts DEF PageInv, Layout
<1>5. \A j \in 1..Len(slots') : j = i \/ (j # i /\ j \in 1..n /\ slots'[j] = slots[j] /\ stored'[j] = stored[j])
  <2>1. ASSUME NEW j \in 1..Len(slots'), j # i PROVE j \in 1..n
    <3>1. Len(slots') = (IF i = n + 1 THEN n + 1 ELSE n)
      BY <1>1
    <3>2. n \in Nat
      BY <1>3
    <3> HIDE DEF n
    <3> QED BY <2>1, <3>1, <3>2
  <2>2. \A j \in 1..n : j # i => slots'[j] = slots[j] /\ stored'[j] = stored[j]
    BY <1>1
  <2> QED BY <2>1, <2>2, Zenon
<1>6. i \in 1..Len(slots')
  BY <1>1, <1>3
<1>7. Summed' /\ sum' \in Nat
  <2>1. sum' = Checksum(cells', slots', freeStart', freeEnd')
    BY DEF InsertRecord, RefreshChecksum
  <2> QED BY <1>1, <1>2, <2>1, ChecksumNat DEF Summed
<1>8. Shape'
  <2>1. freeStart' \in 0..PageSize /\ freeEnd' \in 0..PageSize
    BY <1>1, <1>3
  <2> QED BY <1>1, <1>2, <1>7, <2>1 DEF Shape, TypeOK
<1>9. Layout'
  <2>1. ASSUME NEW j \in 1..Len(slots'), slots'[j].flags = "live"
        PROVE  offset <= slots'[j].offset /\ slots'[j].offset + slots'[j].len <= PageSize
    <3>1. CASE j = i
      BY <1>1, <1>3, <3>1
    <3>2. CASE j # i
      <4>1. j \in 1..n /\ slots'[j] = slots[j] /\ Live(j)
        BY <1>5, <2>1, <3>2 DEF Live
      <4> QED BY <1>1, <1>3, <1>4, <4>1, SMTT(30)
    <3> QED BY <3>1, <3>2
  <2>2. offset <= PageSize
    BY <1>1, <1>3
  <2> QED BY <1>1, <1>3, <2>1, <2>2 DEF Layout, Live
<1>10. RecordsDisjoint'
  <2> DEFINE E(j) == slots'[j].offset..(slots'[j].offset + slots'[j].len - 1)
  <2>1. ASSUME NEW j \in 1..Len(slots'), j # i, slots'[j].flags = "live"
        PROVE  j \in 1..n /\ Live(j) /\ E(j) = Extent(j) /\ \A c \in E(j) : c \in Int /\ c >= freeEnd
    <3>1. j \in 1..n /\ slots'[j] = slots[j] /\ Live(j)
      BY <1>5, <2>1 DEF Live
    <3> QED BY <1>3, <1>4, <3>1 DEF Extent
  <2>2. \A c \in E(i) : c \in Int /\ c >= offset /\ c < freeEnd
    BY <1>1, <1>3
  <2>3. ASSUME NEW j \in 1..Len(slots'), NEW k \in 1..Len(slots'), j # k,
               slots'[j].flags = "live", slots'[k].flags = "live"
        PROVE  E(j) \cap E(k) = {}
    <3>1. CASE j # i /\ k # i
      BY <1>3, <2>1, <2>3, <3>1 DEF PageInv, RecordsDisjoint
    <3>2. CASE j = i
      BY <1>3, <2>1, <2>2, <2>3, <3>2
    <3>3. CASE k = i
      BY <1>3, <2>1, <2>2, <2>3, <3>3
    <3> QED BY <3>1, <3>2, <3>3
  <2>4. ASSUME NEW j \in 1..Len(slots'), slots'[j].flags = "live"
        PROVE  E(j) \cap 0..(offset - 1) = {}
    <3>1. \A c \in E(j) : c \in Int /\ c >= offset
      <4>1. CASE j = i
        BY <2>2, <4>1
      <4>2. CASE j # i
        <5>1. \A c \in E(j) : c \in Int /\ c >= freeEnd
          BY <2>1, <2>4, <4>2
        <5> HIDE DEF E
        <5> QED BY <1>1, <1>3, <5>1
      <4> QED BY <4>1, <4>2
    <3> HIDE DEF E
    <3> QED BY <1>1, <3>1
  <2> QED BY <1>1, <1>3, <2>3, <2>4 DEF RecordsDisjoint, Live, Extent
<1>11. Held'
  <2>1. ASSUME NEW j \in 1..Len(slots')
        PROVE  IF slots'[j].flags = "live"
               THEN /\ stored'[j] \in Records /\ slots'[j].len = Len(stored'[j])
                    /\ \A k \in 1..slots'[j].len : cells'[slots'[j].offset + k - 1] = stored'[j][k]
               ELSE stored'[j] = None
    <3>1. CASE j = i
      BY <1>1, <1>2, <3>1
    <3>2. CASE j # i
      <4>1. j \in 1..n /\ slots'[j] = slots[j] /\ stored'[j] = stored[j]
        BY <1>5, <3>2
      <4>2. ASSUME Live(j), NEW k \in 1..slots[j].len
            PROVE  cells'[slots[j].offset + k - 1] = cells[slots[j].offset + k - 1]
        <5>1. /\ slots[j].offset + k - 1 \in Cells /\ slots[j].offset + k - 1 >= freeEnd
              /\ ~(slots[j].offset + k - 1 < freeStart')
          <6> DEFINE o == slots[j].offset
                     l == slots[j].len
          <6>1. o \in Nat /\ l \in Nat /\ freeEnd <= o /\ o + l <= PageSize /\ k \in 1..l
            BY <1>4, <4>1, <4>2
          <6>2. freeStart' <= freeEnd
            BY <1>1, <1>3
          <6> HIDE DEF o, l
          <6>3. o + k - 1 \in Cells /\ o + k - 1 >= freeEnd /\ ~(o + k - 1 < freeStart')
            BY <1>1, <1>3, <6>1, <6>2, SMTT(30) DEF Cells
          <6> QED BY <6>3 DEF o
        <5> QED BY <1>2, <5>1
      <4> QED BY <1>3, <4>1, <4>2 DEF PageInv, Held, Live
    <3> QED BY <3>1, <3>2
  <2> QED BY <1>3, <2>1 DEF Held, Live
<1>12. Directory'
  <2>1. ASSUME NEW j \in 1..Len(slots'), NEW c \in SlotCells(j) PROVE cells'[c] = Dir
    <3>1. CASE c \in SlotCells(i)
      BY <1>2, <3>1
    <3>2. CASE c \notin SlotCells(i)
      <4>1. j \in 1..n
        BY <1>5, <3>2
      <4>2. c \in Nat /\ c < HeaderSize + n * SlotSize /\ cells[c] = Dir
        BY <1>3, <4>1, SlotArea DEF PageInv, Directory
      <4>3. c < freeStart
        BY <4>2 DEF PageInv, Layout
      <4>4. c \in Cells /\ c < offset
        BY <1>1, <1>3, <4>2, <4>3, SMTT(30) DEF Cells
      <4> QED BY <1>2, <3>2, <4>2, <4>4
    <3> QED BY <3>1, <3>2
  <2> QED BY <1>3, <2>1 DEF Directory
<1>13. FreeZero'
  <2>1. ASSUME NEW c \in freeStart'..(offset - 1) PROVE cells'[c] = 0
    <3>1. c \in Cells /\ c \in freeStart..(freeEnd - 1) /\ c < offset /\ ~(c < freeStart')
      BY <1>1, <1>3 DEF Cells
    <3>2. cells[c] = 0 /\ c \notin SlotCells(i)
      BY <1>2, <3>1 DEF PageInv, FreeZero
    <3> QED BY <1>2, <3>1, <3>2
  <2> QED BY <1>1, <2>1 DEF FreeZero
<1>14. Fits'
  <2> DEFINE ns == LiveLens(slots)
             ms == LiveLens(slots')
  <2>1. ns \in Seq(Nat) /\ ms \in Seq(Nat) /\ Len(ns) = n /\ Len(ms) = Len(slots')
    BY <1>1, ShapeFacts, ValuesFacts DEF PageInv
  <2>2. \A j \in 1..n : j # i => ms[j] = ns[j]
    BY <1>1, <1>3, <1>5 DEF LiveLens
  <2>3. ms[i] = Len(record)
    BY <1>1, <1>3, <1>6 DEF LiveLens
  <2>4. SumTo(ns, n) <= PageSize - freeEnd /\ SumTo(ns, n) \in Nat
    BY <1>3, <2>1, SumFacts DEF PageInv, Fits
  <2>5. i \in 1..n => ns[i] = 0
    BY <1>1, <1>3 DEF LiveLens, Live
  <2> HIDE DEF ns, ms
  <2>6. SumTo(ms, Len(slots')) = SumTo(ns, n) + Len(record)
    <3>1. CASE i \in 1..n
      <4>1. Len(ms) = Len(ns)
        <5>1. i # n + 1
          BY <1>3, <3>1
        <5> QED BY <1>1, <2>1, <5>1
      <4>2. SumTo(ms, Len(ms)) = SumTo(ns, Len(ns)) - ns[i] + ms[i]
        BY <2>1, <2>2, <3>1, <4>1, SumChange
      <4> QED BY <1>3, <2>1, <2>3, <2>4, <2>5, <3>1, <4>1, <4>2
    <3>2. CASE i = n + 1
      <4>1. Len(ms) = n + 1 /\ n + 1 \in 1..Len(ms) /\ (n + 1) - 1 = n
        BY <1>1, <1>3, <2>1, <3>2
      <4>2. SumTo(ms, n + 1) = SumTo(ms, n) + ms[n + 1]
        BY <2>1, <4>1, SumFacts
      <4>3. SumTo(ms, n) = SumTo(ns, n)
        <5>1. n <= Len(ns) /\ n <= Len(ms) /\ \A j \in 1..n : ns[j] = ms[j]
          BY <1>3, <2>1, <2>2, <3>2, <4>1
        <5> QED BY <1>3, <2>1, <5>1, SumSame
      <4> QED BY <2>1, <2>3, <3>2, <4>1, <4>2, <4>3
    <3> QED BY <1>1, <1>3, <3>1, <3>2
  <2>7. SumTo(ms, Len(slots')) <= PageSize - offset
    BY <1>1, <1>3, <2>4, <2>6
  <2> QED BY <1>1, <2>7 DEF Fits, ms
<1> QED BY <1>7, <1>8, <1>9, <1>10, <1>11, <1>12, <1>13, <1>14 DEF PageInv

-----------------------------------------------------------------------------
(* Delete. *)

LEMMA DeleteKeeps ==
    ASSUME PageInv, NEW i \in DOMAIN slots, DeleteRecord(i)
    PROVE  PageInv'
<1> DEFINE n == Len(slots)
<1>1. /\ n \in Nat /\ DOMAIN slots = 1..n /\ i \in 1..n
      /\ slots \in Seq(Slot) /\ stored \in Seq(Records \cup {None}) /\ Len(stored) = n
      /\ freeStart \in Nat /\ freeEnd \in Nat
      /\ cells \in [Cells -> Bytes \cup {0, Dir}]
  BY ShapeFacts DEF PageInv, Shape
<1>2. /\ Live(i) /\ slots' = [slots EXCEPT ![i] = [slots[i] EXCEPT !.flags = "dead"]]
      /\ cells' = WithSlotWritten(cells, i) /\ stored' = [stored EXCEPT ![i] = None]
      /\ freeStart' = freeStart /\ freeEnd' = freeEnd
      /\ sum' = Checksum(cells', slots', freeStart', freeEnd')
  BY DEF DeleteRecord, RefreshChecksum
<1>3. /\ slots' \in Seq(Slot) /\ Len(slots') = n /\ DOMAIN slots' = 1..n
      /\ slots'[i].flags = "dead" /\ \A j \in 1..n : j # i => slots'[j] = slots[j]
  <2>1. slots[i] \in Slot
    BY <1>1
  <2>2. [slots[i] EXCEPT !.flags = "dead"] \in Slot /\ [slots[i] EXCEPT !.flags = "dead"].flags = "dead"
    BY <2>1 DEF Slot
  <2> QED BY <1>1, <1>2, <2>2
<1>4. /\ stored' \in Seq(Records \cup {None}) /\ Len(stored') = n /\ stored'[i] = None
      /\ \A j \in 1..n : j # i => stored'[j] = stored[j]
  BY <1>1, <1>2
<1>5. /\ \A c \in Cells : cells'[c] = IF c \in SlotCells(i) THEN Dir ELSE cells[c]
      /\ cells' \in [Cells -> Bytes \cup {0, Dir}]
  BY <1>1, <1>2 DEF WithSlotWritten
<1>6. /\ freeStart = HeaderSize + n * SlotSize /\ freeStart <= freeEnd /\ freeEnd <= PageSize
      /\ PageSize \in Nat
  BY Sizes DEF PageInv, Layout
<1>7. \A j \in 1..n : \A c \in SlotCells(j) : c \in Cells /\ c < freeStart
  <2>1. \A j \in 1..n : \A c \in SlotCells(j) : c \in Nat /\ c < freeStart
    BY <1>1, <1>6, SlotArea
  <2> QED BY <1>1, <1>6, <2>1 DEF Cells
<1>8. \A c \in Cells : c >= freeStart => cells'[c] = cells[c]
  <2>1. \A c \in Cells : c >= freeStart => c \notin SlotCells(i)
    BY <1>1, <1>7 DEF Cells
  <2> QED BY <1>5, <2>1
<1>9. \A j \in 1..n : slots'[j].flags = "live" =>
         j # i /\ Live(j) /\ slots'[j] = slots[j] /\ stored'[j] = stored[j]
  BY <1>3, <1>4 DEF Live
<1>10. Shape' /\ Summed'
  <2>1. sum' \in Nat
    BY <1>1, <1>2, <1>3, <1>5, ChecksumNat
  <2> QED BY <1>2, <1>3, <1>4, <1>5, <2>1 DEF PageInv, Shape, TypeOK, Summed
<1>11. Layout'
  BY <1>1, <1>2, <1>3, <1>9 DEF PageInv, Layout, Live
<1>12. RecordsDisjoint'
  BY <1>1, <1>2, <1>3, <1>9 DEF PageInv, RecordsDisjoint, Live, Extent
<1>13. Held'
  <2>1. ASSUME NEW j \in 1..n
        PROVE  IF slots'[j].flags = "live"
               THEN /\ stored'[j] \in Records /\ slots'[j].len = Len(stored'[j])
                    /\ \A k \in 1..slots'[j].len : cells'[slots'[j].offset + k - 1] = stored'[j][k]
               ELSE stored'[j] = None
    <3>1. CASE j = i
      BY <1>3, <1>4, <3>1
    <3>2. CASE j # i
      <4>1. slots'[j] = slots[j] /\ stored'[j] = stored[j]
        BY <1>3, <1>4, <3>2
      <4>2. ASSUME Live(j), NEW k \in 1..slots[j].len
            PROVE  cells'[slots[j].offset + k - 1] = cells[slots[j].offset + k - 1]
        <5> DEFINE o == slots[j].offset
                   l == slots[j].len
        <5>1. o \in Nat /\ l \in Nat /\ freeEnd <= o /\ o + l <= PageSize /\ k \in 1..l
          BY <1>1, <4>2, ShapeFacts DEF PageInv, Layout
        <5> HIDE DEF o, l
        <5>2. o + k - 1 \in Cells /\ o + k - 1 >= freeStart
          BY <1>1, <1>6, <5>1 DEF Cells
        <5>3. cells'[o + k - 1] = cells[o + k - 1]
          BY <1>8, <5>2
        <5> QED BY <5>3 DEF o
      <4> QED BY <1>1, <4>1, <4>2 DEF PageInv, Held, Live
    <3> QED BY <3>1, <3>2
  <2> QED BY <1>3, <2>1 DEF Held, Live
<1>14. Directory'
  BY <1>1, <1>3, <1>5, <1>7 DEF PageInv, Directory
<1>15. FreeZero'
  <2>1. ASSUME NEW c \in freeStart..(freeEnd - 1) PROVE cells'[c] = 0
    <3>1. c \in Cells /\ c >= freeStart
      BY <1>1, <1>6 DEF Cells
    <3> QED BY <1>8, <3>1 DEF PageInv, FreeZero
  <2> QED BY <1>2, <2>1 DEF FreeZero
<1>16. Fits'
  <2> DEFINE ns == LiveLens(slots)
             ms == LiveLens(slots')
  <2>1. ns \in Seq(Nat) /\ ms \in Seq(Nat) /\ Len(ns) = n /\ Len(ms) = n
    BY <1>1, <1>3, ValuesFacts
  <2>2. \A j \in 1..n : j # i => ms[j] = ns[j]
    BY <1>1, <1>3 DEF LiveLens
  <2>3. ms[i] = 0
    BY <1>1, <1>3 DEF LiveLens
  <2>4. ns[i] \in Nat
    BY <1>1, <2>1
  <2>5. SumTo(ns, n) <= PageSize - freeEnd /\ SumTo(ns, n) \in Nat
    BY <1>1, <2>1, SumFacts DEF PageInv, Fits
  <2> HIDE DEF ns, ms
  <2>6. SumTo(ms, n) = SumTo(ns, n) - ns[i] + ms[i]
    <3>1. SumTo(ms, Len(ms)) = SumTo(ns, Len(ns)) - ns[i] + ms[i]
      BY <1>1, <2>1, <2>2, SumChange
    <3> QED BY <2>1, <3>1
  <2>7. SumTo(ms, n) <= PageSize - freeEnd
    BY <1>1, <1>6, <2>3, <2>4, <2>5, <2>6
  <2> QED BY <1>2, <1>3, <2>7 DEF Fits, ms
<1> QED BY <1>10, <1>11, <1>12, <1>13, <1>14, <1>15, <1>16 DEF PageInv

-----------------------------------------------------------------------------
(* Compact. *)

\* The places compact gives to the records: above the old free area, and the record of
\* a later slot below that of an earlier one.
LEMMA CompactOffsets ==
    ASSUME PageInv
    PROVE  LET n == Len(slots)
           IN  /\ CompactOffset(n) \in Nat /\ freeEnd <= CompactOffset(n) /\ CompactOffset(n) <= PageSize
               /\ \A i \in 1..n : Live(i) =>
                     /\ CompactOffset(i) \in Nat /\ CompactOffset(n) <= CompactOffset(i)
                     /\ CompactOffset(i) + slots[i].len <= PageSize
               /\ \A i, j \in 1..n : Live(j) /\ i < j =>
                     CompactOffset(j) + slots[j].len <= CompactOffset(i)
<1> DEFINE n == Len(slots)
           ns == LiveLens(slots)
           L(i) == SumTo(ns, i)
<1>1. /\ n \in Nat /\ DOMAIN slots = 1..n /\ slots \in Seq(Slot)
      /\ freeEnd \in Nat /\ freeEnd <= PageSize /\ PageSize \in Nat
      /\ \A i \in 1..n : slots[i].len \in Nat
  BY ShapeFacts, Sizes DEF PageInv, Layout
<1>2. ns \in Seq(Nat) /\ Len(ns) = n
  BY <1>1, ValuesFacts
<1>3. \A i \in 1..n : Live(i) => ns[i] = slots[i].len
  BY <1>1 DEF LiveLens, Live
<1>4. L(n) <= PageSize - freeEnd
  BY DEF PageInv, Fits
<1>5. \A i : CompactOffset(i) = PageSize - L(i)
  BY DEF CompactOffset, LiveBytesUpTo
<1> HIDE DEF ns
<1>6. /\ \A i \in 1..n : L(i) = L(i - 1) + ns[i] /\ ns[i] \in Nat /\ i - 1 \in 0..n
      /\ \A i \in 0..n : L(i) \in Nat
  BY <1>1, <1>2, SumFacts
<1>7. ASSUME NEW i \in 1..n, NEW k \in i..n PROVE L(i) <= L(k)
  <2>1. L(i - 1) + ns[i] <= L(k)
    BY <1>2, SumMonotone
  <2> QED BY <1>6, <2>1
<1> HIDE DEF L
<1>8. ASSUME NEW i \in 1..n
      PROVE  CompactOffset(i) \in Nat /\ CompactOffset(n) <= CompactOffset(i)
  <2>1. n \in i..n /\ i \in 0..n /\ n \in 0..n
    BY <1>1
  <2>2. L(i) <= L(n) /\ L(i) \in Nat /\ L(n) \in Nat
    BY <1>6, <1>7, <2>1
  <2> QED BY <1>1, <1>4, <1>5, <2>2
<1>9. ASSUME NEW j \in 1..n, Live(j)
      PROVE  CompactOffset(j) + slots[j].len = PageSize - L(j - 1) /\ L(j - 1) \in Nat
  <2>1. L(j) = L(j - 1) + slots[j].len /\ L(j - 1) \in Nat /\ slots[j].len \in Nat
    BY <1>1, <1>3, <1>6, <1>9
  <2> QED BY <1>1, <1>5, <2>1
<1>10. ASSUME NEW i \in 1..n, NEW j \in 1..n, Live(j), i < j
       PROVE  CompactOffset(j) + slots[j].len <= CompactOffset(i)
  <2>1. j - 1 \in i..n /\ i \in 0..n
    BY <1>1, <1>10
  <2>2. L(i) <= L(j - 1) /\ L(i) \in Nat
    BY <1>6, <1>7, <2>1
  <2>3. CompactOffset(j) + slots[j].len = PageSize - L(j - 1) /\ L(j - 1) \in Nat
    BY <1>9, <1>10
  <2> QED BY <1>1, <1>5, <2>2, <2>3
<1>11. L(n) \in Nat
  BY <1>1, <1>6
<1>12. CompactOffset(n) \in Nat /\ freeEnd <= CompactOffset(n) /\ CompactOffset(n) <= PageSize
  BY <1>1, <1>4, <1>5, <1>11
<1>13. ASSUME NEW j \in 1..n, Live(j) PROVE CompactOffset(j) + slots[j].len <= PageSize
  BY <1>1, <1>9, <1>13
<1> QED BY <1>8, <1>10, <1>12, <1>13

\* The bytes compact leaves.
LEMMA PackedFacts ==
    ASSUME PageInv
    PROVE  /\ Packed \in [Cells -> Bytes \cup {0, Dir}]
           /\ \A i \in 1..Len(slots) : Live(i) => \A k \in 1..slots[i].len :
                 /\ CompactOffset(i) + k - 1 \in Cells
                 /\ Packed[CompactOffset(i) + k - 1] = stored[i][k]
           /\ \A c \in Cells : c < freeStart => Packed[c] = cells[c]
           /\ \A c \in freeStart..(CompactOffset(Len(slots)) - 1) : Packed[c] = 0
<1> DEFINE n == Len(slots)
           o(i) == CompactOffset(i)
           len(i) == slots[i].len
           here(c) == {i \in 1..n : Live(i) /\ c \in o(i)..(o(i) + len(i) - 1)}
           At(c) == LET i == CHOOSE j \in here(c) : TRUE IN ReadRecord(i)[c - o(i) + 1]
<1>1. /\ n \in Nat /\ DOMAIN slots = 1..n /\ PageSize \in Nat
      /\ cells \in [Cells -> Bytes \cup {0, Dir}]
      /\ freeStart = HeaderSize + n * SlotSize /\ freeStart \in Nat /\ freeEnd \in Nat
      /\ freeStart <= freeEnd
      /\ \A i \in 1..n : len(i) \in Nat
  BY ShapeFacts, Sizes DEF PageInv, Layout
<1>2. /\ o(n) \in Nat /\ freeEnd <= o(n)
      /\ \A i \in 1..n : Live(i) => o(i) \in Nat /\ o(n) <= o(i) /\ o(i) + len(i) <= PageSize
      /\ \A i, j \in 1..n : Live(j) /\ i < j => o(j) + len(j) <= o(i)
  BY CompactOffsets
<1>3. ASSUME NEW c \in Cells
      PROVE  Packed[c] = IF here(c) # {} THEN At(c) ELSE IF c < freeStart THEN cells[c] ELSE 0
  BY <1>1, <1>3 DEF Packed
<1>4. ASSUME NEW i \in 1..n, Live(i), NEW k \in 1..len(i)
      PROVE  /\ ReadRecord(i)[k] = stored[i][k] /\ stored[i][k] \in Bytes
  <2>1. /\ stored[i] \in Records /\ len(i) = Len(stored[i])
        /\ cells[slots[i].offset + k - 1] = stored[i][k]
    BY <1>1, <1>4 DEF PageInv, Held
  <2>2. stored[i][k] \in Bytes
    BY <1>4, <2>1, RecordFacts
  <2> QED BY <1>4, <2>1, <2>2 DEF ReadRecord
<1> HIDE DEF o, len
<1>5. ASSUME NEW c \in Cells, NEW i \in here(c)
      PROVE  /\ c >= o(n) /\ c >= freeStart
             /\ c - o(i) + 1 \in 1..len(i) /\ \A j \in here(c) : j = i
  <2>1. /\ c \in Int /\ i \in 1..n /\ Live(i) /\ c \in o(i)..(o(i) + len(i) - 1)
        /\ o(i) \in Nat /\ len(i) \in Nat /\ o(n) <= o(i)
    BY <1>1, <1>2, <1>5 DEF Cells
  <2>2. c >= o(n) /\ c >= freeStart /\ c - o(i) + 1 \in 1..len(i)
    <3> DEFINE a == o(i)
               l == len(i)
               b == o(n)
    <3>1. /\ c \in Int /\ a \in Nat /\ l \in Nat /\ b \in Nat /\ c \in a..(a + l - 1) /\ b <= a
          /\ freeStart <= b /\ freeStart \in Nat
      <4>1. freeStart <= o(n)
        BY <1>1, <1>2
      <4> QED BY <1>1, <1>2, <2>1, <4>1
    <3> HIDE DEF a, l, b
    <3>2. c >= b /\ c >= freeStart /\ c - a + 1 \in 1..l
      BY <3>1
    <3> QED BY <3>2 DEF a, l, b
  <2>3. ASSUME NEW j \in here(c) PROVE j = i
    <3>1. j \in 1..n /\ Live(j) /\ c \in o(j)..(o(j) + len(j) - 1) /\ o(j) \in Nat /\ len(j) \in Nat
      BY <1>1, <1>2, <2>3
    <3> HIDE DEF here
    <3>2. CASE i < j
      <4>1. o(j) + len(j) <= o(i)
        BY <1>2, <2>1, <3>1, <3>2
      <4> QED BY <2>1, <3>1, <4>1
    <3>3. CASE j < i
      <4>1. o(i) + len(i) <= o(j)
        BY <1>2, <2>1, <3>1, <3>3
      <4> QED BY <2>1, <3>1, <4>1
    <3> QED BY <1>1, <2>1, <3>1, <3>2, <3>3
  <2> QED BY <2>2, <2>3
<1>6. ASSUME NEW c \in Cells, NEW i \in here(c)
      PROVE  Packed[c] = stored[i][c - o(i) + 1] /\ Packed[c] \in Bytes
  <2>1. i \in 1..n /\ Live(i) /\ c - o(i) + 1 \in 1..len(i) /\ here(c) = {i}
    BY <1>5
  <2>2. (CHOOSE j \in here(c) : TRUE) = i
    BY <2>1
  <2>3. At(c) = ReadRecord(i)[c - o(i) + 1]
    BY <2>2
  <2>4. ReadRecord(i)[c - o(i) + 1] = stored[i][c - o(i) + 1] /\ stored[i][c - o(i) + 1] \in Bytes
    BY <1>4, <2>1
  <2>5. Packed[c] = At(c)
    BY <1>3, <2>1
  <2> QED BY <2>3, <2>4, <2>5
<1>7. ASSUME NEW i \in 1..n, Live(i), NEW k \in 1..len(i)
      PROVE  o(i) + k - 1 \in Cells /\ Packed[o(i) + k - 1] = stored[i][k]
  <2>1. o(i) \in Nat /\ len(i) \in Nat /\ o(i) + len(i) <= PageSize
    BY <1>1, <1>2, <1>7
  <2>2. /\ o(i) + k - 1 \in Cells /\ o(i) + k - 1 \in o(i)..(o(i) + len(i) - 1)
        /\ (o(i) + k - 1) - o(i) + 1 = k
    BY <1>1, <2>1 DEF Cells
  <2>3. i \in here(o(i) + k - 1)
    BY <1>7, <2>2
  <2> HIDE DEF here
  <2>4. Packed[o(i) + k - 1] = stored[i][(o(i) + k - 1) - o(i) + 1]
    BY <1>6, <2>2, <2>3
  <2> QED BY <2>2, <2>4
<1> HIDE DEF here, At
<1>8. ASSUME NEW c \in Cells, c < o(n) \/ c < freeStart
      PROVE  Packed[c] = IF c < freeStart THEN cells[c] ELSE 0
  <2>1. here(c) = {}
    <3>1. ASSUME NEW i \in here(c) PROVE FALSE
      <4>1. c >= o(n) /\ c >= freeStart /\ c \in Int
        BY <1>5 DEF Cells
      <4> QED BY <1>1, <1>2, <1>8, <4>1
    <3> QED BY <3>1
  <2> QED BY <1>3, <2>1
<1>9. ASSUME NEW c \in Cells PROVE Packed[c] \in Bytes \cup {0, Dir}
  <2>1. CASE here(c) # {}
    BY <1>6, <2>1
  <2>2. CASE here(c) = {}
    BY <1>1, <1>3, <2>2
  <2> QED BY <2>1, <2>2
<1>10. Packed \in [Cells -> Bytes \cup {0, Dir}]
  <2>1. DOMAIN Packed = Cells /\ Packed = [c \in Cells |-> Packed[c]]
    BY DEF Packed
  <2> QED BY <1>9, <2>1
<1>11. ASSUME NEW c \in freeStart..(o(n) - 1) PROVE Packed[c] = 0
  <2>1. o(n) <= PageSize
    BY CompactOffsets DEF o
  <2>2. c \in Cells /\ c < o(n) /\ ~(c < freeStart)
    BY <1>1, <1>2, <2>1 DEF Cells
  <2> QED BY <1>8, <2>2
<1> QED BY <1>7, <1>8, <1>10, <1>11 DEF o, len

LEMMA CompactKeeps ==
    ASSUME PageInv, Compact
    PROVE  PageInv' /\ LiveLens(slots') = LiveLens(slots) /\ Len(slots') = Len(slots)
<1> DEFINE n == Len(slots)
           o(i) == CompactOffset(i)
           len(i) == slots[i].len
<1>1. /\ n \in Nat /\ DOMAIN slots = 1..n /\ PageSize \in Nat
      /\ slots \in Seq(Slot) /\ stored \in Seq(Records \cup {None}) /\ Len(stored) = n
      /\ freeStart = HeaderSize + n * SlotSize /\ freeStart \in Nat /\ freeEnd \in Nat
      /\ freeStart <= freeEnd
      /\ \A i \in 1..n : slots[i] \in Slot /\ slots[i].flags \in {"live", "dead"} /\ len(i) \in Nat
  BY ShapeFacts, Sizes DEF PageInv, Layout, Shape
<1>2. /\ o(n) \in Nat /\ freeEnd <= o(n) /\ o(n) <= PageSize
      /\ \A i \in 1..n : Live(i) => o(i) \in Nat /\ o(n) <= o(i) /\ o(i) + len(i) <= PageSize
      /\ \A i, j \in 1..n : Live(j) /\ i < j => o(j) + len(j) <= o(i)
  BY CompactOffsets
<1>3. /\ cells' \in [Cells -> Bytes \cup {0, Dir}]
      /\ \A i \in 1..n : Live(i) => \A k \in 1..len(i) : cells'[o(i) + k - 1] = stored[i][k]
      /\ \A c \in Cells : c < freeStart => cells'[c] = cells[c]
      /\ \A c \in freeStart..(o(n) - 1) : cells'[c] = 0
  <2>1. cells' = Packed
    BY DEF Compact
  <2> QED BY <2>1, PackedFacts
<1>4. /\ freeEnd' = o(n) /\ freeStart' = freeStart /\ stored' = stored
      /\ sum' = Checksum(cells', slots', freeStart', freeEnd')
      /\ slots' = [i \in 1..n |->
                      IF Live(i) THEN [slots[i] EXCEPT !.offset = o(i)] ELSE slots[i]]
  BY <1>1 DEF Compact, RefreshChecksum
<1>5. ASSUME NEW i \in 1..n
      PROVE  /\ slots'[i] \in Slot /\ slots'[i].flags = slots[i].flags /\ slots'[i].len = len(i)
             /\ Live(i) => slots'[i].offset = o(i)
  <2>1. CASE Live(i)
    <3>1. slots'[i] = [slots[i] EXCEPT !.offset = o(i)] /\ slots[i] \in Slot
      BY <1>1, <1>4, <2>1
    <3>2. o(i) \in 0..PageSize
      <4>1. o(i) \in Nat /\ len(i) \in Nat /\ o(i) + len(i) <= PageSize
        BY <1>1, <1>2, <2>1
      <4> HIDE DEF o, len
      <4> QED BY <1>1, <4>1
    <3> HIDE DEF o
    <3> QED BY <3>1, <3>2 DEF Slot
  <2>2. CASE ~Live(i)
    BY <1>1, <1>4, <2>2
  <2> QED BY <2>1, <2>2
<1> HIDE DEF o
<1>6. slots' \in Seq(Slot) /\ Len(slots') = n /\ DOMAIN slots' = 1..n
  <2>1. slots' \in [1..n -> Slot]
    BY <1>4, <1>5
  <2> QED BY <1>1, <2>1
<1>7. \A i \in 1..n : Live(i)' <=> Live(i)
  BY <1>5 DEF Live
<1>8. LiveLens(slots') = LiveLens(slots)
  BY <1>1, <1>5, <1>6 DEF LiveLens
<1>9. Shape' /\ Summed'
  <2>1. freeEnd' \in 0..PageSize /\ freeEnd' \in Nat /\ freeStart' \in Nat
    BY <1>1, <1>2, <1>4
  <2>2. sum' \in Nat
    BY <1>3, <1>4, <1>6, <2>1, ChecksumNat
  <2> QED BY <1>1, <1>3, <1>4, <1>6, <2>1, <2>2 DEF PageInv, Shape, TypeOK, Summed
<1>10. Layout'
  <2>1. freeStart <= o(n)
    BY <1>1, <1>2
  <2> QED BY <1>1, <1>2, <1>4, <1>5, <1>6, <1>7, <2>1 DEF Layout
<1>11. RecordsDisjoint'
  <2> DEFINE E(i) == o(i)..(o(i) + len(i) - 1)
  <2>1. \A i \in 1..n : Live(i) => Extent(i)' = E(i)
    BY <1>5 DEF Extent
  <2>2. ASSUME NEW i \in 1..n, NEW j \in 1..n, Live(i), Live(j), i < j PROVE E(i) \cap E(j) = {}
    <3>1. /\ o(i) \in Nat /\ o(j) \in Nat /\ len(i) \in Nat /\ len(j) \in Nat
          /\ o(j) + len(j) <= o(i)
      BY <1>1, <1>2, <2>2
    <3> HIDE DEF len
    <3> QED BY <3>1
  <2>3. ASSUME NEW i \in 1..n, Live(i) PROVE E(i) \cap 0..(o(n) - 1) = {}
    <3>1. o(i) \in Nat /\ len(i) \in Nat /\ o(n) <= o(i) /\ o(n) \in Nat
      BY <1>1, <1>2, <2>3
    <3> HIDE DEF len
    <3> QED BY <3>1
  <2> HIDE DEF E
  <2>4. \A i, j \in 1..n : Live(i) /\ Live(j) /\ i # j => E(i) \cap E(j) = {}
    <3>1. \A i, j \in 1..n : i = j \/ i < j \/ j < i
      BY <1>1
    <3>2. \A i, j : E(i) \cap E(j) = E(j) \cap E(i)
      OBVIOUS
    <3> QED BY <2>2, <3>1, <3>2
  <2>5. ASSUME NEW i \in DOMAIN slots', NEW j \in DOMAIN slots', Live(i)', Live(j)'
        PROVE  /\ i # j => Extent(i)' \cap Extent(j)' = {}
               /\ Extent(i)' \cap 0..(freeEnd' - 1) = {}
    BY <1>4, <1>6, <1>7, <2>1, <2>3, <2>4, <2>5
  <2> QED BY <2>5 DEF RecordsDisjoint
<1>12. Held'
  <2>1. ASSUME NEW i \in 1..n
        PROVE  IF slots'[i].flags = "live"
               THEN /\ stored[i] \in Records /\ slots'[i].len = Len(stored[i])
                    /\ \A k \in 1..slots'[i].len : cells'[slots'[i].offset + k - 1] = stored[i][k]
               ELSE stored[i] = None
    BY <1>1, <1>3, <1>5, SMTT(30) DEF PageInv, Held, Live
  <2> QED BY <1>4, <1>6, <2>1 DEF Held, Live
<1>13. Directory'
  <2>1. \A i \in 1..n : \A c \in SlotCells(i) : c \in Nat /\ c < freeStart
    BY <1>1, SlotArea
  <2>2. \A i \in 1..n : \A c \in SlotCells(i) : c \in Cells /\ c < freeStart
    BY <1>1, <1>2, <2>1 DEF Cells
  <2> QED BY <1>1, <1>3, <1>6, <2>2 DEF PageInv, Directory
<1>14. FreeZero'
  BY <1>3, <1>4 DEF FreeZero
<1>15. Fits'
  <2>1. o(n) = PageSize - SumTo(LiveLens(slots), n)
    BY DEF o, CompactOffset, LiveBytesUpTo
  <2>2. SumTo(LiveLens(slots), n) \in Nat
    BY <1>1, ValuesFacts, SumFacts
  <2> QED BY <1>1, <1>4, <1>6, <1>8, <2>1, <2>2 DEF Fits
<1> QED BY <1>6, <1>8, <1>9, <1>10, <1>11, <1>12, <1>13, <1>14, <1>15 DEF PageInv

-----------------------------------------------------------------------------
(* The invariant holds. *)

LEMMA PageStep ==
    ASSUME PageInv, [Next]_vars
    PROVE  PageInv'
<1>1. ASSUME NEW record \in Records, InsertRecord(record) PROVE PageInv'
  BY <1>1, InsertKeeps
<1>2. ASSUME NEW i \in DOMAIN slots, DeleteRecord(i) PROVE PageInv'
  BY <1>2, DeleteKeeps
<1>3. ASSUME Compact PROVE PageInv'
  BY <1>3, CompactKeeps
<1>4. ASSUME UNCHANGED vars PROVE PageInv'
  BY <1>4 DEF vars, PageInv, Shape, TypeOK, Layout, RecordsDisjoint, Held, Directory, FreeZero,
              Fits, Summed, Live, Extent
<1> QED BY <1>1, <1>2, <1>3, <1>4 DEF Next, InsertRefused

\* Every state of a page that inserts, deletes and compactions reach satisfies the
\* inductive invariant.
THEOREM PageInvHolds == Spec => []PageInv
<1>1. Init => PageInv
  BY PageInit
<1>2. PageInv /\ [Next]_vars => PageInv'
  BY PageStep
<1> QED BY <1>1, <1>2, PTL DEF Spec

\* The fields of a page keep to their types: no offset, length or bound of the free
\* area leaves the page, and no byte of it is undefined.
THEOREM PageTypeCorrect == Spec => []TypeOK
<1>1. PageInv => TypeOK
  BY DEF PageInv, Shape
<1> QED BY <1>1, PageInvHolds, PTL

\* from_bytes accepts every page that the page code has made, and no two records of
\* such a page, and no record and the free area, share a byte.
THEOREM WellFormedHolds == Spec => []WellFormed
<1>1. PageInv => WellFormed
  BY DEF PageInv, Layout, Summed, WellFormed, Validates
<1> QED BY <1>1, PageInvHolds, PTL

\* read_record returns what was inserted under a slot id, and nothing once it was
\* deleted, after any number of reuses and compactions.
THEOREM ReadsBackHolds == Spec => []ReadsBack
<1>1. ASSUME PageInv PROVE ReadsBack
  <2>1. ASSUME NEW i \in DOMAIN slots PROVE ReadRecord(i) = stored[i]
    <3>1. CASE Live(i)
      <4>1. /\ stored[i] \in Records /\ slots[i].len = Len(stored[i])
            /\ \A k \in 1..slots[i].len : cells[slots[i].offset + k - 1] = stored[i][k]
        BY <1>1, <3>1 DEF PageInv, Held
      <4>2. stored[i] = [k \in 1..slots[i].len |-> stored[i][k]]
        BY <4>1, RecordFacts
      <4>3. [k \in 1..slots[i].len |-> cells[slots[i].offset + k - 1]]
              = [k \in 1..slots[i].len |-> stored[i][k]]
        BY <4>1
      <4> QED BY <3>1, <4>2, <4>3 DEF ReadRecord
    <3>2. CASE ~Live(i)
      BY <1>1, <3>2 DEF PageInv, Held, ReadRecord
    <3> QED BY <3>1, <3>2
  <2> QED BY <1>1, <2>1 DEF PageInv, Directory, ReadsBack
<1> QED BY <1>1, PageInvHolds, PTL

\* A slot id stands for its record until that record is deleted: the slot an insert
\* takes is new or dead, and compact moves bytes, not ids.
THEOREM SlotIdsStableHolds == Spec => SlotIdsStable
<1> DEFINE Stable == \A i \in DOMAIN stored : stored[i] # None => stored'[i] \in {stored[i], None}
<1>1. ASSUME PageInv, [Next]_vars PROVE Stable \/ UNCHANGED vars
  <2>1. DOMAIN stored = 1..Len(slots) /\ DOMAIN slots = 1..Len(slots) /\ stored \in Seq(Records \cup {None})
    BY <1>1, ShapeFacts DEF PageInv
  <2>2. ASSUME NEW record \in Records, InsertRecord(record) PROVE Stable
    <3> DEFINE i == SlotForInsert
    <3>1. (i \in 1..Len(slots) => ~Live(i)) /\ \A j \in 1..Len(slots) : j # i => stored'[j] = stored[j]
      BY <1>1, <2>2, InsertFacts
    <3>2. \A j \in 1..Len(slots) : ~Live(j) => stored[j] = None
      BY <1>1, <2>1 DEF PageInv, Held
    <3> HIDE DEF i
    <3> QED BY <2>1, <3>1, <3>2
  <2>3. ASSUME NEW i \in DOMAIN slots, DeleteRecord(i) PROVE Stable
    BY <2>1, <2>3 DEF DeleteRecord
  <2>4. ASSUME Compact PROVE Stable
    BY <2>4 DEF Compact
  <2> HIDE DEF Stable
  <2> QED BY <1>1, <2>2, <2>3, <2>4 DEF Next, InsertRefused
<1>2. PageInv /\ [Next]_vars => [Stable]_vars
  BY <1>1
<1>3. Spec => [][Stable]_vars
  <2> HIDE DEF Stable
  <2> QED BY <1>2, PageInvHolds, PTL DEF Spec
<1> QED BY <1>3 DEF SlotIdsStable

\* After compact the free area is all that the header, the slot entries and the live
\* records leave, and no other operation makes it larger.
THEOREM CompactReclaimsHolds == Spec => CompactReclaims
<1> DEFINE Reclaims ==
        Compact \/ freeEnd' - freeStart' > freeEnd - freeStart =>
            freeEnd' - freeStart' = PageSize - HeaderSize - Len(slots') * SlotSize
                                      - SumTo(LiveLens(slots'), Len(slots'))
<1>1. ASSUME PageInv, [Next]_vars PROVE Reclaims \/ UNCHANGED vars
  <2>1. freeStart \in Nat /\ freeEnd \in Nat /\ Len(slots) \in Nat /\ slots \in Seq(Slot)
    BY <1>1, ShapeFacts DEF PageInv
  <2>2. ASSUME Compact PROVE Reclaims
    <3> DEFINE total == SumTo(LiveLens(slots), Len(slots))
               area == Len(slots) * SlotSize
    <3>1. LiveLens(slots') = LiveLens(slots) /\ Len(slots') = Len(slots)
      BY <1>1, <2>2, CompactKeeps
    <3>2. freeEnd' = PageSize - total /\ freeStart' = freeStart
      BY <2>2 DEF Compact, CompactOffset, LiveBytesUpTo
    <3>3. freeStart = HeaderSize + area
      BY <1>1 DEF PageInv, Layout
    <3>4. total \in Nat /\ area \in Nat /\ PageSize \in Nat /\ HeaderSize \in Nat
      <4>1. total \in Nat
        BY <2>1, ValuesFacts, SumFacts
      <4>2. SlotSize \in Nat /\ PageSize \in Nat /\ HeaderSize \in Nat
        BY Sizes
      <4>3. area \in Nat
        BY <2>1, <4>2
      <4> QED BY <4>1, <4>2, <4>3
    <3> HIDE DEF total, area
    <3>5. freeEnd' - freeStart' = PageSize - HeaderSize - area - total
      BY <3>2, <3>3, <3>4
    <3> QED BY <3>1, <3>5 DEF total, area
  <2>3. ASSUME NEW record \in Records, InsertRecord(record), ~Compact PROVE Reclaims
    <3>1. /\ freeStart <= freeStart' /\ freeStart' \in Nat /\ freeEnd' \in Nat
          /\ freeEnd' + Len(record) = freeEnd
      BY <1>1, <2>3, InsertFacts
    <3>2. ~(freeEnd' - freeStart' > freeEnd - freeStart)
      BY <2>1, <3>1, RecordFacts
    <3> QED BY <2>3, <3>2
  <2>4. ASSUME NEW i \in DOMAIN slots, DeleteRecord(i), ~Compact PROVE Reclaims
    <3>1. ~(freeEnd' - freeStart' > freeEnd - freeStart)
      BY <2>1, <2>4 DEF DeleteRecord
    <3> QED BY <2>4, <3>1
  <2> HIDE DEF Reclaims
  <2> QED BY <1>1, <2>2, <2>3, <2>4 DEF Next, InsertRefused
<1>2. PageInv /\ [Next]_vars => [Reclaims]_vars
  BY <1>1
<1>3. Spec => [][Reclaims]_vars
  <2> HIDE DEF Reclaims
  <2> QED BY <1>2, PageInvHolds, PTL DEF Spec
<1> QED BY <1>3 DEF CompactReclaims

-----------------------------------------------------------------------------
(* Torn inserts. *)

\* An insert into a new slot writes only bytes that were zero: the slot entry at the
\* start of the free area and the record at its end.
LEMMA NewSlotFacts ==
    ASSUME PageInv, NEW record \in Records, InsertRecord(record), Len(slots') > Len(slots)
    PROVE  LET n == Len(slots)
           IN  /\ Len(slots') = n + 1 /\ slots' \in Seq(Slot)
               /\ cells' \in [Cells -> Bytes \cup {0, Dir}]
               /\ \A c \in SlotCells(n + 1) : c \in Cells /\ cells[c] = 0 /\ cells'[c] = Dir
               /\ \A c \in freeEnd'..(freeEnd - 1) :
                     /\ c \in Cells /\ c \notin SlotCells(n + 1)
                     /\ cells[c] = 0 /\ cells'[c] \in Bytes
               /\ \A c \in Cells : c \notin SlotCells(n + 1) /\ c \notin freeEnd'..(freeEnd - 1) =>
                     cells'[c] = cells[c]
               /\ \A j \in 1..n : slots'[j] = slots[j]
<1> DEFINE i == SlotForInsert
           n == Len(slots)
           offset == freeEnd - Len(record)
<1>1. /\ i \in 1..(n + 1) /\ slots' \in Seq(Slot) /\ Len(slots') = (IF i = n + 1 THEN n + 1 ELSE n)
      /\ slots'[i] = [offset |-> offset, len |-> Len(record), flags |-> "live"]
      /\ \A j \in 1..n : j # i => slots'[j] = slots[j]
      /\ freeStart' = HeaderSize + Len(slots') * SlotSize
      /\ freeStart' <= offset /\ freeEnd' = offset
      /\ offset \in Nat /\ freeStart' \in Nat /\ offset + Len(record) = freeEnd
  BY InsertFacts
<1>2. /\ cells' \in [Cells -> Bytes \cup {0, Dir}]
      /\ \A c \in SlotCells(i) : c \in Cells /\ c < freeStart' /\ cells'[c] = Dir
      /\ \A k \in 1..Len(record) : offset + k - 1 \in Cells /\ cells'[offset + k - 1] = record[k]
      /\ \A c \in Cells : c \notin SlotCells(i) /\ (c < offset \/ c >= freeEnd) => cells'[c] = cells[c]
  BY InsertCells
<1>3. /\ n \in Nat /\ freeStart \in Nat /\ freeEnd \in Nat /\ Len(record) \in Nat
      /\ DOMAIN slots = 1..n /\ slots \in Seq(Slot)
      /\ freeStart = HeaderSize + n * SlotSize /\ SlotSize \in Nat
      /\ \A k \in 1..Len(record) : record[k] \in Bytes
      /\ \A c \in freeStart..(freeEnd - 1) : cells[c] = 0
  BY ShapeFacts, RecordFacts, Sizes DEF PageInv, Layout, FreeZero
<1> HIDE DEF i, offset
<1>4. i = n + 1 /\ Len(slots') = n + 1
  BY <1>1, <1>3
<1>5. freeStart' = freeStart + SlotSize /\ SlotCells(n + 1) = freeStart..(freeStart' - 1)
  <2>1. /\ HeaderSize + (n + 1) * SlotSize = HeaderSize + n * SlotSize + SlotSize
        /\ SlotCells(n + 1) = (HeaderSize + n * SlotSize)..(HeaderSize + n * SlotSize + SlotSize - 1)
    BY <1>3, SlotArea
  <2> QED BY <1>1, <1>3, <1>4, <2>1
<1>6. ASSUME NEW c \in SlotCells(n + 1) PROVE c \in Cells /\ cells[c] = 0 /\ cells'[c] = Dir
  <2>1. c \in freeStart..(freeEnd - 1)
    <3>1. c \in freeStart..(freeStart' - 1)
      BY <1>5
    <3>2. freeStart' <= freeEnd
      BY <1>1, <1>3
    <3> QED BY <1>1, <1>3, <3>1, <3>2, SMTT(30)
  <2> QED BY <1>2, <1>3, <1>4, <2>1
<1>7. ASSUME NEW c \in freeEnd'..(freeEnd - 1)
      PROVE  c \in Cells /\ c \notin SlotCells(n + 1) /\ cells[c] = 0 /\ cells'[c] \in Bytes
  <2>1. /\ c - offset + 1 \in 1..Len(record) /\ offset + (c - offset + 1) - 1 = c
        /\ c \in freeStart..(freeEnd - 1) /\ c \notin freeStart..(freeStart' - 1)
    <3> DEFINE l == Len(record)
               s == freeStart'
    <3>1. /\ c \in offset..(freeEnd - 1) /\ offset \in Nat /\ l \in Nat /\ s \in Nat
          /\ offset + l = freeEnd /\ s <= offset /\ s = freeStart + SlotSize
          /\ freeStart \in Nat /\ freeEnd \in Nat /\ SlotSize \in Nat
      BY <1>1, <1>3, <1>5
    <3> HIDE DEF l, s
    <3>2. /\ c - offset + 1 \in 1..l /\ offset + (c - offset + 1) - 1 = c
          /\ c \in freeStart..(freeEnd - 1) /\ c \notin freeStart..(s - 1)
      BY <3>1
    <3> QED BY <3>2 DEF l, s
  <2>2. c \in Cells /\ cells'[c] = record[c - offset + 1]
    BY <1>2, <2>1
  <2> QED BY <1>3, <1>5, <2>1, <2>2
<1>8. ASSUME NEW c \in Cells, c \notin SlotCells(n + 1), c \notin freeEnd'..(freeEnd - 1)
      PROVE  cells'[c] = cells[c]
  <2>1. c < offset \/ c >= freeEnd
    BY <1>1, <1>3, <1>8 DEF Cells
  <2> QED BY <1>2, <1>4, <1>8, <2>1
<1> QED BY <1>1, <1>2, <1>4, <1>6, <1>7, <1>8

\* Byte by byte, the page before the insert is the page after it or zero.
LEMMA NewSlotBytes ==
    ASSUME PageInv, NEW record \in Records, InsertRecord(record), Len(slots') > Len(slots),
           NEW k \in 1..PageSize
    PROVE  \/ PageBytes(cells, slots)[k] = PageBytes(cells', slots')[k]
           \/ PageBytes(cells, slots)[k] = 0
<1> DEFINE n == Len(slots)
           c == k - 1
           new == freeEnd'..(freeEnd - 1)
           old == PageBytes(cells, slots)
           now == PageBytes(cells', slots')
<1>1. /\ Len(slots') = n + 1 /\ slots' \in Seq(Slot) /\ cells' \in [Cells -> Bytes \cup {0, Dir}]
      /\ \A j \in 1..n : slots'[j] = slots[j]
      /\ \A x \in SlotCells(n + 1) : x \in Cells /\ cells[x] = 0
      /\ \A x \in new : x \in Cells /\ cells[x] = 0
      /\ \A x \in Cells : x \notin SlotCells(n + 1) /\ x \notin new => cells'[x] = cells[x]
  BY NewSlotFacts
<1>2. cells \in [Cells -> Bytes \cup {0, Dir}] /\ slots \in Seq(Slot) /\ n \in Nat
  BY ShapeFacts DEF PageInv
<1>3. /\ c \in Cells /\ c \in Nat
      /\ old[k] = IF SlotAt(c) \in 1..n THEN EntryBytes(slots[SlotAt(c)])[PlaceAt(c)]
                  ELSE IF cells[c] = Dir THEN 0 ELSE cells[c]
  BY <1>2, PageByteFacts
<1>4. now[k] = IF SlotAt(c) \in 1..(n + 1) THEN EntryBytes(slots'[SlotAt(c)])[PlaceAt(c)]
               ELSE IF cells'[c] = Dir THEN 0 ELSE cells'[c]
  BY <1>1, PageByteFacts
<1>5. SlotAt(c) \in Int /\ (SlotAt(c) = n + 1 <=> c \in SlotCells(n + 1))
  BY <1>2, <1>3, PlaceFacts
<1> HIDE DEF n, c, new, old, now
<1>6. CASE SlotAt(c) \in 1..n
  <2>1. SlotAt(c) \in 1..(n + 1) /\ slots'[SlotAt(c)] = slots[SlotAt(c)]
    BY <1>1, <1>2, <1>6
  <2> QED BY <1>3, <1>4, <1>6, <2>1 DEF old, now
<1>7. CASE c \in SlotCells(n + 1) \/ c \in new
  <2>1. cells[c] = 0
    BY <1>1, <1>7
  <2>2. CASE SlotAt(c) \in 1..n
    BY <1>6, <2>2
  <2>3. CASE SlotAt(c) \notin 1..n
    BY <1>3, <2>1, <2>3 DEF old
  <2> QED BY <2>2, <2>3
<1>8. CASE SlotAt(c) \notin 1..n /\ c \notin SlotCells(n + 1) /\ c \notin new
  <2>1. cells'[c] = cells[c]
    BY <1>1, <1>3, <1>8
  <2>2. SlotAt(c) \notin 1..(n + 1)
    BY <1>2, <1>5, <1>8
  <2> QED BY <1>3, <1>4, <1>8, <2>1, <2>2 DEF old, now
<1> QED BY <1>6, <1>7, <1>8

\* The checksum finds out every torn write of an insert into a new slot: such an insert only
\* makes bytes larger, so the sum of a torn page lies between those of the page before and
\* of the page after the insert, and is one of the two only if the bytes are.
THEOREM TornInsertsDetectedHolds == Spec => TornInsertsDetected
<1> DEFINE old == PageBytes(cells, slots)
           new == PageBytes(cells', slots')
           torn(kept) == TornPage(old, new, kept)
           Detected(kept) ==
              /\ Accepted(torn(kept), freeStart, freeEnd, Len(slots), sum) => torn(kept) = old
              /\ Accepted(torn(kept), freeStart', freeEnd', Len(slots'), sum') => torn(kept) = new
           Torn == Len(slots') > Len(slots) =>
                     TearsDetected(PageBytes(cells, slots), PageBytes(cells', slots'))
<1>1. ASSUME PageInv, NEW record \in Records, InsertRecord(record), Len(slots') > Len(slots), NEW kept
      PROVE  Detected(kept)
  <2> DEFINE ts == torn(kept)
             N == PageSize
             h == HeaderSum(freeStart, freeEnd, Len(slots))
             hh == HeaderSum(freeStart', freeEnd', Len(slots'))
  <2>1. /\ cells \in [Cells -> Bytes \cup {0, Dir}] /\ slots \in Seq(Slot)
        /\ freeStart \in Nat /\ freeEnd \in Nat
    BY <1>1, ShapeFacts DEF PageInv
  <2>2. /\ cells' \in [Cells -> Bytes \cup {0, Dir}] /\ slots' \in Seq(Slot)
        /\ freeStart' \in Nat /\ freeEnd' \in Nat
    BY <1>1, NewSlotFacts, InsertFacts
  <2>3. N \in Nat /\ old \in Seq(Nat) /\ Len(old) = N /\ new \in Seq(Nat) /\ Len(new) = N
    BY <2>1, <2>2, Sizes, ValuesFacts
  <2>4. \A k \in 1..N : old[k] = new[k] \/ old[k] = 0
    BY <1>1, NewSlotBytes
  <2>5. h \in Nat /\ hh \in Nat
    BY <2>1, <2>2, ChecksumNat
  <2>6. sum = SumTo(old, N) + h /\ sum' = SumTo(new, N) + hh
    BY <1>1 DEF PageInv, Summed, Checksum, InsertRecord, RefreshChecksum
  <2> HIDE DEF old, new, h, hh, N
  <2>7. /\ ts \in [1..N -> Nat] /\ ts \in Seq(Nat) /\ Len(ts) = N
        /\ \A k \in 1..N : ts[k] = IF k \in kept THEN new[k] ELSE old[k]
    <3>1. \A k \in 1..N : new[k] \in Nat /\ old[k] \in Nat
      BY <2>3
    <3>2. ts \in [1..N -> Nat] /\ \A k \in 1..N : ts[k] = IF k \in kept THEN new[k] ELSE old[k]
      BY <3>1 DEF N, TornPage
    <3> HIDE DEF ts
    <3> QED BY <2>3, <3>2
  <2> HIDE DEF ts
  <2>8. \A k \in 1..N : old[k] <= ts[k] /\ ts[k] <= new[k]
    <3>1. \A k \in 1..N : new[k] \in Nat /\ old[k] \in Nat
      BY <2>3
    <3> QED BY <2>4, <2>7, <3>1
  <2>9. SumTo(old, N) \in Nat /\ SumTo(ts, N) \in Nat /\ SumTo(new, N) \in Nat
    BY <2>3, <2>7, SumFacts
  <2>10. /\ SumTo(old, N) = SumTo(ts, N) => \A k \in 1..N : old[k] = ts[k]
         /\ SumTo(ts, N) = SumTo(new, N) => \A k \in 1..N : ts[k] = new[k]
    <3>1. N <= Len(old) /\ N <= Len(ts) /\ N <= Len(new)
      BY <2>3, <2>7
    <3> QED BY <2>3, <2>7, <2>8, <3>1, SumCompare
  <2>11. /\ old = [k \in 1..N |-> old[k]] /\ new = [k \in 1..N |-> new[k]]
         /\ ts = [k \in 1..N |-> ts[k]]
    BY <2>3, <2>7
  <2>12. Accepted(ts, freeStart, freeEnd, Len(slots), sum) => ts = old
    <3>1. Accepted(ts, freeStart, freeEnd, Len(slots), sum) => SumTo(ts, N) + h = sum
      BY DEF Accepted, N, h
    <3>2. Accepted(ts, freeStart, freeEnd, Len(slots), sum) => SumTo(ts, N) = SumTo(old, N)
      BY <2>5, <2>6, <2>9, <3>1
    <3> QED BY <2>10, <2>11, <3>2, Zenon
  <2>13. Accepted(ts, freeStart', freeEnd', Len(slots'), sum') => ts = new
    <3>1. Accepted(ts, freeStart', freeEnd', Len(slots'), sum') => SumTo(ts, N) + hh = sum'
      BY DEF Accepted, N, hh
    <3>2. Accepted(ts, freeStart', freeEnd', Len(slots'), sum') => SumTo(ts, N) = SumTo(new, N)
      BY <2>5, <2>6, <2>9, <3>1
    <3> QED BY <2>10, <2>11, <3>2, Zenon
  <2> QED BY <2>12, <2>13 DEF ts
<1>2. ASSUME PageInv, [Next]_vars PROVE Torn \/ UNCHANGED vars
  <2>1. ASSUME NEW record \in Records, InsertRecord(record) PROVE Torn
    <3>1. Len(slots') > Len(slots) => \A kept : Detected(kept)
      <4> HIDE DEF Detected, old, new
      <4> QED BY <1>1, <1>2, <2>1
    <3> QED BY <3>1, Zenon DEF TearsDetected
  <2>2. ASSUME NEW i \in DOMAIN slots, DeleteRecord(i) PROVE Torn
    <3>1. Len(slots') = Len(slots) /\ Len(slots) \in Nat
      BY <1>2, <2>2, ShapeFacts DEF DeleteRecord, PageInv
    <3> QED BY <3>1
  <2>3. ASSUME Compact PROVE Torn
    <3>1. Len(slots') = Len(slots) /\ Len(slots) \in Nat
      BY <1>2, <2>3, CompactKeeps, ShapeFacts DEF PageInv
    <3> QED BY <3>1
  <2> HIDE DEF Torn
  <2> QED BY <1>2, <2>1, <2>2, <2>3 DEF Next, InsertRefused
<1>3. PageInv /\ [Next]_vars => [Torn]_vars
  BY <1>2
<1>4. Spec => [][Torn]_vars
  <2> HIDE DEF Torn
  <2> QED BY <1>3, PageInvHolds, PTL DEF Spec
<1> QED BY <1>4 DEF TornInsertsDetected

=============================================================================
