----------------------------- MODULE FoldProofs -----------------------------
(***************************************************************************)
(* What FoldLeft computes.  The decoders, the size of the catalog and the  *)
(* extension registry are folds; this module is instantiated for each of   *)
(* their turns.                                                            *)
(***************************************************************************)
EXTENDS Integers, Sequences, Folds, WellFoundedInduction

CONSTANTS
    Op(_, _),    \* one turn: what has been computed so far, and the next element
    Inv(_, _, _) \* holds of a parameter, a number of turns and what they have computed

\* The fold: FoldLeft(Op, base, seq), as SequencesExt defines it.
Greatest(s) == CHOOSE x \in s : \A y \in s : x >= y
Fold(base, seq) ==
    MapThenFoldSet(LAMBDA x, y : Op(y, x), base, LAMBDA i : seq[i], LAMBDA s : Greatest(s), DOMAIN seq)

\* Induction from 0 to n over a set of numbers.
LEMMA CountTo ==
    ASSUME NEW n \in Nat, NEW T, 0 \in T, \A i \in 0..(n - 1) : i \in T => i + 1 \in T
    PROVE  0..n \subseteq T
<1> DEFINE Missing == {i \in Nat : i \in 0..n /\ i \notin T}
<1> SUFFICES ASSUME NEW j \in 0..n, j \notin T PROVE FALSE
  OBVIOUS
<1>1. IsWellFoundedOn(OpToRel(<, Nat), Nat)
  BY NatLessThanWellFounded
<1>2. Missing \subseteq Nat /\ Missing # {}
  OBVIOUS
<1>3. PICK x \in Missing : \A y \in Missing : ~ (<<y, x>> \in OpToRel(<, Nat))
  BY <1>1, <1>2, WFMin
<1>4. x \in Nat /\ x \in 0..n /\ x \notin T /\ x # 0
  OBVIOUS
<1>5. x - 1 \in 0..(n - 1) /\ x - 1 \notin T /\ x - 1 \in Nat /\ (x - 1) + 1 = x /\ x - 1 < x
  BY <1>4
<1>6. x - 1 \in Missing
  BY <1>5
<1>7. <<x - 1, x>> \in OpToRel(<, Nat)
  BY <1>4, <1>5 DEF OpToRel
<1> QED BY <1>3, <1>6, <1>7

\* The largest element of a set whose largest element is known.
LEMMA GreatestIs ==
    ASSUME NEW s, s \subseteq Int, NEW m \in s, \A y \in s : m >= y
    PROVE  Greatest(s) = m
<1>1. \A x \in s : (\A y \in s : x >= y) => x = m
  OBVIOUS
<1> QED BY <1>1 DEF Greatest

\* One turn of the iteration behind FoldLeft, on a set of places.
Turn(base, seq, t, s) == IF s = {} THEN base ELSE Op(t[s \ {Greatest(s)}], seq[Greatest(s)])
Turns(base, seq, n, t) ==
    /\ t = [s \in SUBSET (1..n) |-> t[s]]
    /\ \A s \in SUBSET (1..n) : t[s] = Turn(base, seq, t, s)

LEMMA TurnsExist ==
    ASSUME NEW base, NEW seq, NEW n \in Nat
    PROVE  \E t : Turns(base, seq, n, t)
<1> DEFINE T == {i \in 0..n : \E t : Turns(base, seq, i, t)}
<1>1. 0 \in T
  <2> DEFINE t == [s \in SUBSET (1..0) |-> base]
  <2>1. SUBSET (1..0) = {{}}
    <3>1. 1..0 = {}
      OBVIOUS
    <3> QED BY <3>1
  <2>2. Turns(base, seq, 0, t)
    BY <2>1 DEF Turns, Turn
  <2> QED BY <2>2
<1>2. ASSUME NEW i \in 0..(n - 1), i \in T PROVE i + 1 \in T
  <2>1. PICK t : Turns(base, seq, i, t)
    BY <1>2
  <2> DEFINE k == i + 1
             u == [s \in SUBSET (1..k) |-> IF k \in s THEN Op(t[s \ {k}], seq[k]) ELSE t[s]]
  <2>2. i \in Nat /\ k \in Nat /\ k \in 0..n
    OBVIOUS
  <2>3. ASSUME NEW s \in SUBSET (1..k), k \in s
        PROVE  Greatest(s) = k /\ s # {} /\ s \ {k} \in SUBSET (1..i) /\ k \notin s \ {k}
               /\ s \ {k} \in SUBSET (1..k)
    <3>1. s \subseteq Int /\ \A y \in s : k >= y
      BY <2>2
    <3>2. Greatest(s) = k
      BY <2>3, <3>1, GreatestIs
    <3> QED BY <2>2, <2>3, <3>2
  <2>4. ASSUME NEW s \in SUBSET (1..k), k \notin s PROVE s \in SUBSET (1..i)
    BY <2>2, <2>4
  <2>5. ASSUME NEW s \in SUBSET (1..i) PROVE s \in SUBSET (1..k) /\ k \notin s
    BY <2>2
  <2>6. ASSUME NEW s \in SUBSET (1..i), s # {}
        PROVE  s \ {Greatest(s)} \in SUBSET (1..i)
    OBVIOUS
  <2>7. ASSUME NEW s \in SUBSET (1..i) PROVE u[s] = t[s]
    BY <2>5
  <2>8. ASSUME NEW s \in SUBSET (1..k) PROVE u[s] = Turn(base, seq, u, s)
    <3>1. CASE k \in s
      <4>1. u[s] = Op(t[s \ {k}], seq[k])
        BY <3>1
      <4>2. u[s \ {k}] = t[s \ {k}]
        BY <2>3, <2>7, <3>1
      <4> HIDE DEF u
      <4> QED BY <4>1, <4>2, <2>3, <3>1 DEF Turn
    <3>2. CASE k \notin s
      <4>1. u[s] = t[s] /\ s \in SUBSET (1..i)
        BY <2>4, <3>2
      <4>2. t[s] = Turn(base, seq, t, s)
        BY <2>1, <4>1 DEF Turns
      <4>3. s # {} => u[s \ {Greatest(s)}] = t[s \ {Greatest(s)}]
        BY <2>6, <2>7, <4>1
      <4> HIDE DEF u
      <4> QED BY <4>1, <4>2, <4>3 DEF Turn
    <3> QED BY <3>1, <3>2
  <2>9. Turns(base, seq, k, u)
    <3>1. u = [s \in SUBSET (1..k) |-> u[s]]
      OBVIOUS
    <3> HIDE DEF u
    <3> QED BY <2>8, <3>1 DEF Turns
  <2> QED BY <2>2, <2>9
<1> HIDE DEF T
<1>3. 0..n \subseteq T
  BY <1>1, <1>2, CountTo
<1> QED BY <1>3 DEF T

\* FoldLeft takes the elements in their order.
THEOREM FoldTurns ==
    ASSUME NEW base, NEW S, NEW seq \in Seq(S)
    PROVE  \E f : /\ f[0] = base
                  /\ \A i \in 1..Len(seq) : f[i] = Op(f[i - 1], seq[i])
                  /\ Fold(base, seq) = f[Len(seq)]
<1> DEFINE n == Len(seq)
           body(t) == [s \in SUBSET (1..n) |-> IF s = {} THEN base
                                               ELSE Op(t[s \ {Greatest(s)}], seq[Greatest(s)])]
           m == CHOOSE t : t = body(t)
<1>1. n \in Nat /\ DOMAIN seq = 1..n
  OBVIOUS
<1>2. Fold(base, seq) = m[1..n]
  BY <1>1 DEF Fold, MapThenFoldSet
<1> HIDE DEF n
<1>3. PICK t : Turns(base, seq, n, t)
  BY <1>1, TurnsExist
<1>4. t = body(t)
  <2>1. \A s \in SUBSET (1..n) : t[s] = body(t)[s]
    BY <1>3 DEF Turns, Turn
  <2>2. t = [s \in SUBSET (1..n) |-> t[s]]
    BY <1>3 DEF Turns
  <2> HIDE DEF body
  <2>3. body(t) = [s \in SUBSET (1..n) |-> body(t)[s]]
    BY DEF body
  <2> QED BY <2>1, <2>2, <2>3
<1>5. m = body(m)
  <2> HIDE DEF body
  <2> QED BY <1>4
<1>6. \A s \in SUBSET (1..n) : m[s] = Turn(base, seq, m, s)
  <2> HIDE DEF m
  <2>1. \A s \in SUBSET (1..n) : m[s] = body(m)[s]
    <3> HIDE DEF body
    <3> QED BY <1>5
  <2> QED BY <2>1 DEF Turn
<1> HIDE DEF m, body
<1> DEFINE f == [i \in 0..n |-> m[1..i]]
<1>7. f[0] = base
  <2>1. 1..0 = {} /\ 0 \in 0..n /\ {} \in SUBSET (1..n)
    BY <1>1
  <2>2. m[{}] = base
    BY <1>6, <2>1 DEF Turn
  <2> QED BY <2>1, <2>2
<1>8. ASSUME NEW i \in 1..n PROVE f[i] = Op(f[i - 1], seq[i])
  <2>1. i \in Nat /\ i >= 1 /\ i <= n
    BY <1>1, <1>8
  <2>2. i \in 1..i /\ i \in 0..n /\ i - 1 \in 0..n
    BY <1>1, <2>1
  <2>3. 1..i \subseteq Int /\ \A y \in 1..i : i >= y
    BY <2>1
  <2>4. 1..i \in SUBSET (1..n)
    BY <1>1, <1>8
  <2>5. (1..i) \ {i} = 1..(i - 1)
    BY <2>1
  <2>6. Greatest(1..i) = i
    BY <2>2, <2>3, GreatestIs
  <2>7. m[1..i] = Op(m[1..(i - 1)], seq[i])
    BY <1>6, <2>2, <2>4, <2>5, <2>6 DEF Turn
  <2> QED BY <2>2, <2>7
<1>9. Fold(base, seq) = f[n]
  BY <1>1, <1>2
<1> HIDE DEF f
<1> QED BY <1>7, <1>8, <1>9 DEF n

\* What holds at first and is kept by every turn of a fold holds of its result.
THEOREM FoldKeeps ==
    ASSUME NEW p, NEW base, NEW S, NEW seq \in Seq(S),
           Inv(p, 0, base),
           \A i \in 1..Len(seq) : \A x : Inv(p, i - 1, x) => Inv(p, i, Op(x, seq[i]))
    PROVE  Inv(p, Len(seq), Fold(base, seq))
<1> DEFINE n == Len(seq)
<1>1. PICK f : /\ f[0] = base
               /\ \A i \in 1..n : f[i] = Op(f[i - 1], seq[i])
               /\ Fold(base, seq) = f[n]
  BY FoldTurns
<1>2. n \in Nat
  OBVIOUS
<1> HIDE DEF n
<1> DEFINE T == {i \in 0..n : Inv(p, i, f[i])}
<1>3. 0 \in T
  BY <1>1, <1>2
<1>4. ASSUME NEW i \in 0..(n - 1), i \in T PROVE i + 1 \in T
  <2>1. i + 1 \in 1..n /\ i + 1 \in 0..n /\ (i + 1) - 1 = i
    BY <1>2
  <2>2. Inv(p, i, f[i])
    BY <1>4
  <2>3. Inv(p, i + 1, Op(f[i], seq[i + 1]))
    BY <2>1, <2>2 DEF n
  <2> QED BY <1>1, <2>1, <2>3
<1> HIDE DEF T
<1>5. 0..n \subseteq T
  BY <1>2, <1>3, <1>4, CountTo
<1>6. n \in T
  BY <1>2, <1>5
<1>7. Inv(p, n, f[n])
  BY <1>6 DEF T
<1> QED BY <1>1, <1>7 DEF n
=============================================================================
