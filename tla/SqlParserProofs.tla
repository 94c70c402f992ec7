-------------------------- MODULE SqlParserProofs --------------------------
(***************************************************************************)
(* Proofs about SqlParser: the parser accepts exactly the sentences of the *)
(* grammar, and the statement it returns has the words of its text, for    *)
(* every set of words and spellings and for inputs of every length.        *)
(*                                                                         *)
(* The parts, in this order: lists with commas; the forms of the grammar,  *)
(* place by place; what the parser knows of the tokens ahead and of those  *)
(* behind it; one lemma per parse_ function; and what follows.             *)
(***************************************************************************)
EXTENDS SqlParser, WellFoundedInduction, TLAPS

-----------------------------------------------------------------------------
(* Induction over numbers, by a set of numbers. *)

\* A nonempty set of natural numbers has a least one.
LEMMA LeastNat ==
    ASSUME NEW S \in SUBSET Nat, S # {}
    PROVE  \E k \in S : \A j \in S : k <= j
<1> DEFINE R == OpToRel(<, Nat)
<1>1. \E u \in S : \A v \in S : ~ (<<v, u>> \in R)
  <2> HIDE DEF R
  <2>1. IsWellFoundedOn(R, Nat)
    BY NatLessThanWellFounded DEF R
  <2> QED BY <2>1, WFMin
<1>2. \A u, v \in Nat : ~ (<<v, u>> \in R) => u <= v
  BY DEF OpToRel
<1> HIDE DEF R
<1> QED BY <1>1, <1>2

\* What holds at 0, and at n + 1 if it holds at n, holds up to N: T is the set of the
\* numbers where it holds.
LEMMA UpTo ==
    ASSUME NEW N \in Nat, NEW T, 0 \in T,
           \A n \in 0..(N - 1) : n \in T => n + 1 \in T
    PROVE  0..N \subseteq T
<1> DEFINE S == {n \in 0..N : n \notin T}
<1> SUFFICES ASSUME S # {} PROVE FALSE
  OBVIOUS
<1>1. S \in SUBSET Nat
  OBVIOUS
<1>2. PICK k \in S : \A j \in S : k <= j
  <2> HIDE DEF S
  <2> QED BY <1>1, LeastNat
<1>3. k \in Nat /\ k # 0 /\ k <= N /\ k \notin T
  BY <1>2
<1>4. k - 1 \in 0..(N - 1) /\ k - 1 \in 0..N /\ k = (k - 1) + 1 /\ ~(k <= k - 1)
  BY <1>3
<1>5. k - 1 \in T
  BY <1>2, <1>4
<1> QED BY <1>3, <1>4, <1>5

-----------------------------------------------------------------------------
(* Sequences, and lists with commas. *)

\* s is a followed by b.
IsConcat(S, a, b, s) ==
    /\ s \in Seq(S) /\ Len(s) = Len(a) + Len(b)
    /\ \A n \in 1..Len(a) : s[n] = a[n]
    /\ \A n \in 1..Len(b) : s[Len(a) + n] = b[n]

LEMMA ConcatFacts ==
    ASSUME NEW S, NEW a \in Seq(S), NEW b \in Seq(S)
    PROVE  IsConcat(S, a, b, a \o b)
  BY DEF IsConcat

\* The partial results of FlattenSeq.
Joined(ss, f) ==
    /\ f[1] = ss[1]
    /\ \A i \in 1..(Len(ss) - 1) : f[i + 1] = f[i] \o ss[i + 1]

LEMMA FlattenFacts ==
    ASSUME NEW S, NEW ss \in Seq(S), Len(ss) # 0
    PROVE  \E f : Joined(ss, f) /\ FlattenSeq(ss) = f[Len(ss)]
<1> DEFINE N == Len(ss)
           body(t) == [i \in 1..N |-> IF i = 1 THEN ss[i] ELSE t[i - 1] \o ss[i]]
           Run(f, n) == /\ DOMAIN f = 1..(n + 1) /\ f[1] = ss[1]
                        /\ \A i \in 1..n : f[i + 1] = f[i] \o ss[i + 1]
           T == {n \in 0..(N - 1) : \E f : Run(f, n)}
           m == CHOOSE t : t = body(t)
<1>1. N \in Nat /\ N >= 1
  OBVIOUS
<1> HIDE DEF N
<1>2. 0 \in T
  <2>1. Run([i \in 1..1 |-> ss[1]], 0)
    OBVIOUS
  <2>2. 0 \in 0..(N - 1)
    BY <1>1
  <2> HIDE DEF Run
  <2>3. \E f : Run(f, 0)
    BY <2>1
  <2> QED BY <2>2, <2>3
<1>3. ASSUME NEW n \in 0..((N - 1) - 1), n \in T PROVE n + 1 \in T
  <2>1. PICK f : Run(f, n)
    BY <1>3
  <2> DEFINE g == [i \in 1..((n + 1) + 1) |-> IF i = (n + 1) + 1 THEN f[n + 1] \o ss[n + 2] ELSE f[i]]
  <2>2. n + 1 \in 0..(N - 1) /\ n \in Nat /\ n + 2 = (n + 1) + 1
    BY <1>1
  <2>3. /\ DOMAIN g = 1..((n + 1) + 1) /\ g[1] = ss[1]
        /\ g[(n + 1) + 1] = f[n + 1] \o ss[n + 2]
        /\ \A i \in 1..(n + 1) : g[i] = f[i]
    <3>1. /\ (n + 1) + 1 \in 1..((n + 1) + 1) /\ 1 \in 1..(n + 1)
          /\ \A i \in 1..(n + 1) : i \in 1..((n + 1) + 1) /\ i # (n + 1) + 1
      BY <2>2
    <3>2. f[1] = ss[1]
      BY <2>1
    <3> QED BY <3>1, <3>2
  <2> HIDE DEF g
  <2>4. ASSUME NEW i \in 1..(n + 1) PROVE g[i + 1] = g[i] \o ss[i + 1]
    <3>1. CASE i = n + 1
      BY <2>2, <2>3, <3>1
    <3>2. CASE i # n + 1
      <4>1. i \in 1..n /\ i + 1 \in 1..(n + 1)
        BY <2>2, <2>4, <3>2
      <4>2. g[i + 1] = f[i + 1] /\ g[i] = f[i] /\ f[i + 1] = f[i] \o ss[i + 1]
        BY <2>1, <2>3, <4>1
      <4> QED BY <4>2
    <3> QED BY <3>1, <3>2
  <2>5. Run(g, n + 1)
    BY <2>3, <2>4
  <2> QED BY <2>2, <2>5
<1>4. PICK f : Run(f, N - 1)
  <2>1. N - 1 \in T
    <3> HIDE DEF T
    <3>1. N - 1 \in Nat
      BY <1>1
    <3>2. 0..(N - 1) \subseteq T
      BY <1>2, <1>3, <3>1, UpTo
    <3> QED BY <3>1, <3>2
  <2> QED BY <2>1
<1> DEFINE g == [i \in 1..N |-> f[i]]
<1>5. g = body(g)
  <2>1. \A i \in 1..N : g[i] = IF i = 1 THEN ss[i] ELSE g[i - 1] \o ss[i]
    <3> TAKE i \in 1..N
    <3>1. CASE i = 1
      BY <1>4, <3>1
    <3>2. CASE i # 1
      <4>1. i - 1 \in 1..(N - 1) /\ (i - 1) + 1 = i /\ i - 1 \in 1..N
        BY <1>1, <3>2
      <4>2. f[i] = f[i - 1] \o ss[i]
        BY <1>4, <4>1
      <4> QED BY <3>2, <4>1, <4>2
    <3> QED BY <3>1, <3>2
  <2> HIDE DEF g
  <2>2. DOMAIN g = 1..N
    BY DEF g
  <2>3. g = [i \in 1..N |-> g[i]]
    BY DEF g
  <2> QED BY <2>1, <2>3
<1>6. m = body(m)
  <2> HIDE DEF body, g
  <2> QED BY <1>5
<1>7. FlattenSeq(ss) = m[N]
  BY <1>1 DEF FlattenSeq, N
<1> HIDE DEF m
<1>8. \A i \in 1..N : m[i] = IF i = 1 THEN ss[i] ELSE m[i - 1] \o ss[i]
  <2>1. \A i \in 1..N : m[i] = body(m)[i]
    <3> HIDE DEF body
    <3> QED BY <1>6
  <2> QED BY <2>1
<1>9. Joined(ss, m)
  <2>1. 1 \in 1..N /\ \A i \in 1..(N - 1) : i + 1 \in 1..N /\ i + 1 # 1 /\ (i + 1) - 1 = i
    BY <1>1
  <2> HIDE DEF body
  <2> QED BY <1>8, <2>1 DEF Joined, N
<1> QED BY <1>7, <1>9 DEF N

\* A list as the grammar and the statement have it: the parts with c between them.
Between(c, ss) == [i \in DOMAIN ss |-> IF i = 1 THEN ss[i] ELSE <<c>> \o ss[i]]
Width(n) == IF n = 0 THEN 0 ELSE 2 * n - 1
PairWidth(n) == IF n = 0 THEN 0 ELSE 3 * n - 1

\* ss has n parts of one item each, or of two.
Singles(S, n, x, ss) ==
    ss \in Seq(Seq(S)) /\ Len(ss) = n /\ \A i \in 1..n : x[i] \in S /\ ss[i] = <<x[i]>>
Doubles(S, n, x, y, ss) ==
    /\ ss \in Seq(Seq(S)) /\ Len(ss) = n
    /\ \A i \in 1..n : x[i] \in S /\ y[i] \in S /\ ss[i] = <<x[i], y[i]>>

\* The lists that these make.
IsSingleList(S, c, n, x, s) ==
    /\ s \in Seq(S) /\ Len(s) = Width(n)
    /\ \A i \in 1..n : s[2 * i - 1] = x[i]
    /\ \A i \in 1..(n - 1) : s[2 * i] = c
IsPairList(S, c, n, x, y, s) ==
    /\ s \in Seq(S) /\ Len(s) = PairWidth(n)
    /\ \A i \in 1..n : s[3 * i - 2] = x[i] /\ s[3 * i - 1] = y[i]
    /\ \A i \in 1..(n - 1) : s[3 * i] = c

\* The partial results of such a list.
Chained(c, ss, f) ==
    f[1] = ss[1] /\ \A i \in 1..(Len(ss) - 1) : f[i + 1] = f[i] \o (<<c>> \o ss[i + 1])

LEMMA BetweenFacts ==
    ASSUME NEW S, NEW c \in S, NEW ss \in Seq(Seq(S)), Len(ss) # 0
    PROVE  \E f : FlattenSeq(Between(c, ss)) = f[Len(ss)] /\ Chained(c, ss, f)
<1> DEFINE b == Between(c, ss)
<1>1. DOMAIN ss = 1..Len(ss) /\ Len(ss) \in Nat /\ \A i \in 1..Len(ss) : ss[i] \in Seq(S)
  OBVIOUS
<1>2. \A i \in 1..Len(ss) : b[i] = IF i = 1 THEN ss[i] ELSE <<c>> \o ss[i]
  BY <1>1 DEF Between
<1>3. <<c>> \in Seq(S)
  OBVIOUS
<1>4. \A i \in 1..Len(ss) : b[i] \in Seq(S)
  <2>1. \A i \in 1..Len(ss) : <<c>> \o ss[i] \in Seq(S)
    BY <1>1, <1>3, ConcatFacts DEF IsConcat
  <2> QED BY <1>1, <1>2, <2>1
<1>5. b = [i \in 1..Len(ss) |-> b[i]]
  BY <1>1 DEF Between
<1> HIDE DEF b
<1>6. b \in Seq(Seq(S)) /\ Len(b) = Len(ss)
  BY <1>1, <1>4, <1>5
<1>7. PICK f : Joined(b, f) /\ FlattenSeq(b) = f[Len(b)]
  BY <1>6, FlattenFacts
<1>8. 1 \in 1..Len(ss) /\ \A i \in 1..(Len(ss) - 1) : i + 1 \in 1..Len(ss) /\ i + 1 # 1
  BY <1>1
<1>9. f[1] = ss[1] /\ \A i \in 1..(Len(ss) - 1) : f[i + 1] = f[i] \o (<<c>> \o ss[i + 1])
  BY <1>2, <1>6, <1>7, <1>8 DEF Joined
<1> QED BY <1>6, <1>7, <1>9 DEF b, Chained

\* A list of n single items.
LEMMA SingleList ==
    ASSUME NEW S, NEW c \in S, NEW n \in Nat, NEW x, NEW ss, Singles(S, n, x, ss)
    PROVE  IsSingleList(S, c, n, x, FlattenSeq(Between(c, ss)))
<1>0. \A i \in 1..n : x[i] \in S /\ ss[i] = <<x[i]>>
  BY DEF Singles
<1>1. ss \in Seq(Seq(S)) /\ Len(ss) = n
  BY DEF Singles
<1>2. CASE n = 0
  <2>1. ss = << >>
    BY <1>1, <1>2
  <2>2. Between(c, ss) = << >>
    BY <2>1 DEF Between
  <2>3. FlattenSeq(Between(c, ss)) = << >>
    BY <2>2 DEF FlattenSeq
  <2> DEFINE F == FlattenSeq(Between(c, ss))
  <2> HIDE DEF F
  <2>4. F = << >> /\ 1..n = {} /\ 1..(n - 1) = {} /\ Width(n) = 0
    BY <1>2, <2>3 DEF F, Width
  <2>5. F \in Seq(S) /\ Len(F) = 0
    BY <2>4
  <2> QED BY <2>4, <2>5 DEF F, IsSingleList
<1>3. CASE n # 0
  <2>1. PICK f : /\ FlattenSeq(Between(c, ss)) = f[n] /\ f[1] = ss[1]
                 /\ \A i \in 1..(n - 1) : f[i + 1] = f[i] \o (<<c>> \o ss[i + 1])
    <3>1. Len(ss) # 0
      BY <1>1, <1>3
    <3>2. PICK f : FlattenSeq(Between(c, ss)) = f[Len(ss)] /\ Chained(c, ss, f)
      BY <1>1, <3>1, BetweenFacts
    <3> QED BY <1>1, <3>2 DEF Chained
  <2> DEFINE Good(m) == /\ f[m + 1] \in Seq(S) /\ Len(f[m + 1]) = 2 * m + 1
                        /\ \A i \in 1..(m + 1) : f[m + 1][2 * i - 1] = x[i]
                        /\ \A i \in 1..m : f[m + 1][2 * i] = c
             T == {m \in 0..(n - 1) : Good(m)}
  <2>2. 0 \in T
    <3>1. x[1] \in S /\ f[1] = <<x[1]>> /\ 0 \in 0..(n - 1)
      BY <1>0, <1>3, <2>1
    <3>2. /\ <<x[1]>> \in Seq(S) /\ Len(<<x[1]>>) = 1 /\ <<x[1]>>[1] = x[1]
          /\ 0 + 1 = 1 /\ 2 * 0 + 1 = 1 /\ 2 * 1 - 1 = 1 /\ 1..0 = {} /\ \A i \in 1..1 : i = 1
      BY <3>1
    <3>3. Good(0)
      BY <3>1, <3>2
    <3> QED BY <3>1, <3>3
  <2>3. ASSUME NEW m \in 0..((n - 1) - 1), m \in T PROVE m + 1 \in T
    <3> DEFINE g == f[m + 1]
               t == <<c>> \o <<x[m + 2]>>
    <3>1. m \in Nat /\ m + 1 \in 1..(n - 1) /\ m + 2 \in 1..n /\ (m + 1) + 1 = m + 2 /\ m + 1 \in 0..(n - 1)
      BY <1>3
    <3>2. Good(m)
      BY <2>3
    <3>3. f[m + 2] = g \o t
      BY <1>0, <2>1, <3>1
    <3>4. t \in Seq(S) /\ Len(t) = 2 /\ t[1] = c /\ t[2] = x[m + 2]
      <4>1. x[m + 2] \in S
        BY <1>0, <3>1
      <4> QED BY <4>1
    <3> HIDE DEF g, t
    <3>5. /\ g \in Seq(S) /\ Len(g) = 2 * m + 1 /\ (\A i \in 1..(m + 1) : g[2 * i - 1] = x[i])
          /\ \A i \in 1..m : g[2 * i] = c
      BY <3>2 DEF g
    <3>6. /\ g \o t \in Seq(S) /\ Len(g \o t) = 2 * m + 3
          /\ \A i \in 1..(2 * m + 1) : (g \o t)[i] = g[i]
          /\ (g \o t)[2 * m + 2] = c /\ (g \o t)[2 * m + 3] = x[m + 2]
      <4>1. 1 \in 1..2 /\ 2 \in 1..2 /\ (2 * m + 1) + 1 = 2 * m + 2 /\ (2 * m + 1) + 2 = 2 * m + 3
        BY <3>1
      <4>2. /\ g \o t \in Seq(S) /\ Len(g \o t) = Len(g) + Len(t)
            /\ \A i \in 1..Len(g) : (g \o t)[i] = g[i]
            /\ \A i \in 1..Len(t) : (g \o t)[Len(g) + i] = t[i]
        <5>1. g \in Seq(S) /\ t \in Seq(S)
          BY <3>4, <3>5
        <5> QED BY <5>1, ConcatFacts DEF IsConcat
      <4> QED BY <3>1, <3>4, <3>5, <4>1, <4>2
    <3>7. \A i \in 1..(m + 2) : (g \o t)[2 * i - 1] = x[i]
      <4> TAKE i \in 1..(m + 2)
      <4>1. CASE i = m + 2
        <5>1. 2 * (m + 2) - 1 = 2 * m + 3 /\ 3 * (m + 2) - 2 = 3 * m + 4 /\ 3 * (m + 2) - 1 = 3 * m + 5
          BY <3>1
        <5> QED BY <3>6, <4>1, <5>1
      <4>2. CASE i # m + 2
        <5>1. i \in 1..(m + 1) /\ 2 * i - 1 \in 1..(2 * m + 1)
          BY <3>1, <4>2
        <5> QED BY <3>5, <3>6, <5>1
      <4> QED BY <4>1, <4>2
    <3>8. \A i \in 1..(m + 1) : (g \o t)[2 * i] = c
      <4> TAKE i \in 1..(m + 1)
      <4>1. CASE i = m + 1
        <5>1. 2 * i = 2 * m + 2
          BY <3>1, <4>1
        <5> QED BY <3>6, <5>1
      <4>2. CASE i # m + 1
        <5>1. i \in 1..m /\ 2 * i \in 1..(2 * m + 1)
          BY <3>1, <4>2
        <5> QED BY <3>5, <3>6, <5>1
      <4> QED BY <4>1, <4>2
    <3>9. Good(m + 1)
      <4>1. 2 * (m + 1) + 1 = 2 * m + 3
        BY <3>1
      <4> QED BY <3>1, <3>3, <3>6, <3>7, <3>8, <4>1
    <3> QED BY <3>1, <3>9
  <2>4. n - 1 \in T
    <3> HIDE DEF T
    <3>1. n - 1 \in Nat
      BY <1>3
    <3>2. 0..(n - 1) \subseteq T
      BY <2>2, <2>3, <3>1, UpTo
    <3> QED BY <3>1, <3>2
  <2>5. (n - 1) + 1 = n /\ 2 * (n - 1) + 1 = 2 * n - 1
    OBVIOUS
  <2> QED BY <1>3, <2>1, <2>4, <2>5 DEF Width, IsSingleList
<1> QED BY <1>2, <1>3

\* A list of n pairs.
LEMMA PairList ==
    ASSUME NEW S, NEW c \in S, NEW n \in Nat, NEW x, NEW y, NEW ss, Doubles(S, n, x, y, ss)
    PROVE  IsPairList(S, c, n, x, y, FlattenSeq(Between(c, ss)))
<1>0. \A i \in 1..n : x[i] \in S /\ y[i] \in S /\ ss[i] = <<x[i], y[i]>>
  BY DEF Doubles
<1>1. ss \in Seq(Seq(S)) /\ Len(ss) = n
  BY DEF Doubles
<1>2. CASE n = 0
  <2>1. ss = << >>
    BY <1>1, <1>2
  <2>2. Between(c, ss) = << >>
    BY <2>1 DEF Between
  <2>3. FlattenSeq(Between(c, ss)) = << >>
    BY <2>2 DEF FlattenSeq
  <2> DEFINE F == FlattenSeq(Between(c, ss))
  <2> HIDE DEF F
  <2>4. F = << >> /\ 1..n = {} /\ 1..(n - 1) = {} /\ PairWidth(n) = 0
    BY <1>2, <2>3 DEF F, PairWidth
  <2>5. F \in Seq(S) /\ Len(F) = 0
    BY <2>4
  <2> QED BY <2>4, <2>5 DEF F, IsPairList
<1>3. CASE n # 0
  <2>1. PICK f : /\ FlattenSeq(Between(c, ss)) = f[n] /\ f[1] = ss[1]
                 /\ \A i \in 1..(n - 1) : f[i + 1] = f[i] \o (<<c>> \o ss[i + 1])
    <3>1. Len(ss) # 0
      BY <1>1, <1>3
    <3>2. PICK f : FlattenSeq(Between(c, ss)) = f[Len(ss)] /\ Chained(c, ss, f)
      BY <1>1, <3>1, BetweenFacts
    <3> QED BY <1>1, <3>2 DEF Chained
  <2> DEFINE Good(m) == /\ f[m + 1] \in Seq(S) /\ Len(f[m + 1]) = 3 * m + 2
                        /\ \A i \in 1..(m + 1) : f[m + 1][3 * i - 2] = x[i] /\ f[m + 1][3 * i - 1] = y[i]
                        /\ \A i \in 1..m : f[m + 1][3 * i] = c
             T == {m \in 0..(n - 1) : Good(m)}
  <2>2. 0 \in T
    <3>1. x[1] \in S /\ y[1] \in S /\ f[1] = <<x[1], y[1]>> /\ 0 \in 0..(n - 1)
      BY <1>0, <1>3, <2>1
    <3>2. /\ <<x[1], y[1]>> \in Seq(S) /\ Len(<<x[1], y[1]>>) = 2
          /\ <<x[1], y[1]>>[1] = x[1] /\ <<x[1], y[1]>>[2] = y[1]
          /\ 0 + 1 = 1 /\ 3 * 0 + 2 = 2 /\ 3 * 1 - 2 = 1 /\ 3 * 1 - 1 = 2 /\ 1..0 = {}
          /\ \A i \in 1..1 : i = 1
      BY <3>1
    <3>3. Good(0)
      BY <3>1, <3>2
    <3> QED BY <3>1, <3>3
  <2>3. ASSUME NEW m \in 0..((n - 1) - 1), m \in T PROVE m + 1 \in T
    <3> DEFINE g == f[m + 1]
               t == <<c>> \o <<x[m + 2], y[m + 2]>>
    <3>1. m \in Nat /\ m + 1 \in 1..(n - 1) /\ m + 2 \in 1..n /\ (m + 1) + 1 = m + 2 /\ m + 1 \in 0..(n - 1)
      BY <1>3
    <3>2. Good(m)
      BY <2>3
    <3>3. f[m + 2] = g \o t
      BY <1>0, <2>1, <3>1
    <3>4. t \in Seq(S) /\ Len(t) = 3 /\ t[1] = c /\ t[2] = x[m + 2] /\ t[3] = y[m + 2]
      <4>1. x[m + 2] \in S /\ y[m + 2] \in S
        BY <1>0, <3>1
      <4> QED BY <4>1
    <3> HIDE DEF g, t
    <3>5. /\ g \in Seq(S) /\ Len(g) = 3 * m + 2
          /\ \A i \in 1..(m + 1) : g[3 * i - 2] = x[i] /\ g[3 * i - 1] = y[i]
          /\ \A i \in 1..m : g[3 * i] = c
      BY <3>2 DEF g
    <3>6. /\ g \o t \in Seq(S) /\ Len(g \o t) = 3 * m + 5
          /\ \A i \in 1..(3 * m + 2) : (g \o t)[i] = g[i]
          /\ (g \o t)[3 * m + 3] = c /\ (g \o t)[3 * m + 4] = x[m + 2]
          /\ (g \o t)[3 * m + 5] = y[m + 2]
      <4>1. /\ 1 \in 1..3 /\ 2 \in 1..3 /\ 3 \in 1..3 /\ (3 * m + 2) + 1 = 3 * m + 3
            /\ (3 * m + 2) + 2 = 3 * m + 4 /\ (3 * m + 2) + 3 = 3 * m + 5
        BY <3>1
      <4>2. /\ g \o t \in Seq(S) /\ Len(g \o t) = Len(g) + Len(t)
            /\ \A i \in 1..Len(g) : (g \o t)[i] = g[i]
            /\ \A i \in 1..Len(t) : (g \o t)[Len(g) + i] = t[i]
        <5>1. g \in Seq(S) /\ t \in Seq(S)
          BY <3>4, <3>5
        <5> QED BY <5>1, ConcatFacts DEF IsConcat
      <4> QED BY <3>1, <3>4, <3>5, <4>1, <4>2
    <3>7. \A i \in 1..(m + 2) : (g \o t)[3 * i - 2] = x[i] /\ (g \o t)[3 * i - 1] = y[i]
      <4> TAKE i \in 1..(m + 2)
      <4>1. CASE i = m + 2
        <5>1. 2 * (m + 2) - 1 = 2 * m + 3 /\ 3 * (m + 2) - 2 = 3 * m + 4 /\ 3 * (m + 2) - 1 = 3 * m + 5
          BY <3>1
        <5> QED BY <3>6, <4>1, <5>1
      <4>2. CASE i # m + 2
        <5>1. i \in 1..(m + 1) /\ 3 * i - 2 \in 1..(3 * m + 2) /\ 3 * i - 1 \in 1..(3 * m + 2)
          BY <3>1, <4>2
        <5> QED BY <3>5, <3>6, <5>1
      <4> QED BY <4>1, <4>2
    <3>8. \A i \in 1..(m + 1) : (g \o t)[3 * i] = c
      <4> TAKE i \in 1..(m + 1)
      <4>1. CASE i = m + 1
        <5>1. 3 * i = 3 * m + 3
          BY <3>1, <4>1
        <5> QED BY <3>6, <5>1
      <4>2. CASE i # m + 1
        <5>1. i \in 1..m /\ 3 * i \in 1..(3 * m + 2)
          BY <3>1, <4>2
        <5> QED BY <3>5, <3>6, <5>1
      <4> QED BY <4>1, <4>2
    <3>9. Good(m + 1)
      <4>1. 3 * (m + 1) + 2 = 3 * m + 5
        BY <3>1
      <4> QED BY <3>1, <3>3, <3>6, <3>7, <3>8, <4>1
    <3> QED BY <3>1, <3>9
  <2>4. n - 1 \in T
    <3> HIDE DEF T
    <3>1. n - 1 \in Nat
      BY <1>3
    <3>2. 0..(n - 1) \subseteq T
      BY <2>2, <2>3, <3>1, UpTo
    <3> QED BY <3>1, <3>2
  <2>5. (n - 1) + 1 = n /\ 3 * (n - 1) + 2 = 3 * n - 1
    OBVIOUS
  <2> QED BY <1>3, <2>1, <2>4, <2>5 DEF PairWidth, IsPairList
<1> QED BY <1>2, <1>3

-----------------------------------------------------------------------------
(* The sentences of the grammar, place by place. *)

Places == SUBSET Tokens

LEMMA PlaceTypes ==
    /\ \A w : Key(w) \in Places
    /\ Name \in Places /\ Type \in Places /\ Literal \in Places
    /\ {Comma} \in Places /\ {LParen} \in Places /\ {RParen} \in Places /\ {Semicolon} \in Places
    /\ {Star} \in Places /\ {Equals} \in Places /\ {Eof} \in Places
<1>1. Idents \in Places /\ Numbers \in Places
  BY DEF Places, Tokens
<1>2. /\ {Comma} \in Places /\ {LParen} \in Places /\ {RParen} \in Places /\ {Semicolon} \in Places
      /\ {Star} \in Places /\ {Equals} \in Places /\ {Eof} \in Places /\ {Text} \in Places
  BY DEF Places, Tokens
<1>3. \A w : Key(w) \in Places
  BY <1>1 DEF Key, Places
<1>4. Token("number", "7") \in Tokens /\ Token("number", "7.5") \in Tokens
  BY DEF Tokens, Numbers
<1>5. Literal \in Places
  BY <1>2, <1>3, <1>4 DEF Literal, Places
<1>6. Name \in Places /\ Type \in Places
  BY <1>1 DEF Name, Type, Places
<1> QED BY <1>2, <1>3, <1>5, <1>6

\* A list of n items, each of the one place P.
LEMMA ListPlaces ==
    ASSUME NEW P \in Places, NEW n \in Nat
    PROVE  IsSingleList(Places, {Comma}, n, [i \in 1..n |-> P], List(n, <<P>>))
<1> DEFINE x == [i \in 1..n |-> P]
           ss == [i \in 1..n |-> <<P>>]
<1>1. Singles(Places, n, x, ss)
  <2>1. <<P>> \in Seq(Places)
    OBVIOUS
  <2> QED BY <2>1 DEF Singles
<1>2. Between({Comma}, ss) = [i \in 1..n |-> IF i = 1 THEN <<P>> ELSE <<{Comma}>> \o <<P>>]
  BY DEF Between
<1>3. List(n, <<P>>) = FlattenSeq(Between({Comma}, ss))
  BY <1>2 DEF List
<1> HIDE DEF ss
<1>4. {Comma} \in Places
  BY PlaceTypes
<1> QED BY <1>1, <1>3, <1>4, SingleList

\* A list of n columns.
LEMMA ColumnPlaces ==
    ASSUME NEW n \in Nat
    PROVE  IsPairList(Places, {Comma}, n, [i \in 1..n |-> Name], [i \in 1..n |-> Type],
                      List(n, <<Name, Type>>))
<1> DEFINE x == [i \in 1..n |-> Name]
           y == [i \in 1..n |-> Type]
           ss == [i \in 1..n |-> <<Name, Type>>]
<1>0. Name \in Places /\ Type \in Places /\ {Comma} \in Places
  BY PlaceTypes
<1>1. Doubles(Places, n, x, y, ss)
  <2>1. <<Name, Type>> \in Seq(Places)
    BY <1>0
  <2> QED BY <1>0, <2>1 DEF Doubles
<1>2. Between({Comma}, ss) = [i \in 1..n |-> IF i = 1 THEN <<Name, Type>> ELSE <<{Comma}>> \o <<Name, Type>>]
  BY DEF Between
<1>3. List(n, <<Name, Type>>) = FlattenSeq(Between({Comma}, ss))
  BY <1>2 DEF List
<1> HIDE DEF ss
<1> QED BY <1>0, <1>1, <1>3, PairList

\* The items of s behind place o: n of one place, or n columns.
Items(s, o, n, P) ==
    (\A i \in 1..n : s[o + 2 * i - 1] = P) /\ \A i \in 1..(n - 1) : s[o + 2 * i] = {Comma}
Columns(s, o, n) ==
    /\ \A i \in 1..n : s[o + 3 * i - 2] = Name /\ s[o + 3 * i - 1] = Type
    /\ \A i \in 1..(n - 1) : s[o + 3 * i] = {Comma}

InParens(form) == <<{LParen}>> \o form \o <<{RParen}>>

\* s is a followed by form in parentheses.
Enclosed(a, form, s) ==
    /\ s \in Seq(Places) /\ Len(s) = Len(a) + Len(form) + 2
    /\ \A i \in 1..Len(a) : s[i] = a[i]
    /\ s[Len(a) + 1] = {LParen} /\ s[Len(a) + Len(form) + 2] = {RParen}
    /\ \A i \in 1..Len(form) : s[Len(a) + 1 + i] = form[i]

LEMMA Parentheses ==
    ASSUME NEW a \in Seq(Places), NEW form \in Seq(Places)
    PROVE  Enclosed(a, form, a \o InParens(form))
<1> DEFINE l == <<{LParen}>>
           r == <<{RParen}>>
           b == l \o form
           c == b \o r
<1>1. l \in Seq(Places) /\ Len(l) = 1 /\ l[1] = {LParen} /\ r \in Seq(Places) /\ Len(r) = 1 /\ r[1] = {RParen}
  BY PlaceTypes
<1>2. InParens(form) = c
  BY DEF InParens
<1> HIDE DEF l, r
<1>3. /\ b \in Seq(Places) /\ Len(b) = 1 + Len(form) /\ b[1] = {LParen}
      /\ \A i \in 1..Len(form) : b[1 + i] = form[i]
  <2>1. /\ b \in Seq(Places) /\ Len(b) = Len(l) + Len(form) /\ (\A n \in 1..Len(l) : b[n] = l[n])
        /\ \A n \in 1..Len(form) : b[Len(l) + n] = form[n]
    BY <1>1, ConcatFacts DEF IsConcat
  <2> HIDE DEF b
  <2> QED BY <1>1, <2>1
<1> HIDE DEF b
<1>4. /\ c \in Seq(Places) /\ Len(c) = Len(form) + 2 /\ c[1] = {LParen} /\ c[Len(form) + 2] = {RParen}
      /\ \A i \in 1..Len(form) : c[1 + i] = form[i]
  <2>1. /\ c \in Seq(Places) /\ Len(c) = Len(b) + Len(r) /\ (\A n \in 1..Len(b) : c[n] = b[n])
        /\ \A n \in 1..Len(r) : c[Len(b) + n] = r[n]
    <3>1. b \in Seq(Places) /\ r \in Seq(Places)
      BY <1>1, <1>3
    <3>2. IsConcat(Places, b, r, c)
      BY <3>1, ConcatFacts
    <3> QED BY <3>2 DEF IsConcat
  <2> HIDE DEF c
  <2>2. /\ Len(form) \in Nat /\ 1 \in 1..Len(b) /\ 1 \in 1..Len(r) /\ (1 + Len(form)) + 1 = Len(form) + 2
        /\ \A i \in 1..Len(form) : 1 + i \in 1..Len(b)
    BY <1>1, <1>3
  <2> QED BY <1>1, <1>3, <2>1, <2>2
<1> HIDE DEF c
<1>5. /\ a \o c \in Seq(Places) /\ Len(a \o c) = Len(a) + Len(c) /\ (\A n \in 1..Len(a) : (a \o c)[n] = a[n])
      /\ \A n \in 1..Len(c) : (a \o c)[Len(a) + n] = c[n]
  <2>1. c \in Seq(Places)
    BY <1>4
  <2>2. IsConcat(Places, a, c, a \o c)
    BY <2>1, ConcatFacts
  <2> QED BY <2>2 DEF IsConcat
<1>6. /\ Len(form) \in Nat /\ Len(a) \in Nat /\ 1 \in 1..Len(c) /\ Len(form) + 2 \in 1..Len(c)
      /\ Len(a) + (Len(form) + 2) = Len(a) + Len(form) + 2
      /\ \A i \in 1..Len(form) : 1 + i \in 1..Len(c) /\ Len(a) + (1 + i) = Len(a) + 1 + i
  BY <1>4
<1>7. \A i \in 1..Len(form) : (a \o c)[Len(a) + 1 + i] = form[i]
  BY <1>4, <1>5, <1>6
<1> QED BY <1>2, <1>4, <1>5, <1>6, <1>7 DEF Enclosed

\* The places of each kind of sentence.
InsertPlaces(s, n) ==
    /\ Len(s) = Width(n) + 6
    /\ s[1] = Key("insert") /\ s[2] = Key("into") /\ s[3] = Name /\ s[4] = Key("values")
    /\ s[5] = {LParen} /\ Items(s, 5, n, Literal) /\ s[Width(n) + 6] = {RParen}
CallPlaces(s, n) ==
    /\ Len(s) = Width(n) + 4
    /\ s[1] = Key("select") /\ s[2] = Name
    /\ s[3] = {LParen} /\ Items(s, 3, n, Literal) /\ s[Width(n) + 4] = {RParen}
IndexPlaces(s) ==
    /\ Len(s) = 8
    /\ s[1] = Key("create") /\ s[2] = Key("index") /\ s[3] = Name /\ s[4] = Key("on")
    /\ s[5] = Name /\ s[6] = {LParen} /\ s[7] = Name /\ s[8] = {RParen}
LoadPlaces(s) == Len(s) = 3 /\ s[1] = Key("load") /\ s[2] = Key("extension") /\ s[3] = Name
TablePlaces(s, n) ==
    /\ Len(s) = PairWidth(n) + 5
    /\ s[1] = Key("create") /\ s[2] = Key("table") /\ s[3] = Name
    /\ s[4] = {LParen} /\ Columns(s, 4, n) /\ s[PairWidth(n) + 5] = {RParen}
\* The projection ends at place e.
ProjectionPlaces(s, n, e) ==
    \/ e = 2 /\ s[2] = {Star}
    \/ n # 0 /\ e = Width(n) + 1 /\ Items(s, 1, n, Name)
SelectPlaces(s, n, e) ==
    /\ s[1] = Key("select") /\ ProjectionPlaces(s, n, e)
    /\ s[e + 1] = Key("from") /\ s[e + 2] = Name
    /\ \/ Len(s) = e + 2
       \/ /\ Len(s) = e + 6
          /\ s[e + 3] = Key("where") /\ s[e + 4] = Name /\ s[e + 5] = {Equals} /\ s[e + 6] = Literal

InsertForm(n) == <<Key("insert"), Key("into"), Name, Key("values")>> \o InParens(List(n, <<Literal>>))
CallForm(n) == <<Key("select"), Name>> \o InParens(List(n, <<Literal>>))
IndexForm == <<Key("create"), Key("index"), Name, Key("on"), Name>> \o InParens(<<Name>>)
LoadForm == <<Key("load"), Key("extension"), Name>>
TableForm(n) == <<Key("create"), Key("table"), Name>> \o InParens(List(n, <<Name, Type>>))
WhereForm == <<Key("where"), Name, {Equals}, Literal>>
SelectForm(p, w) == <<Key("select")>> \o p \o <<Key("from"), Name>> \o w

LEMMA ItemFacts ==
    ASSUME NEW P \in Places, NEW n \in Nat
    PROVE  /\ List(n, <<P>>) \in Seq(Places) /\ Len(List(n, <<P>>)) = Width(n) /\ Width(n) \in Nat
           /\ \A i \in 1..n : List(n, <<P>>)[2 * i - 1] = P /\ 2 * i - 1 \in 1..Width(n)
           /\ \A i \in 1..(n - 1) : List(n, <<P>>)[2 * i] = {Comma} /\ 2 * i \in 1..Width(n)
<1> DEFINE x == [i \in 1..n |-> P]
<1>1. \A i \in 1..n : x[i] = P
  OBVIOUS
<1> HIDE DEF x
<1>2. IsSingleList(Places, {Comma}, n, x, List(n, <<P>>))
  BY ListPlaces DEF x
<1>3. /\ Width(n) \in Nat /\ (\A i \in 1..n : 2 * i - 1 \in 1..Width(n))
      /\ \A i \in 1..(n - 1) : 2 * i \in 1..Width(n)
  BY DEF Width
<1> QED BY <1>1, <1>2, <1>3 DEF IsSingleList

LEMMA ColumnFacts ==
    ASSUME NEW n \in Nat
    PROVE  /\ List(n, <<Name, Type>>) \in Seq(Places) /\ Len(List(n, <<Name, Type>>)) = PairWidth(n)
           /\ PairWidth(n) \in Nat
           /\ \A i \in 1..n : /\ List(n, <<Name, Type>>)[3 * i - 2] = Name /\ 3 * i - 2 \in 1..PairWidth(n)
                              /\ List(n, <<Name, Type>>)[3 * i - 1] = Type /\ 3 * i - 1 \in 1..PairWidth(n)
           /\ \A i \in 1..(n - 1) : List(n, <<Name, Type>>)[3 * i] = {Comma} /\ 3 * i \in 1..PairWidth(n)
<1> DEFINE x == [i \in 1..n |-> Name]
           y == [i \in 1..n |-> Type]
<1>1. \A i \in 1..n : x[i] = Name /\ y[i] = Type
  OBVIOUS
<1> HIDE DEF x, y
<1>2. IsPairList(Places, {Comma}, n, x, y, List(n, <<Name, Type>>))
  BY ColumnPlaces DEF x, y
<1>3. /\ PairWidth(n) \in Nat /\ (\A i \in 1..n : 3 * i - 2 \in 1..PairWidth(n) /\ 3 * i - 1 \in 1..PairWidth(n))
      /\ \A i \in 1..(n - 1) : 3 * i \in 1..PairWidth(n)
  BY DEF PairWidth
<1> QED BY <1>1, <1>2, <1>3 DEF IsPairList

\* A list in parentheses behind a sequence.
ItemsAt(a, n, P, s) ==
    /\ s \in Seq(Places) /\ Len(s) = Width(n) + (Len(a) + 2) /\ (\A i \in 1..Len(a) : s[i] = a[i])
    /\ s[Len(a) + 1] = {LParen} /\ Items(s, Len(a) + 1, n, P) /\ s[Width(n) + (Len(a) + 2)] = {RParen}
ColumnsAt(a, n, s) ==
    /\ s \in Seq(Places) /\ Len(s) = PairWidth(n) + (Len(a) + 2) /\ (\A i \in 1..Len(a) : s[i] = a[i])
    /\ s[Len(a) + 1] = {LParen} /\ Columns(s, Len(a) + 1, n) /\ s[PairWidth(n) + (Len(a) + 2)] = {RParen}

LEMMA ItemsBehind ==
    ASSUME NEW a \in Seq(Places), NEW P \in Places, NEW n \in Nat, NEW s,
           s = a \o InParens(List(n, <<P>>))
    PROVE  ItemsAt(a, n, P, s)
<1> DEFINE l == List(n, <<P>>)
<1>1. /\ l \in Seq(Places) /\ Len(l) = Width(n) /\ Width(n) \in Nat
      /\ \A i \in 1..n : l[2 * i - 1] = P /\ 2 * i - 1 \in 1..Width(n)
      /\ \A i \in 1..(n - 1) : l[2 * i] = {Comma} /\ 2 * i \in 1..Width(n)
  BY ItemFacts
<1> HIDE DEF l
<1>2. l \in Seq(Places)
  BY <1>1
<1>3. /\ s \in Seq(Places) /\ Len(s) = Len(a) + Len(l) + 2 /\ (\A i \in 1..Len(a) : s[i] = a[i])
      /\ s[Len(a) + 1] = {LParen} /\ (\A i \in 1..Len(l) : s[Len(a) + 1 + i] = l[i])
      /\ s[Len(a) + Len(l) + 2] = {RParen}
  <2>1. Enclosed(a, l, a \o InParens(l))
    BY <1>2, Parentheses
  <2> QED BY <2>1 DEF Enclosed, l
<1>4. Len(a) \in Nat /\ Len(a) + Len(l) + 2 = Width(n) + (Len(a) + 2)
  BY <1>1
<1>5. \A i \in 1..n : s[(Len(a) + 1) + 2 * i - 1] = P
  <2> TAKE i \in 1..n
  <2>1. (Len(a) + 1) + 2 * i - 1 = Len(a) + 1 + (2 * i - 1)
    BY <1>4
  <2> QED BY <1>1, <1>3, <2>1
<1>6. \A i \in 1..(n - 1) : s[(Len(a) + 1) + 2 * i] = {Comma}
  BY <1>1, <1>3
<1> QED BY <1>3, <1>4, <1>5, <1>6 DEF Items, ItemsAt

LEMMA ColumnsBehind ==
    ASSUME NEW a \in Seq(Places), NEW n \in Nat, NEW s, s = a \o InParens(List(n, <<Name, Type>>))
    PROVE  ColumnsAt(a, n, s)
<1> DEFINE l == List(n, <<Name, Type>>)
<1>1. /\ l \in Seq(Places) /\ Len(l) = PairWidth(n) /\ PairWidth(n) \in Nat
      /\ \A i \in 1..n : /\ l[3 * i - 2] = Name /\ 3 * i - 2 \in 1..PairWidth(n)
                         /\ l[3 * i - 1] = Type /\ 3 * i - 1 \in 1..PairWidth(n)
      /\ \A i \in 1..(n - 1) : l[3 * i] = {Comma} /\ 3 * i \in 1..PairWidth(n)
  BY ColumnFacts
<1> HIDE DEF l
<1>2. l \in Seq(Places)
  BY <1>1
<1>3. /\ s \in Seq(Places) /\ Len(s) = Len(a) + Len(l) + 2 /\ (\A i \in 1..Len(a) : s[i] = a[i])
      /\ s[Len(a) + 1] = {LParen} /\ (\A i \in 1..Len(l) : s[Len(a) + 1 + i] = l[i])
      /\ s[Len(a) + Len(l) + 2] = {RParen}
  <2>1. Enclosed(a, l, a \o InParens(l))
    BY <1>2, Parentheses
  <2> QED BY <2>1 DEF Enclosed, l
<1>4. Len(a) \in Nat /\ Len(a) + Len(l) + 2 = PairWidth(n) + (Len(a) + 2)
  BY <1>1
<1>5. \A i \in 1..n : s[(Len(a) + 1) + 3 * i - 2] = Name /\ s[(Len(a) + 1) + 3 * i - 1] = Type
  <2> TAKE i \in 1..n
  <2>1. /\ (Len(a) + 1) + 3 * i - 2 = Len(a) + 1 + (3 * i - 2)
        /\ (Len(a) + 1) + 3 * i - 1 = Len(a) + 1 + (3 * i - 1)
    BY <1>4
  <2> QED BY <1>1, <1>3, <2>1
<1>6. \A i \in 1..(n - 1) : s[(Len(a) + 1) + 3 * i] = {Comma}
  BY <1>1, <1>3
<1> QED BY <1>3, <1>4, <1>5, <1>6 DEF Columns, ColumnsAt

LEMMA InsertIs ==
    ASSUME NEW n \in Nat PROVE InsertForm(n) \in Seq(Places) /\ InsertPlaces(InsertForm(n), n)
<1> DEFINE a == <<Key("insert"), Key("into"), Name, Key("values")>>
           s == InsertForm(n)
<1>1. /\ a \in Seq(Places) /\ Len(a) = 4 /\ a[1] = Key("insert") /\ a[2] = Key("into") /\ a[3] = Name
      /\ a[4] = Key("values") /\ Literal \in Places
  BY PlaceTypes
<1>2. s = a \o InParens(List(n, <<Literal>>))
  BY DEF InsertForm
<1> HIDE DEF a, s
<1>3. /\ s \in Seq(Places) /\ Len(s) = Width(n) + (Len(a) + 2) /\ (\A i \in 1..Len(a) : s[i] = a[i])
      /\ s[Len(a) + 1] = {LParen} /\ Items(s, Len(a) + 1, n, Literal) /\ s[Width(n) + (Len(a) + 2)] = {RParen}
  <2>1. a \in Seq(Places) /\ Literal \in Places
    BY <1>1
  <2>2. ItemsAt(a, n, Literal, s)
    BY <1>2, <2>1, ItemsBehind
  <2> QED BY <2>2 DEF ItemsAt
<1>4. 4 + 1 = 5 /\ 4 + 2 = 6 /\ 1 \in 1..4 /\ 2 \in 1..4 /\ 3 \in 1..4 /\ 4 \in 1..4
  OBVIOUS
<1>5. s \in Seq(Places) /\ InsertPlaces(s, n)
  BY <1>1, <1>3, <1>4 DEF InsertPlaces
<1> QED BY <1>5 DEF s

LEMMA CallIs ==
    ASSUME NEW n \in Nat PROVE CallForm(n) \in Seq(Places) /\ CallPlaces(CallForm(n), n)
<1> DEFINE a == <<Key("select"), Name>>
           s == CallForm(n)
<1>1. a \in Seq(Places) /\ Len(a) = 2 /\ a[1] = Key("select") /\ a[2] = Name /\ Literal \in Places
  BY PlaceTypes
<1>2. s = a \o InParens(List(n, <<Literal>>))
  BY DEF CallForm
<1> HIDE DEF a, s
<1>3. /\ s \in Seq(Places) /\ Len(s) = Width(n) + (Len(a) + 2) /\ (\A i \in 1..Len(a) : s[i] = a[i])
      /\ s[Len(a) + 1] = {LParen} /\ Items(s, Len(a) + 1, n, Literal) /\ s[Width(n) + (Len(a) + 2)] = {RParen}
  <2>1. a \in Seq(Places) /\ Literal \in Places
    BY <1>1
  <2>2. ItemsAt(a, n, Literal, s)
    BY <1>2, <2>1, ItemsBehind
  <2> QED BY <2>2 DEF ItemsAt
<1>4. 2 + 1 = 3 /\ 2 + 2 = 4 /\ 1 \in 1..2 /\ 2 \in 1..2
  OBVIOUS
<1>5. s \in Seq(Places) /\ CallPlaces(s, n)
  BY <1>1, <1>3, <1>4 DEF CallPlaces
<1> QED BY <1>5 DEF s

LEMMA TableIs ==
    ASSUME NEW n \in Nat PROVE TableForm(n) \in Seq(Places) /\ TablePlaces(TableForm(n), n)
<1> DEFINE a == <<Key("create"), Key("table"), Name>>
           s == TableForm(n)
<1>1. a \in Seq(Places) /\ Len(a) = 3 /\ a[1] = Key("create") /\ a[2] = Key("table") /\ a[3] = Name
  BY PlaceTypes
<1>2. s = a \o InParens(List(n, <<Name, Type>>))
  BY DEF TableForm
<1> HIDE DEF a, s
<1>3. /\ s \in Seq(Places) /\ Len(s) = PairWidth(n) + (Len(a) + 2) /\ (\A i \in 1..Len(a) : s[i] = a[i])
      /\ s[Len(a) + 1] = {LParen} /\ Columns(s, Len(a) + 1, n) /\ s[PairWidth(n) + (Len(a) + 2)] = {RParen}
  <2>1. a \in Seq(Places)
    BY <1>1
  <2>2. ColumnsAt(a, n, s)
    BY <1>2, <2>1, ColumnsBehind
  <2> QED BY <2>2 DEF ColumnsAt
<1>4. 3 + 1 = 4 /\ 3 + 2 = 5 /\ 1 \in 1..3 /\ 2 \in 1..3 /\ 3 \in 1..3
  OBVIOUS
<1>5. s \in Seq(Places) /\ TablePlaces(s, n)
  BY <1>1, <1>3, <1>4 DEF TablePlaces
<1> QED BY <1>5 DEF s

LEMMA IndexIs == IndexForm \in Seq(Places) /\ IndexPlaces(IndexForm)
<1> DEFINE a == <<Key("create"), Key("index"), Name, Key("on"), Name>>
           s == IndexForm
           l == <<Name>>
<1>1. /\ a \in Seq(Places) /\ Len(a) = 5 /\ a[1] = Key("create") /\ a[2] = Key("index") /\ a[3] = Name
      /\ a[4] = Key("on") /\ a[5] = Name /\ l \in Seq(Places) /\ Len(l) = 1 /\ l[1] = Name
  BY PlaceTypes
<1>2. s = a \o InParens(l)
  BY DEF IndexForm
<1> HIDE DEF a, s, l
<1>3. /\ s \in Seq(Places) /\ Len(s) = Len(a) + Len(l) + 2 /\ (\A i \in 1..Len(a) : s[i] = a[i])
      /\ s[Len(a) + 1] = {LParen} /\ (\A i \in 1..Len(l) : s[Len(a) + 1 + i] = l[i])
      /\ s[Len(a) + Len(l) + 2] = {RParen}
  <2>1. a \in Seq(Places) /\ l \in Seq(Places)
    BY <1>1
  <2>2. Enclosed(a, l, a \o InParens(l))
    BY <2>1, Parentheses
  <2> QED BY <1>2, <2>2 DEF Enclosed
<1>4. /\ 5 + 1 + 2 = 8 /\ 5 + 1 = 6 /\ 5 + 1 + 1 = 7 /\ 1 \in 1..1
      /\ 1 \in 1..5 /\ 2 \in 1..5 /\ 3 \in 1..5 /\ 4 \in 1..5 /\ 5 \in 1..5
  OBVIOUS
<1>5. s \in Seq(Places) /\ IndexPlaces(s)
  BY <1>1, <1>3, <1>4 DEF IndexPlaces
<1> QED BY <1>5 DEF s

LEMMA LoadIs == LoadForm \in Seq(Places) /\ LoadPlaces(LoadForm)
  BY PlaceTypes DEF LoadForm, LoadPlaces

\* p is a projection of the grammar.
IsProjection(p, n) == p = <<{Star}>> \/ (n # 0 /\ p = List(n, <<Name>>))

LEMMA ProjectionFacts ==
    ASSUME NEW n \in Nat, NEW p, IsProjection(p, n)
    PROVE  /\ p \in Seq(Places) /\ Len(p) \in Nat
           /\ \/ p = <<{Star}>> /\ Len(p) = 1 /\ p[1] = {Star}
              \/ /\ n # 0 /\ Len(p) = Width(n)
                 /\ \A i \in 1..n : p[2 * i - 1] = Name /\ 2 * i - 1 \in 1..Width(n)
                 /\ \A i \in 1..(n - 1) : p[2 * i] = {Comma} /\ 2 * i \in 1..Width(n)
<1>1. CASE p = <<{Star}>>
  BY <1>1, PlaceTypes
<1>2. CASE n # 0 /\ p = List(n, <<Name>>)
  <2>1. Name \in Places
    BY PlaceTypes
  <2> DEFINE l == List(n, <<Name>>)
  <2>2. /\ l \in Seq(Places) /\ Len(l) = Width(n) /\ Width(n) \in Nat
        /\ \A i \in 1..n : l[2 * i - 1] = Name /\ 2 * i - 1 \in 1..Width(n)
        /\ \A i \in 1..(n - 1) : l[2 * i] = {Comma} /\ 2 * i \in 1..Width(n)
    BY <2>1, ItemFacts
  <2>3. p = l
    BY <1>2
  <2> HIDE DEF l
  <2> QED BY <1>2, <2>2, <2>3
<1> QED BY <1>1, <1>2 DEF IsProjection

LEMMA SelectIs ==
    ASSUME NEW n \in Nat, NEW p, IsProjection(p, n), NEW w, w = << >> \/ w = WhereForm
    PROVE  /\ SelectForm(p, w) \in Seq(Places) /\ Len(SelectForm(p, w)) = Len(p) + Len(w) + 3
           /\ SelectPlaces(SelectForm(p, w), n, Len(p) + 1)
           /\ \A i \in 1..Len(p) : SelectForm(p, w)[1 + i] = p[i]
<1> DEFINE h == <<Key("select")>>
           t == <<Key("from"), Name>>
           a == h \o p
           b == a \o t
           s == b \o w
           N == Len(p)
<1>1. /\ h \in Seq(Places) /\ Len(h) = 1 /\ h[1] = Key("select")
      /\ t \in Seq(Places) /\ Len(t) = 2 /\ t[1] = Key("from") /\ t[2] = Name
  BY PlaceTypes
<1>2. SelectForm(p, w) = s
  BY DEF SelectForm
<1>3. /\ p \in Seq(Places) /\ N \in Nat
      /\ \/ p = <<{Star}>> /\ N = 1 /\ p[1] = {Star}
         \/ /\ n # 0 /\ N = Width(n)
            /\ \A i \in 1..n : p[2 * i - 1] = Name /\ 2 * i - 1 \in 1..Width(n)
            /\ \A i \in 1..(n - 1) : p[2 * i] = {Comma} /\ 2 * i \in 1..Width(n)
  BY ProjectionFacts
<1>4. /\ w \in Seq(Places)
      /\ \/ Len(w) = 0
         \/ Len(w) = 4 /\ w[1] = Key("where") /\ w[2] = Name /\ w[3] = {Equals} /\ w[4] = Literal
  <2>1. CASE w = << >>
    BY <2>1
  <2>2. CASE w = WhereForm
    BY <2>2, PlaceTypes DEF WhereForm
  <2> QED BY <2>1, <2>2
<1> HIDE DEF h, t
<1>5. a \in Seq(Places) /\ Len(a) = N + 1 /\ a[1] = Key("select") /\ \A i \in 1..N : a[1 + i] = p[i]
  <2>1. h \in Seq(Places) /\ p \in Seq(Places)
    BY <1>1, <1>3
  <2>2. IsConcat(Places, h, p, a)
    BY <2>1, ConcatFacts
  <2> HIDE DEF a
  <2>3. /\ a \in Seq(Places) /\ Len(a) = 1 + N /\ (\A i \in 1..1 : a[i] = h[i])
        /\ \A i \in 1..N : a[1 + i] = p[i]
    BY <1>1, <2>2 DEF IsConcat
  <2> QED BY <1>1, <1>3, <2>3
<1> HIDE DEF a
<1>6. /\ b \in Seq(Places) /\ Len(b) = N + 3 /\ b[1] = Key("select") /\ (\A i \in 1..N : b[1 + i] = p[i])
      /\ b[(N + 1) + 1] = Key("from") /\ b[(N + 1) + 2] = Name
  <2>1. a \in Seq(Places) /\ t \in Seq(Places)
    BY <1>1, <1>5
  <2>2. IsConcat(Places, a, t, b)
    BY <2>1, ConcatFacts
  <2> HIDE DEF b
  <2>3. /\ b \in Seq(Places) /\ Len(b) = (N + 1) + 2 /\ (\A i \in 1..(N + 1) : b[i] = a[i])
        /\ \A i \in 1..2 : b[(N + 1) + i] = t[i]
    BY <1>1, <1>5, <2>2 DEF IsConcat
  <2>4. N \in Nat /\ \A i \in 1..N : 1 + i \in 1..(N + 1)
    BY <1>3
  <2> QED BY <1>1, <1>5, <2>3, <2>4
<1> HIDE DEF b
<1>7. /\ s \in Seq(Places) /\ Len(s) = N + Len(w) + 3 /\ s[1] = Key("select")
      /\ (\A i \in 1..N : s[1 + i] = p[i])
      /\ s[(N + 1) + 1] = Key("from") /\ s[(N + 1) + 2] = Name
      /\ \A i \in 1..Len(w) : s[(N + 1) + 2 + i] = w[i]
  <2>1. b \in Seq(Places) /\ w \in Seq(Places)
    BY <1>4, <1>6
  <2>2. IsConcat(Places, b, w, s)
    BY <2>1, ConcatFacts
  <2> HIDE DEF s
  <2>3. /\ s \in Seq(Places) /\ Len(s) = (N + 3) + Len(w) /\ (\A i \in 1..(N + 3) : s[i] = b[i])
        /\ \A i \in 1..Len(w) : s[(N + 3) + i] = w[i]
    BY <1>6, <2>2 DEF IsConcat
  <2>4. /\ N \in Nat /\ Len(w) \in Nat /\ (\A i \in 1..N : 1 + i \in 1..(N + 3))
        /\ (N + 1) + 1 \in 1..(N + 3) /\ (N + 1) + 2 \in 1..(N + 3)
        /\ 1 \in 1..(N + 3) /\ (N + 3) + Len(w) = N + Len(w) + 3
        /\ \A i \in 1..Len(w) : (N + 3) + i = (N + 1) + 2 + i
    BY <1>3, <1>4
  <2> QED BY <1>6, <2>3, <2>4
<1> HIDE DEF s
<1>8. ProjectionPlaces(s, n, N + 1)
  <2>1. CASE p = <<{Star}>> /\ N = 1 /\ p[1] = {Star}
    <3>1. N + 1 = 2 /\ 1 \in 1..N /\ 1 + 1 = 2
      BY <2>1
    <3> QED BY <1>7, <2>1, <3>1 DEF ProjectionPlaces
  <2>2. CASE /\ n # 0 /\ N = Width(n)
             /\ \A i \in 1..n : p[2 * i - 1] = Name /\ 2 * i - 1 \in 1..Width(n)
             /\ \A i \in 1..(n - 1) : p[2 * i] = {Comma} /\ 2 * i \in 1..Width(n)
    <3>1. Items(s, 1, n, Name)
      <4>1. \A i \in 1..n : s[1 + 2 * i - 1] = Name
        <5> TAKE i \in 1..n
        <5>1. 1 + 2 * i - 1 = 1 + (2 * i - 1)
          OBVIOUS
        <5> QED BY <1>7, <2>2, <5>1
      <4>2. \A i \in 1..(n - 1) : s[1 + 2 * i] = {Comma}
        BY <1>7, <2>2
      <4> QED BY <4>1, <4>2 DEF Items
    <3> QED BY <2>2, <3>1 DEF ProjectionPlaces
  <2> QED BY <1>3, <2>1, <2>2
<1>9. \/ Len(s) = (N + 1) + 2
      \/ /\ Len(s) = (N + 1) + 6
         /\ s[(N + 1) + 3] = Key("where") /\ s[(N + 1) + 4] = Name
         /\ s[(N + 1) + 5] = {Equals} /\ s[(N + 1) + 6] = Literal
  <2>1. CASE Len(w) = 0
    BY <1>3, <1>7, <2>1
  <2>2. CASE Len(w) = 4 /\ w[1] = Key("where") /\ w[2] = Name /\ w[3] = {Equals} /\ w[4] = Literal
    <3>1. /\ 1 \in 1..4 /\ 2 \in 1..4 /\ 3 \in 1..4 /\ 4 \in 1..4 /\ N + 4 + 3 = (N + 1) + 6
          /\ (N + 1) + 2 + 1 = (N + 1) + 3 /\ (N + 1) + 2 + 2 = (N + 1) + 4
          /\ (N + 1) + 2 + 3 = (N + 1) + 5 /\ (N + 1) + 2 + 4 = (N + 1) + 6
      BY <1>3
    <3> QED BY <1>7, <2>2, <3>1
  <2> QED BY <1>4, <2>1, <2>2
<1>10. SelectPlaces(s, n, N + 1)
  BY <1>7, <1>8, <1>9 DEF SelectPlaces
<1> QED BY <1>2, <1>7, <1>10

\* The sentences of the grammar are these.
LEMMA SentenceKinds ==
    ASSUME NEW n, NEW s
    PROVE  s \in Sentences(n) <=>
             \/ s = InsertForm(n) \/ s = CallForm(n) \/ s = IndexForm \/ s = LoadForm
             \/ n # 0 /\ s = TableForm(n)
             \/ \E p, w : (p = <<{Star}>> \/ (n > 0 /\ p = List(n, <<Name>>)))
                          /\ (w = << >> \/ w = WhereForm) /\ s = SelectForm(p, w)
<1> DEFINE Paren(form) == <<{LParen}>> \o form \o <<{RParen}>>
           Where == {<< >>, <<Key("where"), Name, {Equals}, Literal>>}
           Projections == {<<{Star}>>} \cup (IF n > 0 THEN {List(n, <<Name>>)} ELSE {})
           first == {<<Key("insert"), Key("into"), Name, Key("values")>> \o Paren(List(n, <<Literal>>)),
                     <<Key("select"), Name>> \o Paren(List(n, <<Literal>>)),
                     <<Key("create"), Key("index"), Name, Key("on"), Name>> \o Paren(<<Name>>),
                     <<Key("load"), Key("extension"), Name>>}
           second == {<<Key("create"), Key("table"), Name>> \o Paren(List(m, <<Name, Type>>)) : m \in {n} \ {0}}
           third == {<<Key("select")>> \o p \o <<Key("from"), Name>> \o w : p \in Projections, w \in Where}
<1>1. Sentences(n) = first \cup second \cup third
  BY DEF Sentences
<1>2. first = {InsertForm(n), CallForm(n), IndexForm, LoadForm}
  BY DEF InsertForm, CallForm, IndexForm, LoadForm, InParens
<1>3. second = {TableForm(m) : m \in {n} \ {0}}
  BY DEF TableForm, InParens
<1>4. third = {SelectForm(p, w) : p \in Projections, w \in Where}
  BY DEF SelectForm
<1>5. Where = {<< >>, WhereForm}
  BY DEF WhereForm
<1> HIDE DEF first, second, third, Where
<1>6. s \in second <=> n # 0 /\ s = TableForm(n)
  BY <1>3
<1>7. s \in third <=> \E p, w : (p = <<{Star}>> \/ (n > 0 /\ p = List(n, <<Name>>)))
                                /\ (w = << >> \/ w = WhereForm) /\ s = SelectForm(p, w)
  BY <1>4, <1>5
<1>8. s \in first <=> s = InsertForm(n) \/ s = CallForm(n) \/ s = IndexForm \/ s = LoadForm
  BY <1>2
<1> QED BY <1>1, <1>6, <1>7, <1>8

\* A sentence with k semicolons and Eof behind it.
Whole(s, k) == s \o [i \in 1..k |-> {Semicolon}] \o <<{Eof}>>

\* f is such a form.
IsWhole(s, k, f) ==
    /\ f \in Seq(Places) /\ Len(f) = Len(s) + k + 1
    /\ \A i \in 1..Len(s) : f[i] = s[i]
    /\ \A i \in 1..k : f[Len(s) + i] = {Semicolon}
    /\ f[Len(s) + k + 1] = {Eof}

LEMMA WholeFacts ==
    ASSUME NEW s \in Seq(Places), NEW k \in Nat
    PROVE  IsWhole(s, k, Whole(s, k))
<1> DEFINE m == [i \in 1..k |-> {Semicolon}]
           e == <<{Eof}>>
           a == s \o m
           f == a \o e
<1>1. m \in Seq(Places) /\ Len(m) = k /\ \A i \in 1..k : m[i] = {Semicolon}
  BY PlaceTypes
<1>2. e \in Seq(Places) /\ Len(e) = 1 /\ e[1] = {Eof}
  BY PlaceTypes
<1>3. Whole(s, k) = f
  BY DEF Whole
<1> HIDE DEF m, e
<1>4. /\ a \in Seq(Places) /\ Len(a) = Len(s) + k /\ (\A i \in 1..Len(s) : a[i] = s[i])
      /\ \A i \in 1..k : a[Len(s) + i] = {Semicolon}
  <2>1. m \in Seq(Places)
    BY <1>1
  <2>2. IsConcat(Places, s, m, a)
    BY <2>1, ConcatFacts
  <2> HIDE DEF a
  <2> QED BY <1>1, <2>2 DEF IsConcat
<1> HIDE DEF a
<1>5. IsConcat(Places, a, e, f)
  <2>1. a \in Seq(Places) /\ e \in Seq(Places)
    BY <1>2, <1>4
  <2> QED BY <2>1, ConcatFacts
<1> HIDE DEF f
<1>6. /\ f \in Seq(Places) /\ Len(f) = (Len(s) + k) + 1 /\ (\A i \in 1..(Len(s) + k) : f[i] = a[i])
      /\ \A i \in 1..1 : f[(Len(s) + k) + i] = e[i]
  BY <1>2, <1>4, <1>5 DEF IsConcat
<1>7. /\ Len(s) \in Nat /\ 1 \in 1..1 /\ (\A i \in 1..Len(s) : i \in 1..(Len(s) + k))
      /\ \A i \in 1..k : Len(s) + i \in 1..(Len(s) + k)
  OBVIOUS
<1>8. \A i \in 1..Len(s) : f[i] = s[i]
  BY <1>4, <1>6, <1>7
<1>9. \A i \in 1..k : f[Len(s) + i] = {Semicolon}
  BY <1>4, <1>6, <1>7
<1> QED BY <1>2, <1>3, <1>6, <1>7, <1>8, <1>9 DEF IsWhole

LEMMA GrammarIs ==
    ASSUME NEW f
    PROVE  f \in Grammar <=> /\ \E n, k \in 0..MaxTokens : \E s \in Sentences(n) : f = Whole(s, k)
                             /\ Len(f) <= MaxTokens + 8
<1> DEFINE forms == UNION {{s \o [i \in 1..k |-> {Semicolon}] \o <<{Eof}>> : s \in Sentences(n)} :
                                n, k \in 0..MaxTokens}
<1>1. Grammar = {form \in forms : Len(form) <= MaxTokens + 8}
  BY DEF Grammar
<1>2. forms = UNION {{Whole(s, k) : s \in Sentences(n)} : n, k \in 0..MaxTokens}
  BY DEF Whole
<1> HIDE DEF forms
<1>3. f \in forms <=> \E n, k \in 0..MaxTokens : \E s \in Sentences(n) : f = Whole(s, k)
  <2> DEFINE G(n, k) == {Whole(s, k) : s \in Sentences(n)}
             S == {G(n, k) : n, k \in 0..MaxTokens}
  <2>1. forms = UNION S
    BY <1>2
  <2>2. f \in UNION S <=> \E X \in S : f \in X
    OBVIOUS
  <2>3. \A X : X \in S <=> \E n, k \in 0..MaxTokens : X = G(n, k)
    OBVIOUS
  <2>4. \A n, k : f \in G(n, k) <=> \E s \in Sentences(n) : f = Whole(s, k)
    OBVIOUS
  <2> HIDE DEF S, G
  <2> QED BY <2>1, <2>2, <2>3, <2>4
<1> QED BY <1>1, <1>3

-----------------------------------------------------------------------------
(***************************************************************************)
(* What is ahead.  If the tokens seen so far begin a form f of the         *)
(* grammar, then behind place o, which the parser has come to, f has only  *)
(* the places that the parser will look for there.                         *)
(***************************************************************************)

Done(f, o) == \A i \in (o + 1)..Len(f) : f[i] = {Semicolon} \/ f[i] = {Eof}
Closing(f, o) == f[o + 1] = {RParen} /\ Done(f, o + 1)

\* n literals or columns, and the parenthesis; and the same after one of them.
LiteralsAhead(f, o, n) == Items(f, o, n, Literal) /\ Closing(f, o + Width(n))
MoreLiterals(f, o) ==
    Closing(f, o) \/ (f[o + 1] = {Comma} /\ \E n \in 1..MaxTokens : LiteralsAhead(f, o + 1, n))
ColumnsAhead(f, o, n) == Columns(f, o, n) /\ Closing(f, o + PairWidth(n))
MoreColumns(f, o) ==
    Closing(f, o) \/ (f[o + 1] = {Comma} /\ \E n \in 1..MaxTokens : ColumnsAhead(f, o + 1, n))

\* The rest of a query from FROM on, and from its projection on.
WhereAhead(f, o) ==
    \/ Done(f, o)
    \/ /\ f[o + 1] = Key("where") /\ f[o + 2] = Name /\ f[o + 3] = {Equals} /\ f[o + 4] = Literal
       /\ Done(f, o + 4)
FromAhead(f, o) == f[o + 1] = Key("from") /\ f[o + 2] = Name /\ WhereAhead(f, o + 2)
NamesAhead(f, o, n) == Items(f, o, n, Name) /\ FromAhead(f, o + Width(n))
MoreNames(f, o) ==
    FromAhead(f, o) \/ (f[o + 1] = {Comma} /\ \E n \in 1..MaxTokens : NamesAhead(f, o + 1, n))
QueryAhead(f, o) ==
    \/ f[o + 1] = {Star} /\ FromAhead(f, o + 1)
    \/ \E n \in 1..MaxTokens : NamesAhead(f, o, n)

\* The rest of the other statements.
CallAhead(f, o) ==
    f[o + 1] = Name /\ f[o + 2] = {LParen} /\ \E n \in 0..MaxTokens : LiteralsAhead(f, o + 2, n)
TableAhead(f, o) ==
    f[o + 1] = Name /\ f[o + 2] = {LParen} /\ \E n \in 1..MaxTokens : ColumnsAhead(f, o + 2, n)
IndexAhead(f, o) ==
    /\ f[o + 1] = Name /\ f[o + 2] = Key("on") /\ f[o + 3] = Name
    /\ f[o + 4] = {LParen} /\ f[o + 5] = Name /\ Closing(f, o + 5)
InsertAhead(f, o) ==
    /\ f[o + 1] = Key("into") /\ f[o + 2] = Name /\ f[o + 3] = Key("values")
    /\ f[o + 4] = {LParen} /\ \E n \in 0..MaxTokens : LiteralsAhead(f, o + 4, n)
LoadAhead(f, o) == f[o + 1] = Key("extension") /\ f[o + 2] = Name /\ Done(f, o + 2)
CreateAhead(f, o) ==
    \/ f[o + 1] = Key("table") /\ TableAhead(f, o + 1)
    \/ f[o + 1] = Key("index") /\ IndexAhead(f, o + 1)
StatementAhead(f, o) ==
    \/ f[o + 1] = Key("create") /\ CreateAhead(f, o + 1)
    \/ f[o + 1] = Key("insert") /\ InsertAhead(f, o + 1)
    \/ f[o + 1] = Key("load") /\ LoadAhead(f, o + 1)
    \/ f[o + 1] = Key("select") /\ (CallAhead(f, o + 1) \/ QueryAhead(f, o + 1))

TableAheadAt(f, o, a) ==
    /\ a = "tableName" => TableAhead(f, o)
    /\ a = "columnsOpen" => f[o + 1] = {LParen} /\ \E n \in 1..MaxTokens : ColumnsAhead(f, o + 1, n)
    /\ a = "columnName" => \E n \in 1..MaxTokens : ColumnsAhead(f, o, n)
    /\ a = "columnType" => f[o + 1] = Type /\ MoreColumns(f, o + 1)
    /\ a = "columnsMore" => MoreColumns(f, o)
    /\ a = "columnsClose" => Closing(f, o)
IndexAheadAt(f, o, a) ==
    /\ a = "indexName" => IndexAhead(f, o)
    /\ a = "on" => /\ f[o + 1] = Key("on") /\ f[o + 2] = Name
                   /\ f[o + 3] = {LParen} /\ f[o + 4] = Name /\ Closing(f, o + 4)
    /\ a = "indexTable" => f[o + 1] = Name /\ f[o + 2] = {LParen} /\ f[o + 3] = Name /\ Closing(f, o + 3)
    /\ a = "indexOpen" => f[o + 1] = {LParen} /\ f[o + 2] = Name /\ Closing(f, o + 2)
    /\ a = "indexColumn" => f[o + 1] = Name /\ Closing(f, o + 1)
    /\ a = "indexClose" => Closing(f, o)
InsertAheadAt(f, o, a) ==
    /\ a = "into" => InsertAhead(f, o)
    /\ a = "insertTable" => /\ f[o + 1] = Name /\ f[o + 2] = Key("values") /\ f[o + 3] = {LParen}
                            /\ \E n \in 0..MaxTokens : LiteralsAhead(f, o + 3, n)
    /\ a = "values" => /\ f[o + 1] = Key("values") /\ f[o + 2] = {LParen}
                       /\ \E n \in 0..MaxTokens : LiteralsAhead(f, o + 2, n)
    /\ a = "valuesOpen" => f[o + 1] = {LParen} /\ \E n \in 0..MaxTokens : LiteralsAhead(f, o + 1, n)
LiteralsAheadAt(f, o, a) ==
    /\ a = "literals" => \E n \in 0..MaxTokens : LiteralsAhead(f, o, n)
    /\ a = "literal" => \E n \in 1..MaxTokens : LiteralsAhead(f, o, n)
    /\ a = "literalsMore" => MoreLiterals(f, o)
    /\ a = "literalsClose" => Closing(f, o)
SelectAheadAt(f, o, a) ==
    /\ a = "select" => CallAhead(f, o) \/ QueryAhead(f, o)
    /\ a = "function" => CallAhead(f, o)
    /\ a = "functionOpen" => f[o + 1] = {LParen} /\ \E n \in 0..MaxTokens : LiteralsAhead(f, o + 1, n)
    /\ a = "projection" => QueryAhead(f, o)
    /\ a = "selected" => \E n \in 1..MaxTokens : NamesAhead(f, o, n)
    /\ a = "selectedMore" => MoreNames(f, o)
    /\ a = "from" => FromAhead(f, o)
    /\ a = "selectTable" => f[o + 1] = Name /\ WhereAhead(f, o + 1)
    /\ a = "where" => WhereAhead(f, o)
    /\ a = "predicate" => f[o + 1] = Name /\ f[o + 2] = {Equals} /\ f[o + 3] = Literal /\ Done(f, o + 3)
    /\ a = "equals" => f[o + 1] = {Equals} /\ f[o + 2] = Literal /\ Done(f, o + 2)
    /\ a = "predicateValue" => f[o + 1] = Literal /\ Done(f, o + 1)
OtherAheadAt(f, o, a) ==
    /\ a = "statement" => StatementAhead(f, o)
    /\ a = "create" => CreateAhead(f, o)
    /\ a = "extension" => LoadAhead(f, o)
    /\ a = "extensionName" => f[o + 1] = Name /\ Done(f, o + 1)
    /\ a = "finish" => Done(f, o)

Ahead(f, o, a) ==
    /\ TableAheadAt(f, o, a) /\ IndexAheadAt(f, o, a) /\ InsertAheadAt(f, o, a)
    /\ LiteralsAheadAt(f, o, a) /\ SelectAheadAt(f, o, a) /\ OtherAheadAt(f, o, a)

-----------------------------------------------------------------------------
(***************************************************************************)
(* What is behind.  The tokens R that were consumed are those of a         *)
(* sentence so far, and the statement s has their words.                   *)
(***************************************************************************)

\* The words and marks of a statement.  They are strings, which the provers do not know of
\* the ones that are spelled out.
Words ==
    STRING \cup {"", ",", "(", ")", "*", "=", "create", "table", "index", "on", "insert", "into",
                "values", "load", "extension", "select", "from", "where", "null", "x", "7", "7.5"}
Column == [name : Words, type : Words]
Values == {"null", "text", "integer", "double"}
Statement ==
    [kind : {"none", "table", "index", "insert", "load", "select", "function"}, name : Words,
     table : Words, column : Words, columns : Seq(Column), values : Seq(Values),
     all : BOOLEAN, where : BOOLEAN]

\* As StatementKeepsWords and Written have them.
Folded(t) == IF t.kind = "ident" THEN Lower[t.word] ELSE t.word
Spelled == [null |-> "null", text |-> "x", integer |-> "7", double |-> "7.5"]

Says(R, i, w) == R[i] \in Idents /\ Lower[R[i].word] = w
Means(R, i, v) == R[i] \in Literal /\ Folded(R[i]) = Spelled[v]

\* CREATE TABLE.
TableHead(R, s) == s.kind = "table" /\ Says(R, 1, "create") /\ Says(R, 2, "table")
TableOpen(R, s) == TableHead(R, s) /\ Says(R, 3, s.table) /\ R[4] = LParen
ColumnsSaid(R, s, n) ==
    \A i \in 1..n : /\ Says(R, 3 * i + 2, s.columns[i].name) /\ Says(R, 3 * i + 3, s.columns[i].type)
                    /\ s.columns[i].type \in TypeNames
ColumnCommas(R, n) == \A i \in 1..n : R[3 * i + 4] = Comma
TableBehind(R, s, a) ==
    LET c == Len(s.columns)
    IN  /\ a = "tableName" => Len(R) = 2 /\ TableHead(R, s) /\ c = 0
        /\ a = "columnsOpen" => Len(R) = 3 /\ TableHead(R, s) /\ Says(R, 3, s.table) /\ c = 0
        /\ a = "columnName" => /\ Len(R) = 3 * c + 4 /\ TableOpen(R, s)
                               /\ ColumnsSaid(R, s, c) /\ ColumnCommas(R, c)
        /\ a = "columnType" => /\ c >= 1 /\ Len(R) = 3 * c + 2 /\ TableOpen(R, s)
                               /\ ColumnsSaid(R, s, c - 1) /\ ColumnCommas(R, c - 1)
                               /\ Says(R, 3 * c + 2, s.columns[c].name)
        /\ a \in {"columnsMore", "columnsClose"} =>
              /\ c >= 1 /\ Len(R) = 3 * c + 3 /\ TableOpen(R, s)
              /\ ColumnsSaid(R, s, c) /\ ColumnCommas(R, c - 1)

\* CREATE INDEX.
IndexHead(R, s) == s.kind = "index" /\ Says(R, 1, "create") /\ Says(R, 2, "index")
IndexOn(R, s) == IndexHead(R, s) /\ Says(R, 3, s.name) /\ Says(R, 4, "on")
IndexBehind(R, s, a) ==
    /\ a = "indexName" => Len(R) = 2 /\ IndexHead(R, s)
    /\ a = "on" => Len(R) = 3 /\ IndexHead(R, s) /\ Says(R, 3, s.name)
    /\ a = "indexTable" => Len(R) = 4 /\ IndexOn(R, s)
    /\ a = "indexOpen" => Len(R) = 5 /\ IndexOn(R, s) /\ Says(R, 5, s.table)
    /\ a = "indexColumn" => Len(R) = 6 /\ IndexOn(R, s) /\ Says(R, 5, s.table) /\ R[6] = LParen
    /\ a = "indexClose" => /\ Len(R) = 7 /\ IndexOn(R, s) /\ Says(R, 5, s.table) /\ R[6] = LParen
                           /\ Says(R, 7, s.column)

\* INSERT, and the list of literals that a function call has too.
InsertHead(R, s) == s.kind = "insert" /\ Says(R, 1, "insert")
InsertInto(R, s) == InsertHead(R, s) /\ Says(R, 2, "into") /\ Says(R, 3, s.table)
InsertBehind(R, s, a) ==
    /\ a = "into" => Len(R) = 1 /\ InsertHead(R, s) /\ Len(s.values) = 0
    /\ a = "insertTable" => Len(R) = 2 /\ InsertHead(R, s) /\ Says(R, 2, "into") /\ Len(s.values) = 0
    /\ a = "values" => Len(R) = 3 /\ InsertInto(R, s) /\ Len(s.values) = 0
    /\ a = "valuesOpen" => Len(R) = 4 /\ InsertInto(R, s) /\ Says(R, 4, "values") /\ Len(s.values) = 0

CallHead(R, s) == s.kind = "function" /\ Says(R, 1, "select") /\ Says(R, 2, s.name)
\* The literals follow place b.
Opened(R, s, b) ==
    \/ b = 5 /\ InsertInto(R, s) /\ Says(R, 4, "values") /\ R[5] = LParen
    \/ b = 3 /\ CallHead(R, s) /\ R[3] = LParen
ValuesSaid(R, s, b) == \A i \in 1..Len(s.values) : Means(R, b + 2 * i - 1, s.values[i])
ValueCommas(R, b, n) == \A i \in 1..n : R[b + 2 * i] = Comma
LiteralsBehind(R, s, a) ==
    LET v == Len(s.values)
    IN  /\ a = "literals" => v = 0 /\ Opened(R, s, Len(R))
        /\ a = "literal" =>
              \E b \in {3, 5} : /\ Len(R) = 2 * v + b /\ Opened(R, s, b)
                                /\ ValuesSaid(R, s, b) /\ ValueCommas(R, b, v)
        /\ a \in {"literalsMore", "literalsClose"} =>
              \E b \in {3, 5} : /\ v >= 1 /\ Len(R) = 2 * v - 1 + b /\ Opened(R, s, b)
                                /\ ValuesSaid(R, s, b) /\ ValueCommas(R, b, v - 1)

\* SELECT.  The projection ends at place e.
SelectHead(R, s) == s.kind = "select" /\ Says(R, 1, "select")
NamesSaid(R, s) == \A i \in 1..Len(s.columns) : Says(R, 2 * i, s.columns[i].name)
NameCommas(R, n) == \A i \in 1..n : R[2 * i + 1] = Comma
ProjectionSaid(R, s, e) ==
    \/ s.all /\ e = 2 /\ R[2] = Star
    \/ ~s.all /\ Len(s.columns) >= 1 /\ e = 2 * Len(s.columns) /\ NamesSaid(R, s)
       /\ NameCommas(R, Len(s.columns) - 1)
FromSaid(R, s, e) ==
    /\ SelectHead(R, s) /\ ProjectionSaid(R, s, e - 2)
    /\ Says(R, e - 1, "from") /\ Says(R, e, s.table)
NoValues(s) == ~s.where /\ Len(s.values) = 0
SelectBehind(R, s, a) ==
    LET c == Len(s.columns)
        n == Len(R)
    IN  /\ a \in {"select", "projection", "function"} =>
              n = 1 /\ SelectHead(R, s) /\ NoValues(s) /\ c = 0 /\ ~s.all
        /\ a = "functionOpen" => n = 2 /\ CallHead(R, s) /\ Len(s.values) = 0
        /\ a = "selected" => /\ n = 2 * c + 1 /\ SelectHead(R, s) /\ NoValues(s) /\ ~s.all
                             /\ NamesSaid(R, s) /\ NameCommas(R, c)
        /\ a = "selectedMore" => /\ n = 2 * c /\ SelectHead(R, s) /\ NoValues(s) /\ ~s.all
                                 /\ c >= 1 /\ NamesSaid(R, s) /\ NameCommas(R, c - 1)
        /\ a = "from" => SelectHead(R, s) /\ NoValues(s) /\ ProjectionSaid(R, s, n)
        /\ a = "selectTable" => /\ SelectHead(R, s) /\ NoValues(s) /\ ProjectionSaid(R, s, n - 1)
                                /\ Says(R, n, "from")
        /\ a = "where" => FromSaid(R, s, n) /\ NoValues(s)
        /\ a = "predicate" => FromSaid(R, s, n - 1) /\ Says(R, n, "where") /\ s.where /\ Len(s.values) = 0
        /\ a = "equals" => /\ FromSaid(R, s, n - 2) /\ Says(R, n - 1, "where") /\ Says(R, n, s.column)
                           /\ s.where /\ Len(s.values) = 0
        /\ a = "predicateValue" => /\ FromSaid(R, s, n - 3) /\ Says(R, n - 2, "where")
                                   /\ Says(R, n - 1, s.column) /\ R[n] = Equals
                                   /\ s.where /\ Len(s.values) = 0

\* A whole statement, which ends at place e.
TableSaid(R, s, e) ==
    LET c == Len(s.columns)
    IN  /\ TableOpen(R, s) /\ c >= 1 /\ ColumnsSaid(R, s, c) /\ ColumnCommas(R, c - 1)
        /\ e = 3 * c + 4 /\ R[e] = RParen
IndexSaid(R, s, e) ==
    /\ IndexOn(R, s) /\ Says(R, 5, s.table) /\ R[6] = LParen /\ Says(R, 7, s.column)
    /\ e = 8 /\ R[8] = RParen
LoadSaid(R, s, e) ==
    s.kind = "load" /\ Says(R, 1, "load") /\ Says(R, 2, "extension") /\ Says(R, 3, s.name) /\ e = 3
ListSaid(R, s, e) ==
    \E b \in {3, 5} : /\ Opened(R, s, b) /\ ValuesSaid(R, s, b) /\ ValueCommas(R, b, Len(s.values) - 1)
                      /\ e = Width(Len(s.values)) + b + 1 /\ R[e] = RParen
PlainSaid(R, s, e) == ~s.where /\ FromSaid(R, s, e)
WhereSaid(R, s, e) ==
    /\ s.where /\ FromSaid(R, s, e - 4) /\ Says(R, e - 3, "where") /\ Says(R, e - 2, s.column)
    /\ R[e - 1] = Equals /\ Len(s.values) = 1 /\ Means(R, e, s.values[1])
Said(R, s, e) ==
    \/ TableSaid(R, s, e) \/ IndexSaid(R, s, e) \/ LoadSaid(R, s, e) \/ ListSaid(R, s, e)
    \/ PlainSaid(R, s, e) \/ WhereSaid(R, s, e)

OtherBehind(R, s, a) ==
    /\ a = "statement" => Len(R) = 0 /\ s = NoStatement
    /\ a = "create" => Len(R) = 1 /\ Says(R, 1, "create") /\ s = NoStatement
    /\ a = "extension" => Len(R) = 1 /\ s.kind = "load" /\ Says(R, 1, "load")
    /\ a = "extensionName" => Len(R) = 2 /\ s.kind = "load" /\ Says(R, 1, "load") /\ Says(R, 2, "extension")
    /\ a = "finish" => \E e \in 1..Len(R) : Said(R, s, e) /\ \A i \in (e + 1)..Len(R) : R[i] = Semicolon

Behind(R, s, a) ==
    /\ TableBehind(R, s, a) /\ IndexBehind(R, s, a) /\ InsertBehind(R, s, a)
    /\ LiteralsBehind(R, s, a) /\ SelectBehind(R, s, a) /\ OtherBehind(R, s, a)

-----------------------------------------------------------------------------
(* The invariant. *)

\* Eof is the last token, and no token behind the last is consumed.
Input ==
    /\ tokens \in Seq(Tokens) /\ Len(tokens) <= MaxTokens /\ (Len(tokens) = MaxTokens => Ended)
    /\ \A i \in 1..(Len(tokens) - 1) : tokens[i] # Eof
    /\ offset \in 0..Len(tokens) /\ (Ended => offset < Len(tokens))

\* The tokens that were consumed, and with the one looked at.
Read == [i \in 1..offset |-> tokens[i]]
Seen == [i \in 1..(offset + 1) |-> tokens[i]]

\* From place o on, where the parser is at a, each form that the input may have goes on with
\* what the parser looks for; and there is no such form.
AllAhead(o, a) == \A f \in Grammar : Begins(tokens, f) => Ahead(f, o, a)
NoneAhead == \A f \in Grammar : ~Begins(tokens, f)

ParserInv ==
    /\ Input /\ stmt \in Statement
    /\ outcome # "error" => Behind(Read, stmt, at) /\ AllAhead(offset, at)
    /\ outcome = "ok" => at = "finish" /\ Ended /\ offset + 1 = Len(tokens)
    /\ outcome = "error" => NoneAhead

-----------------------------------------------------------------------------
(* Tokens and the tests of the parser. *)

\* No two kinds of token are confused.
LEMMA TokenKinds ==
    /\ \A t \in Idents : t.kind = "ident" /\ t.word \in DOMAIN Lower /\ t = Token("ident", t.word)
    /\ \A t \in Tokens : t.kind = "ident" => t \in Idents
    /\ \A t \in Numbers : t.kind = "number"
    /\ \A t \in Tokens : t.kind = "number" => t \in Numbers
    /\ \A t \in Tokens : t.kind = "string" => t = Text
    /\ Comma.kind = "comma" /\ LParen.kind = "lparen" /\ RParen.kind = "rparen"
    /\ Semicolon.kind = "semicolon" /\ Star.kind = "star" /\ Equals.kind = "eq" /\ Eof.kind = "eof"
    /\ Text.kind = "string" /\ Text.word = "x"
<1>1. \A t \in Idents : t.kind = "ident" /\ t.word \in DOMAIN Lower /\ t = Token("ident", t.word)
  BY DEF Idents, Token
<1>2. \A t \in Numbers : t.kind = "number"
  BY DEF Numbers, Token
<1>3. /\ Comma.kind = "comma" /\ LParen.kind = "lparen" /\ RParen.kind = "rparen"
      /\ Semicolon.kind = "semicolon" /\ Star.kind = "star" /\ Equals.kind = "eq" /\ Eof.kind = "eof"
      /\ Text.kind = "string" /\ Text.word = "x"
  BY DEF Comma, LParen, RParen, Semicolon, Star, Equals, Eof, Text, Token
<1> QED BY <1>1, <1>2, <1>3 DEF Tokens

\* What a token of a place tells.
Marks == {Comma, LParen, RParen, Semicolon, Star, Equals, Eof}
LEMMA Tells ==
    /\ \A w, t : t \in Key(w) <=> t \in Name /\ Lower[t.word] = w
    /\ \A t : t \in Type <=> t \in Name /\ Lower[t.word] \in TypeNames
    /\ \A t \in Name : t \notin Marks
    /\ \A t \in Literal : t \notin Marks
    /\ Comma # LParen /\ Comma # RParen /\ Comma # Star /\ LParen # RParen /\ LParen # Star
    /\ Eof # LParen /\ Eof # Semicolon /\ Eof # RParen /\ Eof # Comma /\ Eof # Star /\ Eof # Equals
<1>1. /\ \A w, t : t \in Key(w) <=> t \in Name /\ Lower[t.word] = w
      /\ \A t : t \in Type <=> t \in Name /\ Lower[t.word] \in TypeNames
  BY DEF Key, Type, Name
<1>2. \A t \in Marks : t.kind \notin {"ident", "string", "number"}
  BY TokenKinds DEF Marks
<1>3. \A t \in Name : t \notin Marks
  BY <1>2, TokenKinds DEF Name
<1>4. Token("number", "7").kind = "number" /\ Token("number", "7.5").kind = "number"
  BY DEF Token
<1>5. \A t \in Literal : t.kind \in {"ident", "string", "number"}
  <2>1. \A t \in Key("null") : t.kind = "ident"
    BY <1>1, TokenKinds DEF Name
  <2> QED BY <1>4, <2>1, TokenKinds DEF Literal
<1>6. \A t \in Literal : t \notin Marks
  BY <1>2, <1>5
<1>7. /\ Comma # LParen /\ Comma # RParen /\ Comma # Star /\ LParen # RParen /\ LParen # Star
      /\ Eof # LParen /\ Eof # Semicolon /\ Eof # RParen /\ Eof # Comma /\ Eof # Star /\ Eof # Equals
  BY TokenKinds
<1> QED BY <1>1, <1>3, <1>6, <1>7

\* The tests are for the places of the grammar.
LEMMA Tests ==
    ASSUME Peek \in Tokens
    PROVE  /\ IsIdent <=> Peek \in Name
           /\ \A w : IsWord(w) <=> Peek \in Key(w)
           /\ (IsIdent /\ Word \in TypeNames) <=> Peek \in Type
           /\ IsIdent => Word \in Words /\ Word = Lower[Peek.word]
<1>1. IsIdent <=> Peek \in Name
  BY TokenKinds DEF IsIdent, Name
<1>2. \A w : IsWord(w) <=> Peek \in Key(w)
  BY <1>1, Tells DEF IsWord
<1>3. (IsIdent /\ Word \in TypeNames) <=> Peek \in Type
  BY <1>1, Tells DEF Word
<1>4. IsIdent => Word \in Words /\ Word = Lower[Peek.word]
  BY <1>1, TokenKinds, ParserAssumption DEF Word, Name, Words
<1> QED BY <1>1, <1>2, <1>3, <1>4

LEMMA LiteralTest ==
    ASSUME Peek \in Tokens
    PROVE  /\ IsLiteral <=> Peek \in Literal
           /\ IsLiteral => LiteralValue \in Values /\ Folded(Peek) = Spelled[LiteralValue]
<1> DEFINE t == Peek
           v == LiteralValue
<1>1. /\ v = CASE t \in Key("null") -> "null"
               [] t.kind = "string" -> "text"
               [] t.kind = "number" /\ t.word = "7" -> "integer"
               [] t.kind = "number" /\ t.word = "7.5" -> "double"
               [] OTHER -> "none"
  BY Tests DEF LiteralValue
<1>2. /\ Spelled["null"] = "null" /\ Spelled["text"] = "x"
      /\ Spelled["integer"] = "7" /\ Spelled["double"] = "7.5"
  BY DEF Spelled
<1>3. Literal = Key("null") \cup {Text, Token("number", "7"), Token("number", "7.5")}
  BY DEF Literal
<1>4. \A w : Token("number", w).kind = "number" /\ Token("number", w).word = w
  BY DEF Token
<1>5. \A n \in Numbers : n = Token("number", n.word)
  BY DEF Numbers, Token
<1>6. /\ t \in Tokens /\ (t.kind = "string" => t = Text) /\ Text.kind = "string" /\ Text.word = "x"
      /\ (t.kind = "number" => t = Token("number", t.word))
      /\ (t \in Key("null") => t.kind = "ident" /\ Lower[t.word] = "null")
  BY <1>5, TokenKinds, Tells DEF Name
<1>7. IsLiteral <=> v # "none"
  BY DEF IsLiteral
<1>8. Folded(t) = IF t.kind = "ident" THEN Lower[t.word] ELSE t.word
  BY DEF Folded
<1> HIDE DEF t, v
<1>9. CASE t \in Key("null")
  <2>1. v = "null"
    BY <1>1, <1>6, <1>9
  <2> QED BY <1>2, <1>3, <1>6, <1>7, <1>8, <1>9, <2>1 DEF t, v, Values
<1>10. CASE t.kind = "string"
  <2>1. t \notin Key("null") /\ t = Text
    BY <1>6, <1>10
  <2>2. v = "text"
    BY <1>1, <1>10, <2>1
  <2> QED BY <1>2, <1>3, <1>6, <1>7, <1>8, <1>10, <2>1, <2>2 DEF t, v, Values
<1>11. CASE t.kind = "number" /\ t.word = "7"
  <2>1. t \notin Key("null") /\ t = Token("number", "7")
    BY <1>6, <1>11
  <2>2. v = "integer"
    BY <1>1, <1>11, <2>1
  <2> QED BY <1>2, <1>3, <1>7, <1>8, <1>11, <2>1, <2>2 DEF t, v, Values
<1>12. CASE t.kind = "number" /\ t.word = "7.5"
  <2>1. t \notin Key("null") /\ t = Token("number", "7.5")
    BY <1>6, <1>12
  <2>2. v = "double"
    BY <1>1, <1>12, <2>1
  <2> QED BY <1>2, <1>3, <1>7, <1>8, <1>12, <2>1, <2>2 DEF t, v, Values
<1>13. CASE ~(t \in Key("null") \/ t.kind = "string" \/ (t.kind = "number" /\ t.word \in {"7", "7.5"}))
  <2>1. v = "none"
    BY <1>1, <1>13
  <2>2. t \notin Literal
    BY <1>3, <1>4, <1>6, <1>13
  <2> QED BY <1>7, <2>1, <2>2 DEF t
<1> QED BY <1>9, <1>10, <1>11, <1>12, <1>13

-----------------------------------------------------------------------------
(* What a form has ahead, from one place of the parser to the next. *)

LEMMA Sums ==
    ASSUME NEW o \in Nat
    PROVE  /\ o + 1 \in Nat /\ o + 0 = o
           /\ (o + 1) + 1 = o + 2 /\ (o + 1) + 2 = o + 3 /\ (o + 1) + 3 = o + 4 /\ (o + 1) + 4 = o + 5
  OBVIOUS

LEMMA TableAheadIs ==
    ASSUME NEW f, NEW o
    PROVE  /\ Ahead(f, o, "tableName") <=> TableAhead(f, o)
           /\ Ahead(f, o, "columnsOpen") <=>
                f[o + 1] = {LParen} /\ \E n \in 1..MaxTokens : ColumnsAhead(f, o + 1, n)
           /\ Ahead(f, o, "columnName") <=> \E n \in 1..MaxTokens : ColumnsAhead(f, o, n)
           /\ Ahead(f, o, "columnType") <=> f[o + 1] = Type /\ MoreColumns(f, o + 1)
           /\ Ahead(f, o, "columnsMore") <=> MoreColumns(f, o)
           /\ Ahead(f, o, "columnsClose") <=> Closing(f, o)
  BY DEF Ahead, TableAheadAt, IndexAheadAt, InsertAheadAt, LiteralsAheadAt, SelectAheadAt, OtherAheadAt

LEMMA IndexAheadIs ==
    ASSUME NEW f, NEW o
    PROVE  /\ Ahead(f, o, "indexName") <=> IndexAhead(f, o)
           /\ Ahead(f, o, "on") <=> /\ f[o + 1] = Key("on") /\ f[o + 2] = Name
                                    /\ f[o + 3] = {LParen} /\ f[o + 4] = Name /\ Closing(f, o + 4)
           /\ Ahead(f, o, "indexTable") <=>
                f[o + 1] = Name /\ f[o + 2] = {LParen} /\ f[o + 3] = Name /\ Closing(f, o + 3)
           /\ Ahead(f, o, "indexOpen") <=> f[o + 1] = {LParen} /\ f[o + 2] = Name /\ Closing(f, o + 2)
           /\ Ahead(f, o, "indexColumn") <=> f[o + 1] = Name /\ Closing(f, o + 1)
           /\ Ahead(f, o, "indexClose") <=> Closing(f, o)
  BY DEF Ahead, TableAheadAt, IndexAheadAt, InsertAheadAt, LiteralsAheadAt, SelectAheadAt, OtherAheadAt

LEMMA InsertAheadIs ==
    ASSUME NEW f, NEW o
    PROVE  /\ Ahead(f, o, "into") <=> InsertAhead(f, o)
           /\ Ahead(f, o, "insertTable") <=>
                /\ f[o + 1] = Name /\ f[o + 2] = Key("values") /\ f[o + 3] = {LParen}
                /\ \E n \in 0..MaxTokens : LiteralsAhead(f, o + 3, n)
           /\ Ahead(f, o, "values") <=>
                /\ f[o + 1] = Key("values") /\ f[o + 2] = {LParen}
                /\ \E n \in 0..MaxTokens : LiteralsAhead(f, o + 2, n)
           /\ Ahead(f, o, "valuesOpen") <=>
                f[o + 1] = {LParen} /\ \E n \in 0..MaxTokens : LiteralsAhead(f, o + 1, n)
           /\ Ahead(f, o, "literals") <=> \E n \in 0..MaxTokens : LiteralsAhead(f, o, n)
           /\ Ahead(f, o, "literal") <=> \E n \in 1..MaxTokens : LiteralsAhead(f, o, n)
           /\ Ahead(f, o, "literalsMore") <=> MoreLiterals(f, o)
           /\ Ahead(f, o, "literalsClose") <=> Closing(f, o)
  BY DEF Ahead, TableAheadAt, IndexAheadAt, InsertAheadAt, LiteralsAheadAt, SelectAheadAt, OtherAheadAt

LEMMA SelectAheadIs ==
    ASSUME NEW f, NEW o
    PROVE  /\ Ahead(f, o, "select") <=> CallAhead(f, o) \/ QueryAhead(f, o)
           /\ Ahead(f, o, "function") <=> CallAhead(f, o)
           /\ Ahead(f, o, "functionOpen") <=>
                f[o + 1] = {LParen} /\ \E n \in 0..MaxTokens : LiteralsAhead(f, o + 1, n)
           /\ Ahead(f, o, "projection") <=> QueryAhead(f, o)
           /\ Ahead(f, o, "selected") <=> \E n \in 1..MaxTokens : NamesAhead(f, o, n)
           /\ Ahead(f, o, "selectedMore") <=> MoreNames(f, o)
           /\ Ahead(f, o, "from") <=> FromAhead(f, o)
           /\ Ahead(f, o, "selectTable") <=> f[o + 1] = Name /\ WhereAhead(f, o + 1)
           /\ Ahead(f, o, "where") <=> WhereAhead(f, o)
           /\ Ahead(f, o, "predicate") <=>
                f[o + 1] = Name /\ f[o + 2] = {Equals} /\ f[o + 3] = Literal /\ Done(f, o + 3)
           /\ Ahead(f, o, "equals") <=> f[o + 1] = {Equals} /\ f[o + 2] = Literal /\ Done(f, o + 2)
           /\ Ahead(f, o, "predicateValue") <=> f[o + 1] = Literal /\ Done(f, o + 1)
  BY DEF Ahead, TableAheadAt, IndexAheadAt, InsertAheadAt, LiteralsAheadAt, SelectAheadAt, OtherAheadAt

LEMMA OtherAheadIs ==
    ASSUME NEW f, NEW o
    PROVE  /\ Ahead(f, o, "statement") <=> StatementAhead(f, o)
           /\ Ahead(f, o, "create") <=> CreateAhead(f, o)
           /\ Ahead(f, o, "extension") <=> LoadAhead(f, o)
           /\ Ahead(f, o, "extensionName") <=> f[o + 1] = Name /\ Done(f, o + 1)
           /\ Ahead(f, o, "finish") <=> Done(f, o)
  BY DEF Ahead, TableAheadAt, IndexAheadAt, InsertAheadAt, LiteralsAheadAt, SelectAheadAt, OtherAheadAt

\* One item of a list less.
LEMMA ItemsShift ==
    ASSUME NEW f, NEW o \in Nat, NEW n \in Nat, NEW P, n >= 1, Items(f, o, n, P)
    PROVE  /\ f[o + 1] = P
           /\ n > 1 => f[o + 2] = {Comma} /\ Items(f, o + 2, n - 1, P) /\ (o + 2) + Width(n - 1) = o + Width(n)
           /\ n = 1 => o + Width(n) = o + 1
<1>1. f[o + 1] = P
  <2>1. 1 \in 1..n /\ o + 2 * 1 - 1 = o + 1
    OBVIOUS
  <2> QED BY <2>1 DEF Items
<1>2. n = 1 => o + Width(n) = o + 1
  BY DEF Width
<1>3. ASSUME n > 1
      PROVE  f[o + 2] = {Comma} /\ Items(f, o + 2, n - 1, P) /\ (o + 2) + Width(n - 1) = o + Width(n)
  <2>1. f[o + 2] = {Comma}
    <3>1. 1 \in 1..(n - 1) /\ o + 2 * 1 = o + 2
      BY <1>3
    <3> QED BY <3>1 DEF Items
  <2>2. ASSUME NEW i \in 1..(n - 1) PROVE f[(o + 2) + 2 * i - 1] = P
    <3>1. i + 1 \in 1..n /\ o + 2 * (i + 1) - 1 = (o + 2) + 2 * i - 1
      OBVIOUS
    <3> QED BY <3>1 DEF Items
  <2>3. ASSUME NEW i \in 1..((n - 1) - 1) PROVE f[(o + 2) + 2 * i] = {Comma}
    <3>1. i + 1 \in 1..(n - 1) /\ o + 2 * (i + 1) = (o + 2) + 2 * i
      OBVIOUS
    <3> QED BY <3>1 DEF Items
  <2>4. (o + 2) + Width(n - 1) = o + Width(n)
    BY <1>3 DEF Width
  <2> QED BY <2>1, <2>2, <2>3, <2>4 DEF Items
<1> QED BY <1>1, <1>2, <1>3

LEMMA ColumnsShift ==
    ASSUME NEW f, NEW o \in Nat, NEW n \in Nat, n >= 1, Columns(f, o, n)
    PROVE  /\ f[o + 1] = Name /\ f[o + 2] = Type
           /\ n > 1 => f[o + 3] = {Comma} /\ Columns(f, o + 3, n - 1) /\ (o + 3) + PairWidth(n - 1) = o + PairWidth(n)
           /\ n = 1 => o + PairWidth(n) = o + 2
<1>1. f[o + 1] = Name /\ f[o + 2] = Type
  <2>1. 1 \in 1..n /\ o + 3 * 1 - 2 = o + 1 /\ o + 3 * 1 - 1 = o + 2
    OBVIOUS
  <2> QED BY <2>1 DEF Columns
<1>2. n = 1 => o + PairWidth(n) = o + 2
  BY DEF PairWidth
<1>3. ASSUME n > 1
      PROVE  f[o + 3] = {Comma} /\ Columns(f, o + 3, n - 1) /\ (o + 3) + PairWidth(n - 1) = o + PairWidth(n)
  <2>1. f[o + 3] = {Comma}
    <3>1. 1 \in 1..(n - 1) /\ o + 3 * 1 = o + 3
      BY <1>3
    <3> QED BY <3>1 DEF Columns
  <2>2. ASSUME NEW i \in 1..(n - 1)
        PROVE  f[(o + 3) + 3 * i - 2] = Name /\ f[(o + 3) + 3 * i - 1] = Type
    <3>1. /\ i + 1 \in 1..n /\ o + 3 * (i + 1) - 2 = (o + 3) + 3 * i - 2
          /\ o + 3 * (i + 1) - 1 = (o + 3) + 3 * i - 1
      OBVIOUS
    <3> QED BY <3>1 DEF Columns
  <2>3. ASSUME NEW i \in 1..((n - 1) - 1) PROVE f[(o + 3) + 3 * i] = {Comma}
    <3>1. i + 1 \in 1..(n - 1) /\ o + 3 * (i + 1) = (o + 3) + 3 * i
      OBVIOUS
    <3> QED BY <3>1 DEF Columns
  <2>4. (o + 3) + PairWidth(n - 1) = o + PairWidth(n)
    BY <1>3 DEF PairWidth
  <2> QED BY <2>1, <2>2, <2>3, <2>4 DEF Columns
<1> QED BY <1>1, <1>2, <1>3

LEMMA AfterLiteral ==
    ASSUME NEW f, NEW o \in Nat, NEW n \in 1..MaxTokens, LiteralsAhead(f, o, n)
    PROVE  f[o + 1] = Literal /\ MoreLiterals(f, o + 1)
<1>1. n \in Nat /\ n >= 1 /\ MaxTokens \in Nat
  BY ParserAssumption
<1>2. Items(f, o, n, Literal) /\ Closing(f, o + Width(n))
  BY DEF LiteralsAhead
<1>3. /\ f[o + 1] = Literal
      /\ n > 1 => /\ f[o + 2] = {Comma} /\ Items(f, o + 2, n - 1, Literal)
                  /\ (o + 2) + Width(n - 1) = o + Width(n)
      /\ n = 1 => o + Width(n) = o + 1
  BY <1>1, <1>2, ItemsShift
<1>4. CASE n = 1
  BY <1>2, <1>3, <1>4 DEF MoreLiterals
<1>5. CASE n > 1
  <2>1. n - 1 \in 1..MaxTokens /\ (o + 1) + 1 = o + 2
    BY <1>1, <1>5
  <2>2. LiteralsAhead(f, o + 2, n - 1)
    BY <1>2, <1>3, <1>5 DEF LiteralsAhead
  <2> QED BY <1>3, <1>5, <2>1, <2>2 DEF MoreLiterals
<1> QED BY <1>1, <1>4, <1>5

LEMMA AfterName ==
    ASSUME NEW f, NEW o \in Nat, NEW n \in 1..MaxTokens, NamesAhead(f, o, n)
    PROVE  f[o + 1] = Name /\ MoreNames(f, o + 1)
<1>1. n \in Nat /\ n >= 1 /\ MaxTokens \in Nat
  BY ParserAssumption
<1>2. Items(f, o, n, Name) /\ FromAhead(f, o + Width(n))
  BY DEF NamesAhead
<1>3. /\ f[o + 1] = Name
      /\ n > 1 => /\ f[o + 2] = {Comma} /\ Items(f, o + 2, n - 1, Name)
                  /\ (o + 2) + Width(n - 1) = o + Width(n)
      /\ n = 1 => o + Width(n) = o + 1
  BY <1>1, <1>2, ItemsShift
<1>4. CASE n = 1
  BY <1>2, <1>3, <1>4 DEF MoreNames
<1>5. CASE n > 1
  <2>1. n - 1 \in 1..MaxTokens /\ (o + 1) + 1 = o + 2
    BY <1>1, <1>5
  <2>2. NamesAhead(f, o + 2, n - 1)
    BY <1>2, <1>3, <1>5 DEF NamesAhead
  <2> QED BY <1>3, <1>5, <2>1, <2>2 DEF MoreNames
<1> QED BY <1>1, <1>4, <1>5

LEMMA AfterColumn ==
    ASSUME NEW f, NEW o \in Nat, NEW n \in 1..MaxTokens, ColumnsAhead(f, o, n)
    PROVE  f[o + 1] = Name /\ f[o + 2] = Type /\ MoreColumns(f, o + 2)
<1>1. n \in Nat /\ n >= 1 /\ MaxTokens \in Nat
  BY ParserAssumption
<1>2. Columns(f, o, n) /\ Closing(f, o + PairWidth(n))
  BY DEF ColumnsAhead
<1>3. /\ f[o + 1] = Name /\ f[o + 2] = Type
      /\ n > 1 => /\ f[o + 3] = {Comma} /\ Columns(f, o + 3, n - 1)
                  /\ (o + 3) + PairWidth(n - 1) = o + PairWidth(n)
      /\ n = 1 => o + PairWidth(n) = o + 2
  BY <1>1, <1>2, ColumnsShift
<1>4. CASE n = 1
  BY <1>2, <1>3, <1>4 DEF MoreColumns
<1>5. CASE n > 1
  <2>1. n - 1 \in 1..MaxTokens /\ (o + 2) + 1 = o + 3
    BY <1>1, <1>5
  <2>2. ColumnsAhead(f, o + 3, n - 1)
    BY <1>2, <1>3, <1>5 DEF ColumnsAhead
  <2> QED BY <1>3, <1>5, <2>1, <2>2 DEF MoreColumns
<1> QED BY <1>1, <1>4, <1>5

\* parse_create_table: t is the token looked at.
LEMMA TableAheadStep ==
    ASSUME NEW f, NEW o \in Nat, NEW t, t \in f[o + 1]
    PROVE  /\ Ahead(f, o, "tableName") => t \in Name /\ Ahead(f, o + 1, "columnsOpen")
           /\ Ahead(f, o, "columnsOpen") => t = LParen /\ Ahead(f, o + 1, "columnName")
           /\ Ahead(f, o, "columnName") => t \in Name /\ Ahead(f, o + 1, "columnType")
           /\ Ahead(f, o, "columnType") => t \in Type /\ Ahead(f, o + 1, "columnsMore")
           /\ Ahead(f, o, "columnsMore") /\ t = Comma => Ahead(f, o + 1, "columnName")
           /\ Ahead(f, o, "columnsMore") /\ t # Comma => Ahead(f, o, "columnsClose")
           /\ Ahead(f, o, "columnsClose") => t = RParen /\ Ahead(f, o + 1, "finish")
<1>0. (o + 1) + 1 = o + 2
  BY Sums
<1>1. Ahead(f, o, "tableName") => t \in Name /\ Ahead(f, o + 1, "columnsOpen")
  BY <1>0, TableAheadIs DEF TableAhead
<1>2. Ahead(f, o, "columnsOpen") => t = LParen /\ Ahead(f, o + 1, "columnName")
  BY TableAheadIs
<1>3. Ahead(f, o, "columnName") => t \in Name /\ Ahead(f, o + 1, "columnType")
  <2> SUFFICES ASSUME NEW n \in 1..MaxTokens, ColumnsAhead(f, o, n)
               PROVE  t \in Name /\ Ahead(f, o + 1, "columnType")
    BY TableAheadIs
  <2>1. f[o + 1] = Name /\ f[o + 2] = Type /\ MoreColumns(f, o + 2)
    BY AfterColumn
  <2> QED BY <1>0, <2>1, TableAheadIs
<1>4. Ahead(f, o, "columnType") => t \in Type /\ Ahead(f, o + 1, "columnsMore")
  BY TableAheadIs
<1>5. Ahead(f, o, "columnsMore") /\ t = Comma => Ahead(f, o + 1, "columnName")
  BY TableAheadIs, Tells DEF MoreColumns, Closing
<1>6. Ahead(f, o, "columnsMore") /\ t # Comma => Ahead(f, o, "columnsClose")
  BY TableAheadIs DEF MoreColumns
<1>7. Ahead(f, o, "columnsClose") => t = RParen /\ Ahead(f, o + 1, "finish")
  BY TableAheadIs, OtherAheadIs DEF Closing
<1> QED BY <1>1, <1>2, <1>3, <1>4, <1>5, <1>6, <1>7

\* parse_create_index.
LEMMA IndexAheadStep ==
    ASSUME NEW f, NEW o \in Nat, NEW t, t \in f[o + 1]
    PROVE  /\ Ahead(f, o, "indexName") => t \in Name /\ Ahead(f, o + 1, "on")
           /\ Ahead(f, o, "on") => t \in Key("on") /\ Ahead(f, o + 1, "indexTable")
           /\ Ahead(f, o, "indexTable") => t \in Name /\ Ahead(f, o + 1, "indexOpen")
           /\ Ahead(f, o, "indexOpen") => t = LParen /\ Ahead(f, o + 1, "indexColumn")
           /\ Ahead(f, o, "indexColumn") => t \in Name /\ Ahead(f, o + 1, "indexClose")
           /\ Ahead(f, o, "indexClose") => t = RParen /\ Ahead(f, o + 1, "finish")
<1>0. (o + 1) + 1 = o + 2 /\ (o + 1) + 2 = o + 3 /\ (o + 1) + 3 = o + 4 /\ (o + 1) + 4 = o + 5
  BY Sums
<1>1. Ahead(f, o, "indexName") => t \in Name /\ Ahead(f, o + 1, "on")
  BY <1>0, IndexAheadIs DEF IndexAhead
<1>2. Ahead(f, o, "on") => t \in Key("on") /\ Ahead(f, o + 1, "indexTable")
  BY <1>0, IndexAheadIs
<1>3. Ahead(f, o, "indexTable") => t \in Name /\ Ahead(f, o + 1, "indexOpen")
  BY <1>0, IndexAheadIs
<1>4. Ahead(f, o, "indexOpen") => t = LParen /\ Ahead(f, o + 1, "indexColumn")
  BY <1>0, IndexAheadIs
<1>5. Ahead(f, o, "indexColumn") => t \in Name /\ Ahead(f, o + 1, "indexClose")
  BY IndexAheadIs
<1>6. Ahead(f, o, "indexClose") => t = RParen /\ Ahead(f, o + 1, "finish")
  BY IndexAheadIs, OtherAheadIs DEF Closing
<1> QED BY <1>1, <1>2, <1>3, <1>4, <1>5, <1>6

\* parse_insert, and the list of literals.
LEMMA InsertAheadStep ==
    ASSUME NEW f, NEW o \in Nat, NEW t, t \in f[o + 1]
    PROVE  /\ Ahead(f, o, "into") => t \in Key("into") /\ Ahead(f, o + 1, "insertTable")
           /\ Ahead(f, o, "insertTable") => t \in Name /\ Ahead(f, o + 1, "values")
           /\ Ahead(f, o, "values") => t \in Key("values") /\ Ahead(f, o + 1, "valuesOpen")
           /\ Ahead(f, o, "valuesOpen") => t = LParen /\ Ahead(f, o + 1, "literals")
           /\ Ahead(f, o, "literals") /\ t = RParen => Ahead(f, o + 1, "finish")
           /\ Ahead(f, o, "literals") /\ t # RParen => Ahead(f, o, "literal")
           /\ Ahead(f, o, "literal") => t \in Literal /\ Ahead(f, o + 1, "literalsMore")
           /\ Ahead(f, o, "literalsMore") /\ t = Comma => Ahead(f, o + 1, "literal")
           /\ Ahead(f, o, "literalsMore") /\ t # Comma => Ahead(f, o, "literalsClose")
           /\ Ahead(f, o, "literalsClose") => t = RParen /\ Ahead(f, o + 1, "finish")
<1>0. (o + 1) + 1 = o + 2 /\ (o + 1) + 2 = o + 3 /\ (o + 1) + 3 = o + 4 /\ o + 0 = o
  BY Sums
<1>1. Ahead(f, o, "into") => t \in Key("into") /\ Ahead(f, o + 1, "insertTable")
  BY <1>0, InsertAheadIs DEF InsertAhead
<1>2. Ahead(f, o, "insertTable") => t \in Name /\ Ahead(f, o + 1, "values")
  BY <1>0, InsertAheadIs
<1>3. Ahead(f, o, "values") => t \in Key("values") /\ Ahead(f, o + 1, "valuesOpen")
  BY <1>0, InsertAheadIs
<1>4. Ahead(f, o, "valuesOpen") => t = LParen /\ Ahead(f, o + 1, "literals")
  BY InsertAheadIs
<1>5. ASSUME Ahead(f, o, "literals")
      PROVE  IF t = RParen THEN Ahead(f, o + 1, "finish") ELSE Ahead(f, o, "literal")
  <2>1. PICK n \in 0..MaxTokens : LiteralsAhead(f, o, n)
    BY <1>5, InsertAheadIs
  <2>2. CASE n = 0
    <3>1. Width(0) = 0
      BY DEF Width
    <3>2. Closing(f, o)
      BY <1>0, <2>1, <2>2, <3>1 DEF LiteralsAhead
    <3> QED BY <3>2, OtherAheadIs DEF Closing
  <2>3. CASE n # 0
    <3>1. n \in 1..MaxTokens
      BY <2>3
    <3>2. f[o + 1] = Literal
      BY <2>1, <3>1, AfterLiteral
    <3>3. t # RParen
      BY <3>2, Tells DEF Marks
    <3> QED BY <2>1, <3>1, <3>3, InsertAheadIs
  <2> QED BY <2>2, <2>3
<1>6. Ahead(f, o, "literal") => t \in Literal /\ Ahead(f, o + 1, "literalsMore")
  <2> SUFFICES ASSUME NEW n \in 1..MaxTokens, LiteralsAhead(f, o, n)
               PROVE  t \in Literal /\ Ahead(f, o + 1, "literalsMore")
    BY InsertAheadIs
  <2>1. f[o + 1] = Literal /\ MoreLiterals(f, o + 1)
    BY AfterLiteral
  <2> QED BY <2>1, InsertAheadIs
<1>7. Ahead(f, o, "literalsMore") /\ t = Comma => Ahead(f, o + 1, "literal")
  BY InsertAheadIs, Tells DEF MoreLiterals, Closing
<1>8. Ahead(f, o, "literalsMore") /\ t # Comma => Ahead(f, o, "literalsClose")
  BY InsertAheadIs DEF MoreLiterals
<1>9. Ahead(f, o, "literalsClose") => t = RParen /\ Ahead(f, o + 1, "finish")
  BY InsertAheadIs, OtherAheadIs DEF Closing
<1> QED BY <1>1, <1>2, <1>3, <1>4, <1>5, <1>6, <1>7, <1>8, <1>9

\* parse_select and parse_select_function.
LEMMA SelectAheadStep ==
    ASSUME NEW f, NEW o \in Nat, NEW t, t \in f[o + 1]
    PROVE  /\ Ahead(f, o, "function") => t \in Name /\ Ahead(f, o + 1, "functionOpen")
           /\ Ahead(f, o, "functionOpen") => t = LParen /\ Ahead(f, o + 1, "literals")
           /\ Ahead(f, o, "projection") /\ t = Star => Ahead(f, o + 1, "from")
           /\ Ahead(f, o, "projection") /\ t # Star => Ahead(f, o, "selected")
           /\ Ahead(f, o, "selected") => t \in Name /\ Ahead(f, o + 1, "selectedMore")
           /\ Ahead(f, o, "selectedMore") /\ t = Comma => Ahead(f, o + 1, "selected")
           /\ Ahead(f, o, "selectedMore") /\ t # Comma => Ahead(f, o, "from")
           /\ Ahead(f, o, "from") => t \in Key("from") /\ Ahead(f, o + 1, "selectTable")
           /\ Ahead(f, o, "selectTable") => t \in Name /\ Ahead(f, o + 1, "where")
<1>0. (o + 1) + 1 = o + 2
  BY Sums
<1>1. Ahead(f, o, "function") => t \in Name /\ Ahead(f, o + 1, "functionOpen")
  BY <1>0, SelectAheadIs DEF CallAhead
<1>2. Ahead(f, o, "functionOpen") => t = LParen /\ Ahead(f, o + 1, "literals")
  BY SelectAheadIs, InsertAheadIs
<1>3. ASSUME Ahead(f, o, "projection")
      PROVE  IF t = Star THEN Ahead(f, o + 1, "from") ELSE Ahead(f, o, "selected")
  <2>1. CASE f[o + 1] = {Star} /\ FromAhead(f, o + 1)
    BY <2>1, SelectAheadIs
  <2>2. CASE \E n \in 1..MaxTokens : NamesAhead(f, o, n)
    <3>1. f[o + 1] = Name
      BY <2>2, AfterName
    <3>2. t # Star
      BY <3>1, Tells DEF Marks
    <3> QED BY <2>2, <3>2, SelectAheadIs
  <2> QED BY <1>3, <2>1, <2>2, SelectAheadIs DEF QueryAhead
<1>4. Ahead(f, o, "selected") => t \in Name /\ Ahead(f, o + 1, "selectedMore")
  <2> SUFFICES ASSUME NEW n \in 1..MaxTokens, NamesAhead(f, o, n)
               PROVE  t \in Name /\ Ahead(f, o + 1, "selectedMore")
    BY SelectAheadIs
  <2>1. f[o + 1] = Name /\ MoreNames(f, o + 1)
    BY AfterName
  <2> QED BY <2>1, SelectAheadIs
<1>5. ASSUME Ahead(f, o, "selectedMore")
      PROVE  IF t = Comma THEN Ahead(f, o + 1, "selected") ELSE Ahead(f, o, "from")
  <2>1. CASE FromAhead(f, o)
    <3>1. t \in Key("from")
      BY <2>1 DEF FromAhead
    <3>2. t # Comma
      BY <3>1, Tells DEF Marks
    <3> QED BY <2>1, <3>2, SelectAheadIs
  <2>2. CASE f[o + 1] = {Comma} /\ \E n \in 1..MaxTokens : NamesAhead(f, o + 1, n)
    BY <2>2, SelectAheadIs
  <2> QED BY <1>5, <2>1, <2>2, SelectAheadIs DEF MoreNames
<1>6. Ahead(f, o, "from") => t \in Key("from") /\ Ahead(f, o + 1, "selectTable")
  BY <1>0, SelectAheadIs DEF FromAhead
<1>7. Ahead(f, o, "selectTable") => t \in Name /\ Ahead(f, o + 1, "where")
  BY SelectAheadIs
<1> QED BY <1>1, <1>2, <1>3, <1>4, <1>5, <1>6, <1>7

\* The predicate of parse_select, and finish.
LEMMA WhereAheadStep ==
    ASSUME NEW f, NEW o \in Nat, o + 1 <= Len(f), Len(f) \in Nat, NEW t, t \in f[o + 1]
    PROVE  /\ Ahead(f, o, "where") /\ t \in Key("where") => Ahead(f, o + 1, "predicate")
           /\ Ahead(f, o, "where") /\ t \notin Key("where") => Ahead(f, o, "finish")
           /\ Ahead(f, o, "predicate") => t \in Name /\ Ahead(f, o + 1, "equals")
           /\ Ahead(f, o, "equals") => t = Equals /\ Ahead(f, o + 1, "predicateValue")
           /\ Ahead(f, o, "predicateValue") => t \in Literal /\ Ahead(f, o + 1, "finish")
           /\ Ahead(f, o, "finish") => t \in {Semicolon, Eof} /\ Ahead(f, o + 1, "finish")
<1>0. (o + 1) + 1 = o + 2 /\ (o + 1) + 2 = o + 3 /\ (o + 1) + 3 = o + 4
  BY Sums
<1>1. Done(f, o) => t \in {Semicolon, Eof} /\ Done(f, o + 1)
  <2> SUFFICES ASSUME Done(f, o) PROVE t \in {Semicolon, Eof} /\ Done(f, o + 1)
    OBVIOUS
  <2>1. o + 1 \in (o + 1)..Len(f) /\ \A i \in ((o + 1) + 1)..Len(f) : i \in (o + 1)..Len(f)
    OBVIOUS
  <2>2. f[o + 1] = {Semicolon} \/ f[o + 1] = {Eof}
    BY <2>1 DEF Done
  <2>3. Done(f, o + 1)
    BY <2>1 DEF Done
  <2> QED BY <2>2, <2>3
<1>2. ASSUME Ahead(f, o, "where")
      PROVE  IF t \in Key("where") THEN Ahead(f, o + 1, "predicate") ELSE Ahead(f, o, "finish")
  <2>1. CASE Done(f, o)
    <3>1. t \notin Key("where")
      BY <1>1, <2>1, Tells DEF Marks
    <3> QED BY <2>1, <3>1, OtherAheadIs
  <2>2. CASE /\ f[o + 1] = Key("where") /\ f[o + 2] = Name /\ f[o + 3] = {Equals} /\ f[o + 4] = Literal
             /\ Done(f, o + 4)
    BY <1>0, <2>2, SelectAheadIs
  <2> QED BY <1>2, <2>1, <2>2, SelectAheadIs DEF WhereAhead
<1>3. Ahead(f, o, "predicate") => t \in Name /\ Ahead(f, o + 1, "equals")
  BY <1>0, SelectAheadIs
<1>4. Ahead(f, o, "equals") => t = Equals /\ Ahead(f, o + 1, "predicateValue")
  BY <1>0, SelectAheadIs
<1>5. Ahead(f, o, "predicateValue") => t \in Literal /\ Ahead(f, o + 1, "finish")
  BY SelectAheadIs, OtherAheadIs
<1>6. Ahead(f, o, "finish") => t \in {Semicolon, Eof} /\ Ahead(f, o + 1, "finish")
  BY <1>1, OtherAheadIs
<1> QED BY <1>2, <1>3, <1>4, <1>5, <1>6

\* parse_statement and parse_load_extension.
LEMMA StatementAheadStep ==
    ASSUME NEW f, NEW o \in Nat, NEW t, t \in f[o + 1]
    PROVE  /\ Ahead(f, o, "statement") =>
                /\ t \in Name /\ Lower[t.word] \in {"create", "insert", "load", "select"}
                /\ t \in Key("create") => Ahead(f, o + 1, "create")
                /\ t \in Key("insert") => Ahead(f, o + 1, "into")
                /\ t \in Key("load") => Ahead(f, o + 1, "extension")
                /\ t \in Key("select") => Ahead(f, o + 1, "select")
           /\ Ahead(f, o, "create") =>
                /\ t \in Key("table") \/ t \in Key("index")
                /\ t \in Key("table") => Ahead(f, o + 1, "tableName")
                /\ t \in Key("index") => Ahead(f, o + 1, "indexName")
           /\ Ahead(f, o, "extension") => t \in Key("extension") /\ Ahead(f, o + 1, "extensionName")
           /\ Ahead(f, o, "extensionName") => t \in Name /\ Ahead(f, o + 1, "finish")
<1>0. (o + 1) + 1 = o + 2
  BY Sums
<1>1. \A v, w : t \in Key(v) /\ t \in Key(w) => v = w
  BY Tells
<1>2. ASSUME Ahead(f, o, "statement")
      PROVE  /\ t \in Name /\ Lower[t.word] \in {"create", "insert", "load", "select"}
             /\ t \in Key("create") => Ahead(f, o + 1, "create")
             /\ t \in Key("insert") => Ahead(f, o + 1, "into")
             /\ t \in Key("load") => Ahead(f, o + 1, "extension")
             /\ t \in Key("select") => Ahead(f, o + 1, "select")
  <2>1. StatementAhead(f, o)
    BY <1>2, OtherAheadIs
  <2>2. \/ t \in Key("create") /\ CreateAhead(f, o + 1)
        \/ t \in Key("insert") /\ InsertAhead(f, o + 1)
        \/ t \in Key("load") /\ LoadAhead(f, o + 1)
        \/ t \in Key("select") /\ (CallAhead(f, o + 1) \/ QueryAhead(f, o + 1))
    BY <2>1 DEF StatementAhead
  <2>3. t \in Name /\ Lower[t.word] \in {"create", "insert", "load", "select"}
    BY <2>2, Tells
  <2> QED BY <1>1, <2>2, <2>3, OtherAheadIs, InsertAheadIs, SelectAheadIs
<1>3. ASSUME Ahead(f, o, "create")
      PROVE  /\ t \in Key("table") \/ t \in Key("index")
             /\ t \in Key("table") => Ahead(f, o + 1, "tableName")
             /\ t \in Key("index") => Ahead(f, o + 1, "indexName")
  <2>1. \/ t \in Key("table") /\ TableAhead(f, o + 1)
        \/ t \in Key("index") /\ IndexAhead(f, o + 1)
    BY <1>3, OtherAheadIs DEF CreateAhead
  <2> QED BY <1>1, <2>1, TableAheadIs, IndexAheadIs
<1>4. Ahead(f, o, "extension") => t \in Key("extension") /\ Ahead(f, o + 1, "extensionName")
  BY <1>0, OtherAheadIs DEF LoadAhead
<1>5. Ahead(f, o, "extensionName") => t \in Name /\ Ahead(f, o + 1, "finish")
  BY OtherAheadIs
<1> QED BY <1>2, <1>3, <1>4, <1>5

\* Whether a function call or a query is ahead shows at its second token u.
LEMMA CallAheadStep ==
    ASSUME NEW f, NEW o \in Nat, NEW t, t \in f[o + 1], Ahead(f, o, "select")
    PROVE  /\ t \in Name /\ LParen \in f[o + 2] => Ahead(f, o, "function")
           /\ t \notin Name => Ahead(f, o, "projection")
           /\ \A u : u \in f[o + 2] /\ u # LParen => Ahead(f, o, "projection")
<1>1. CASE CallAhead(f, o)
  BY <1>1, SelectAheadIs DEF CallAhead
<1>2. CASE QueryAhead(f, o)
  <2>1. Ahead(f, o, "projection")
    BY <1>2, SelectAheadIs
  <2>2. ASSUME t \in Name, LParen \in f[o + 2] PROVE FALSE
    <3>1. CASE f[o + 1] = {Star}
      BY <2>2, <3>1, Tells DEF Marks
    <3>2. CASE \E n \in 1..MaxTokens : NamesAhead(f, o, n)
      <4>1. MoreNames(f, o + 1)
        BY <3>2, AfterName
      <4>2. (o + 1) + 1 = o + 2
        BY Sums
      <4>3. f[o + 2] = Key("from") \/ f[o + 2] = {Comma}
        BY <4>1, <4>2 DEF MoreNames, FromAhead
      <4>4. LParen \notin Key("from") /\ LParen # Comma
        BY Tells DEF Marks
      <4> QED BY <2>2, <4>3, <4>4
    <3> QED BY <1>2, <3>1, <3>2 DEF QueryAhead
  <2> QED BY <2>1, <2>2
<1> QED BY <1>1, <1>2, SelectAheadIs

-----------------------------------------------------------------------------
(* Before the first token everything that the grammar has is ahead. *)

LEMMA DoneBehind ==
    ASSUME NEW s \in Seq(Places), NEW k \in Nat, NEW f, IsWhole(s, k, f)
    PROVE  Done(f, Len(s))
<1>1. /\ Len(f) = Len(s) + k + 1 /\ (\A j \in 1..k : f[Len(s) + j] = {Semicolon})
      /\ f[Len(s) + k + 1] = {Eof} /\ Len(s) \in Nat
  BY DEF IsWhole
<1>2. ASSUME NEW i \in (Len(s) + 1)..Len(f) PROVE f[i] = {Semicolon} \/ f[i] = {Eof}
  <2>1. CASE i = Len(s) + k + 1
    BY <1>1, <2>1
  <2>2. CASE i # Len(s) + k + 1
    <3>1. i - Len(s) \in 1..k /\ Len(s) + (i - Len(s)) = i
      BY <1>1, <2>2
    <3>2. f[Len(s) + (i - Len(s))] = {Semicolon}
      BY <1>1, <3>1
    <3> QED BY <3>1, <3>2
  <2> QED BY <2>1, <2>2
<1> QED BY <1>2 DEF Done

\* A list inside s is there in f.
LEMMA SameItems ==
    ASSUME NEW s, NEW f, NEW N \in Nat, \A i \in 1..N : f[i] = s[i],
           NEW o \in Nat, NEW n \in Nat, o + Width(n) <= N, NEW P, Items(s, o, n, P)
    PROVE  Items(f, o, n, P)
<1>1. ASSUME NEW i \in 1..n PROVE f[o + 2 * i - 1] = P
  <2>1. o + 2 * i - 1 \in 1..N
    BY DEF Width
  <2> QED BY <2>1 DEF Items
<1>2. ASSUME NEW i \in 1..(n - 1) PROVE f[o + 2 * i] = {Comma}
  <2>1. o + 2 * i \in 1..N
    BY DEF Width
  <2> QED BY <2>1 DEF Items
<1> QED BY <1>1, <1>2 DEF Items

LEMMA SameColumns ==
    ASSUME NEW s, NEW f, NEW N \in Nat, \A i \in 1..N : f[i] = s[i],
           NEW o \in Nat, NEW n \in Nat, o + PairWidth(n) <= N, Columns(s, o, n)
    PROVE  Columns(f, o, n)
<1>1. ASSUME NEW i \in 1..n PROVE f[o + 3 * i - 2] = Name /\ f[o + 3 * i - 1] = Type
  <2>1. o + 3 * i - 2 \in 1..N /\ o + 3 * i - 1 \in 1..N
    BY DEF PairWidth
  <2> QED BY <2>1 DEF Columns
<1>2. ASSUME NEW i \in 1..(n - 1) PROVE f[o + 3 * i] = {Comma}
  <2>1. o + 3 * i \in 1..N
    BY DEF PairWidth
  <2> QED BY <2>1 DEF Columns
<1> QED BY <1>1, <1>2 DEF Columns

LEMMA Widths ==
    ASSUME NEW n \in Nat PROVE Width(n) \in Nat /\ PairWidth(n) \in Nat
  BY DEF Width, PairWidth

\* f has the places of s, and then its end.
Begun(s, f) ==
    /\ Len(s) \in Nat /\ Done(f, Len(s)) /\ \A i \in 1..Len(s) : f[i] = s[i]

LEMMA InsertBegun ==
    ASSUME NEW s, NEW f, NEW n \in 0..MaxTokens, Begun(s, f), InsertPlaces(s, n)
    PROVE  StatementAhead(f, 0)
<1>0. n \in Nat /\ Width(n) \in Nat
  BY Widths, ParserAssumption
<1>1. /\ Len(s) = Width(n) + 6 /\ (\A i \in 1..Len(s) : f[i] = s[i])
      /\ s[1] = Key("insert") /\ s[2] = Key("into") /\ s[3] = Name /\ s[4] = Key("values")
      /\ s[5] = {LParen} /\ Items(s, 5, n, Literal) /\ s[Width(n) + 6] = {RParen}
  BY DEF InsertPlaces, Begun
<1>2. /\ f[1] = Key("insert") /\ f[2] = Key("into") /\ f[3] = Name /\ f[4] = Key("values")
      /\ f[5] = {LParen} /\ f[Width(n) + 6] = {RParen}
  <2>1. /\ 1 \in 1..(Width(n) + 6) /\ 2 \in 1..(Width(n) + 6) /\ 3 \in 1..(Width(n) + 6) /\ 4 \in 1..(Width(n) + 6)
        /\ 5 \in 1..(Width(n) + 6) /\ Width(n) + 6 \in 1..(Width(n) + 6)
    BY <1>0
  <2> QED BY <1>1, <2>1
<1>3. Items(f, 5, n, Literal)
  <2>1. Width(n) + 6 \in Nat /\ 5 + Width(n) <= Width(n) + 6
    BY <1>0
  <2> QED BY <1>0, <1>1, <2>1, SameItems
<1>4. (5 + Width(n)) + 1 = Width(n) + 6
  BY <1>0
<1>5. Closing(f, 5 + Width(n))
  BY <1>1, <1>2, <1>4 DEF Closing, Begun
<1>6. LiteralsAhead(f, 5, n)
  BY <1>3, <1>5 DEF LiteralsAhead
<1>7. 0 + 1 = 1 /\ 1 + 1 = 2 /\ 1 + 2 = 3 /\ 1 + 3 = 4 /\ 1 + 4 = 5
  OBVIOUS
<1>8. InsertAhead(f, 1)
  BY <1>2, <1>6, <1>7 DEF InsertAhead
<1> QED BY <1>2, <1>7, <1>8 DEF StatementAhead

LEMMA CallBegun ==
    ASSUME NEW s, NEW f, NEW n \in 0..MaxTokens, Begun(s, f), CallPlaces(s, n)
    PROVE  StatementAhead(f, 0)
<1>0. n \in Nat /\ Width(n) \in Nat
  BY Widths, ParserAssumption
<1>1. /\ Len(s) = Width(n) + 4 /\ (\A i \in 1..Len(s) : f[i] = s[i])
      /\ s[1] = Key("select") /\ s[2] = Name
      /\ s[3] = {LParen} /\ Items(s, 3, n, Literal) /\ s[Width(n) + 4] = {RParen}
  BY DEF CallPlaces, Begun
<1>2. f[1] = Key("select") /\ f[2] = Name /\ f[3] = {LParen} /\ f[Width(n) + 4] = {RParen}
  <2>1. /\ 1 \in 1..(Width(n) + 4) /\ 2 \in 1..(Width(n) + 4) /\ 3 \in 1..(Width(n) + 4)
        /\ Width(n) + 4 \in 1..(Width(n) + 4)
    BY <1>0
  <2> QED BY <1>1, <2>1
<1>3. Items(f, 3, n, Literal)
  <2>1. Width(n) + 4 \in Nat /\ 3 + Width(n) <= Width(n) + 4
    BY <1>0
  <2> QED BY <1>0, <1>1, <2>1, SameItems
<1>4. (3 + Width(n)) + 1 = Width(n) + 4
  BY <1>0
<1>5. Closing(f, 3 + Width(n))
  BY <1>1, <1>2, <1>4 DEF Closing, Begun
<1>6. LiteralsAhead(f, 3, n)
  BY <1>3, <1>5 DEF LiteralsAhead
<1>7. 0 + 1 = 1 /\ 1 + 1 = 2 /\ 1 + 2 = 3
  OBVIOUS
<1>8. CallAhead(f, 1)
  BY <1>2, <1>6, <1>7 DEF CallAhead
<1> QED BY <1>2, <1>7, <1>8 DEF StatementAhead

LEMMA TableBegun ==
    ASSUME NEW s, NEW f, NEW n \in 0..MaxTokens, n # 0, Begun(s, f), TablePlaces(s, n)
    PROVE  StatementAhead(f, 0)
<1>0. n \in Nat /\ PairWidth(n) \in Nat /\ n \in 1..MaxTokens
  BY Widths, ParserAssumption
<1>1. /\ Len(s) = PairWidth(n) + 5 /\ (\A i \in 1..Len(s) : f[i] = s[i])
      /\ s[1] = Key("create") /\ s[2] = Key("table") /\ s[3] = Name
      /\ s[4] = {LParen} /\ Columns(s, 4, n) /\ s[PairWidth(n) + 5] = {RParen}
  BY DEF TablePlaces, Begun
<1>2. /\ f[1] = Key("create") /\ f[2] = Key("table") /\ f[3] = Name
      /\ f[4] = {LParen} /\ f[PairWidth(n) + 5] = {RParen}
  <2>1. /\ 1 \in 1..(PairWidth(n) + 5) /\ 2 \in 1..(PairWidth(n) + 5) /\ 3 \in 1..(PairWidth(n) + 5)
        /\ 4 \in 1..(PairWidth(n) + 5) /\ PairWidth(n) + 5 \in 1..(PairWidth(n) + 5)
    BY <1>0
  <2> QED BY <1>1, <2>1
<1>3. Columns(f, 4, n)
  <2>1. PairWidth(n) + 5 \in Nat /\ 4 + PairWidth(n) <= PairWidth(n) + 5
    BY <1>0
  <2> QED BY <1>0, <1>1, <2>1, SameColumns
<1>4. (4 + PairWidth(n)) + 1 = PairWidth(n) + 5
  BY <1>0
<1>5. Closing(f, 4 + PairWidth(n))
  BY <1>1, <1>2, <1>4 DEF Closing, Begun
<1>6. ColumnsAhead(f, 4, n)
  BY <1>3, <1>5 DEF ColumnsAhead
<1>7. 0 + 1 = 1 /\ 1 + 1 = 2 /\ 2 + 1 = 3 /\ 2 + 2 = 4
  OBVIOUS
<1>8. TableAhead(f, 2)
  BY <1>0, <1>2, <1>6, <1>7 DEF TableAhead
<1> QED BY <1>2, <1>7, <1>8 DEF StatementAhead, CreateAhead

LEMMA IndexBegun ==
    ASSUME NEW s, NEW f, Begun(s, f), IndexPlaces(s)
    PROVE  StatementAhead(f, 0)
<1>1. /\ Len(s) = 8 /\ (\A i \in 1..8 : f[i] = s[i]) /\ Done(f, 8)
      /\ s[1] = Key("create") /\ s[2] = Key("index") /\ s[3] = Name /\ s[4] = Key("on")
      /\ s[5] = Name /\ s[6] = {LParen} /\ s[7] = Name /\ s[8] = {RParen}
  BY DEF IndexPlaces, Begun
<1>2. /\ f[1] = Key("create") /\ f[2] = Key("index") /\ f[3] = Name /\ f[4] = Key("on")
      /\ f[5] = Name /\ f[6] = {LParen} /\ f[7] = Name /\ f[8] = {RParen}
  BY <1>1
<1>3. /\ 0 + 1 = 1 /\ 1 + 1 = 2 /\ 2 + 1 = 3 /\ 2 + 2 = 4 /\ 2 + 3 = 5 /\ 2 + 4 = 6 /\ 2 + 5 = 7
      /\ 7 + 1 = 8
  OBVIOUS
<1>4. IndexAhead(f, 2)
  BY <1>1, <1>2, <1>3 DEF IndexAhead, Closing
<1> QED BY <1>2, <1>3, <1>4 DEF StatementAhead, CreateAhead

LEMMA LoadBegun ==
    ASSUME NEW s, NEW f, Begun(s, f), LoadPlaces(s)
    PROVE  StatementAhead(f, 0)
<1>1. /\ Len(s) = 3 /\ (\A i \in 1..3 : f[i] = s[i]) /\ Done(f, 3)
      /\ s[1] = Key("load") /\ s[2] = Key("extension") /\ s[3] = Name
  BY DEF LoadPlaces, Begun
<1>2. f[1] = Key("load") /\ f[2] = Key("extension") /\ f[3] = Name
  BY <1>1
<1>3. 0 + 1 = 1 /\ 1 + 1 = 2 /\ 1 + 2 = 3
  OBVIOUS
<1>4. LoadAhead(f, 1)
  BY <1>1, <1>2, <1>3 DEF LoadAhead
<1> QED BY <1>2, <1>3, <1>4 DEF StatementAhead

LEMMA SelectBegun ==
    ASSUME NEW s, NEW f, NEW n \in 0..MaxTokens, NEW e \in Nat, e >= 2, Begun(s, f), SelectPlaces(s, n, e)
    PROVE  StatementAhead(f, 0)
<1>0. n \in Nat /\ Width(n) \in Nat /\ MaxTokens \in Nat
  BY Widths, ParserAssumption
<1>1. /\ Len(s) \in Nat /\ (\A i \in 1..Len(s) : f[i] = s[i]) /\ Done(f, Len(s))
      /\ s[1] = Key("select") /\ ProjectionPlaces(s, n, e)
      /\ s[e + 1] = Key("from") /\ s[e + 2] = Name
      /\ \/ Len(s) = e + 2
         \/ /\ Len(s) = e + 6
            /\ s[e + 3] = Key("where") /\ s[e + 4] = Name /\ s[e + 5] = {Equals} /\ s[e + 6] = Literal
  BY DEF SelectPlaces, Begun
<1>2. Len(s) >= e + 2
  BY <1>1
<1>3. f[1] = Key("select") /\ f[e + 1] = Key("from") /\ f[e + 2] = Name
  <2>1. 1 \in 1..Len(s) /\ e + 1 \in 1..Len(s) /\ e + 2 \in 1..Len(s)
    BY <1>1, <1>2
  <2> QED BY <1>1, <2>1
<1>4. WhereAhead(f, e + 2)
  <2>1. CASE Len(s) = e + 2
    BY <1>1, <2>1 DEF WhereAhead
  <2>2. CASE /\ Len(s) = e + 6
             /\ s[e + 3] = Key("where") /\ s[e + 4] = Name /\ s[e + 5] = {Equals} /\ s[e + 6] = Literal
    <3>1. e + 3 \in 1..Len(s) /\ e + 4 \in 1..Len(s) /\ e + 5 \in 1..Len(s) /\ e + 6 \in 1..Len(s)
      BY <2>2
    <3>2. f[e + 3] = Key("where") /\ f[e + 4] = Name /\ f[e + 5] = {Equals} /\ f[e + 6] = Literal
      BY <1>1, <2>2, <3>1
    <3>3. (e + 2) + 1 = e + 3 /\ (e + 2) + 2 = e + 4 /\ (e + 2) + 3 = e + 5 /\ (e + 2) + 4 = e + 6
      OBVIOUS
    <3> QED BY <1>1, <2>2, <3>2, <3>3 DEF WhereAhead
  <2> QED BY <1>1, <2>1, <2>2
<1>5. FromAhead(f, e)
  BY <1>3, <1>4 DEF FromAhead
<1>6. QueryAhead(f, 1)
  <2>1. CASE e = 2 /\ s[2] = {Star}
    <3>1. f[2] = {Star} /\ 1 + 1 = 2
      BY <1>1, <1>2, <2>1
    <3> QED BY <1>5, <2>1, <3>1 DEF QueryAhead
  <2>2. CASE n # 0 /\ e = Width(n) + 1 /\ Items(s, 1, n, Name)
    <3>1. 1 + Width(n) <= Len(s) /\ 1 \in Nat /\ n \in 1..MaxTokens /\ 1 + Width(n) = e
      BY <1>0, <1>1, <1>2, <2>2
    <3>2. Items(f, 1, n, Name)
      BY <1>0, <1>1, <2>2, <3>1, SameItems
    <3>3. NamesAhead(f, 1, n)
      BY <1>5, <3>1, <3>2 DEF NamesAhead
    <3> QED BY <3>1, <3>3 DEF QueryAhead
  <2> QED BY <1>1, <2>1, <2>2 DEF ProjectionPlaces
<1>7. 0 + 1 = 1
  OBVIOUS
<1> QED BY <1>3, <1>6, <1>7 DEF StatementAhead

LEMMA GrammarAhead ==
    ASSUME NEW f \in Grammar
    PROVE  f \in Seq(Places) /\ Ahead(f, 0, "statement")
<1>1. PICK n \in 0..MaxTokens, k \in 0..MaxTokens : \E s \in Sentences(n) : f = Whole(s, k)
  BY GrammarIs
<1>2. PICK s \in Sentences(n) : f = Whole(s, k)
  BY <1>1
<1>3. n \in Nat /\ k \in Nat
  BY ParserAssumption
<1>4. ASSUME s \in Seq(Places) PROVE f \in Seq(Places) /\ Begun(s, f)
  <2>1. IsWhole(s, k, f)
    BY <1>2, <1>3, <1>4, WholeFacts
  <2>2. Done(f, Len(s))
    BY <1>3, <1>4, <2>1, DoneBehind
  <2> QED BY <1>4, <2>1, <2>2 DEF IsWhole, Begun
<1>5. CASE s = InsertForm(n)
  BY <1>3, <1>4, <1>5, InsertIs, InsertBegun, OtherAheadIs
<1>6. CASE s = CallForm(n)
  BY <1>3, <1>4, <1>6, CallIs, CallBegun, OtherAheadIs
<1>7. CASE s = IndexForm
  BY <1>4, <1>7, IndexIs, IndexBegun, OtherAheadIs
<1>8. CASE s = LoadForm
  BY <1>4, <1>8, LoadIs, LoadBegun, OtherAheadIs
<1>9. CASE n # 0 /\ s = TableForm(n)
  BY <1>3, <1>4, <1>9, TableIs, TableBegun, OtherAheadIs
<1>10. CASE \E p, w : (p = <<{Star}>> \/ (n > 0 /\ p = List(n, <<Name>>)))
                      /\ (w = << >> \/ w = WhereForm) /\ s = SelectForm(p, w)
  <2>1. PICK p, w : /\ p = <<{Star}>> \/ (n > 0 /\ p = List(n, <<Name>>))
                    /\ w = << >> \/ w = WhereForm
                    /\ s = SelectForm(p, w)
    BY <1>10
  <2>2. IsProjection(p, n)
    BY <1>3, <2>1 DEF IsProjection
  <2>3. s \in Seq(Places) /\ SelectPlaces(s, n, Len(p) + 1)
    BY <1>3, <2>1, <2>2, SelectIs
  <2>4. Len(p) + 1 \in Nat /\ Len(p) + 1 >= 2
    <3>1. n # 0 => Width(n) >= 1
      BY <1>3 DEF Width
    <3> QED BY <1>3, <2>2, <3>1, ProjectionFacts
  <2> QED BY <1>4, <2>3, <2>4, SelectBegun, OtherAheadIs
<1> QED BY <1>2, <1>5, <1>6, <1>7, <1>8, <1>9, <1>10, SentenceKinds


-----------------------------------------------------------------------------
(* The statement as its parts are filled in. *)

Kinds == {"none", "table", "index", "insert", "load", "select", "function"}
LEMMA Fields ==
    ASSUME NEW s \in Statement
    PROVE  /\ s.kind \in Kinds /\ s.name \in Words /\ s.table \in Words /\ s.column \in Words
           /\ s.columns \in Seq(Column) /\ s.values \in Seq(Values)
           /\ s.all \in BOOLEAN /\ s.where \in BOOLEAN
           /\ Len(s.columns) \in Nat /\ Len(s.values) \in Nat
  BY DEF Statement, Kinds

LEMMA NoStatementType == NoStatement \in Statement
<1>1. << >> \in Seq(Column) /\ << >> \in Seq(Values)
  OBVIOUS
<1> QED BY <1>1 DEF NoStatement, Statement, Words

\* n is s, but for the part that is named.
KindSet(s, n, k) ==
    /\ n \in Statement /\ n.kind = k /\ n.name = s.name /\ n.table = s.table /\ n.column = s.column
    /\ n.columns = s.columns /\ n.values = s.values /\ n.all = s.all /\ n.where = s.where
NameSet(s, n, w) ==
    /\ n \in Statement /\ n.kind = s.kind /\ n.name = w /\ n.table = s.table /\ n.column = s.column
    /\ n.columns = s.columns /\ n.values = s.values /\ n.all = s.all /\ n.where = s.where
CallSet(s, n, w) ==
    /\ n \in Statement /\ n.kind = "function" /\ n.name = w
    /\ n.columns = s.columns /\ n.values = s.values /\ n.all = s.all /\ n.where = s.where
TableSet(s, n, w) ==
    /\ n \in Statement /\ n.kind = s.kind /\ n.name = s.name /\ n.table = w /\ n.column = s.column
    /\ n.columns = s.columns /\ n.values = s.values /\ n.all = s.all /\ n.where = s.where
ColumnSet(s, n, w) ==
    /\ n \in Statement /\ n.kind = s.kind /\ n.name = s.name /\ n.table = s.table /\ n.column = w
    /\ n.columns = s.columns /\ n.values = s.values /\ n.all = s.all /\ n.where = s.where
AllSet(s, n) ==
    /\ n \in Statement /\ n.kind = s.kind /\ n.name = s.name /\ n.table = s.table /\ n.column = s.column
    /\ n.columns = s.columns /\ n.values = s.values /\ n.all = TRUE /\ n.where = s.where
WhereSet(s, n) ==
    /\ n \in Statement /\ n.kind = s.kind /\ n.name = s.name /\ n.table = s.table /\ n.column = s.column
    /\ n.columns = s.columns /\ n.values = s.values /\ n.all = s.all /\ n.where = TRUE
ColumnsSet(s, n, cs) ==
    /\ n \in Statement /\ n.kind = s.kind /\ n.name = s.name /\ n.table = s.table /\ n.column = s.column
    /\ n.columns = cs /\ n.values = s.values /\ n.all = s.all /\ n.where = s.where
ValuesSet(s, n, vs) ==
    /\ n \in Statement /\ n.kind = s.kind /\ n.name = s.name /\ n.table = s.table /\ n.column = s.column
    /\ n.columns = s.columns /\ n.values = vs /\ n.all = s.all /\ n.where = s.where

LEMMA WordUpdates ==
    ASSUME NEW s \in Statement, NEW w \in Words
    PROVE  /\ NameSet(s, [s EXCEPT !.name = w], w)
           /\ TableSet(s, [s EXCEPT !.table = w], w)
           /\ ColumnSet(s, [s EXCEPT !.column = w], w)
           /\ CallSet(s, [s EXCEPT !.kind = "function", !.name = w], w)
<1>1. NameSet(s, [s EXCEPT !.name = w], w)
  BY DEF Statement, NameSet
<1>2. TableSet(s, [s EXCEPT !.table = w], w)
  BY DEF Statement, TableSet
<1>3. ColumnSet(s, [s EXCEPT !.column = w], w)
  BY DEF Statement, ColumnSet
<1>4. CallSet(s, [s EXCEPT !.kind = "function", !.name = w], w)
  BY DEF Statement, CallSet
<1> QED BY <1>1, <1>2, <1>3, <1>4

LEMMA FlagUpdates ==
    ASSUME NEW s \in Statement
    PROVE  /\ \A k \in Kinds : KindSet(s, [s EXCEPT !.kind = k], k)
           /\ AllSet(s, [s EXCEPT !.all = TRUE])
           /\ WhereSet(s, [s EXCEPT !.where = TRUE])
<1>1. \A k \in Kinds : KindSet(s, [s EXCEPT !.kind = k], k)
  BY DEF Statement, KindSet, Kinds
<1>2. AllSet(s, [s EXCEPT !.all = TRUE])
  BY DEF Statement, AllSet
<1>3. WhereSet(s, [s EXCEPT !.where = TRUE])
  BY DEF Statement, WhereSet
<1> QED BY <1>1, <1>2, <1>3

\* a is b with x at the end.
Added(S, a, b, x) ==
    /\ a \in Seq(S) /\ Len(a) = Len(b) + 1 /\ \A i \in 1..Len(b) : a[i] = b[i]
    /\ a[Len(b) + 1] = x
LEMMA AppendAdds ==
    ASSUME NEW S, NEW b \in Seq(S), NEW x \in S
    PROVE  Added(S, Append(b, x), b, x)
  BY DEF Added

LEMMA ListUpdates ==
    ASSUME NEW s \in Statement
    PROVE  /\ \A cs \in Seq(Column) : ColumnsSet(s, [s EXCEPT !.columns = cs], cs)
           /\ \A vs \in Seq(Values) : ValuesSet(s, [s EXCEPT !.values = vs], vs)
<1>1. \A cs \in Seq(Column) : ColumnsSet(s, [s EXCEPT !.columns = cs], cs)
  BY DEF Statement, ColumnsSet
<1>2. \A vs \in Seq(Values) : ValuesSet(s, [s EXCEPT !.values = vs], vs)
  BY DEF Statement, ValuesSet
<1> QED BY <1>1, <1>2

\* One more column, its type not yet known; and its type.
NewColumn(s, n, w) ==
    \E cs, x : ColumnsSet(s, n, cs) /\ Added(Column, cs, s.columns, x) /\ x.name = w
LEMMA ColumnUpdate ==
    ASSUME NEW s \in Statement, NEW w \in Words
    PROVE  NewColumn(s, [s EXCEPT !.columns = Append(@, [name |-> w, type |-> ""])], w)
<1> DEFINE x == [name |-> w, type |-> ""]
           cs == Append(s.columns, x)
<1>1. x \in Column /\ x.name = w
  BY DEF Column, Words
<1>2. s.columns \in Seq(Column)
  BY Fields
<1> HIDE DEF x
<1>3. cs \in Seq(Column) /\ Added(Column, cs, s.columns, x)
  BY <1>1, <1>2, AppendAdds DEF Added
<1>4. [s EXCEPT !.columns = Append(@, x)] = [s EXCEPT !.columns = cs]
  BY DEF Statement
<1> HIDE DEF cs
<1>5. ColumnsSet(s, [s EXCEPT !.columns = cs], cs)
  BY <1>3, ListUpdates
<1> QED BY <1>1, <1>3, <1>4, <1>5 DEF NewColumn, x

NewValue(s, n, v) ==
    \E vs : ValuesSet(s, n, vs) /\ Added(Values, vs, s.values, v)
LEMMA ValueUpdate ==
    ASSUME NEW s \in Statement, NEW v \in Values
    PROVE  NewValue(s, [s EXCEPT !.values = Append(@, v)], v)
<1> DEFINE vs == Append(s.values, v)
<1>2. s.values \in Seq(Values)
  BY Fields
<1>3. vs \in Seq(Values) /\ Added(Values, vs, s.values, v)
  BY <1>2, AppendAdds DEF Added
<1>4. [s EXCEPT !.values = Append(@, v)] = [s EXCEPT !.values = vs]
  BY DEF Statement
<1> HIDE DEF vs
<1> QED BY <1>3, <1>4, ListUpdates DEF NewValue

Typed(s, cs, w) ==
    LET c == Len(s.columns)
    IN  /\ Len(cs) = c /\ cs[c].name = s.columns[c].name /\ cs[c].type = w
        /\ \A i \in 1..(c - 1) : cs[i] = s.columns[i]
NewType(s, n, w) == \E cs : ColumnsSet(s, n, cs) /\ Typed(s, cs, w)
LEMMA TypeUpdate ==
    ASSUME NEW s \in Statement, NEW w \in Words, Len(s.columns) >= 1
    PROVE  NewType(s, [s EXCEPT !.columns[Len(s.columns)].type = w], w)
<1> DEFINE c == Len(s.columns)
           cs == [s.columns EXCEPT ![c].type = w]
<1>1. s.columns \in Seq(Column) /\ c \in Nat /\ c >= 1
  BY Fields
<1>2. s.columns[c] \in Column
  BY <1>1
<1>3. cs \in Seq(Column) /\ Len(cs) = c
  BY <1>1, <1>2 DEF Column
<1>4. cs[c].name = s.columns[c].name /\ cs[c].type = w
  BY <1>1, <1>2 DEF Column
<1>5. \A i \in 1..(c - 1) : cs[i] = s.columns[i]
  BY <1>1
<1>6. [s EXCEPT !.columns[Len(s.columns)].type = w] = [s EXCEPT !.columns = cs]
  BY DEF Statement
<1> HIDE DEF cs
<1>7. Typed(s, cs, w)
  BY <1>3, <1>4, <1>5 DEF Typed
<1> QED BY <1>3, <1>6, <1>7, ListUpdates DEF NewType

-----------------------------------------------------------------------------
(* What the parser has behind it, from one place to the next. *)

LEMMA TableBehindIs ==
    ASSUME NEW R, NEW s
    PROVE  LET c == Len(s.columns)
               Open == TableOpen(R, s) /\ c >= 1 /\ Len(R) = 3 * c + 3
                         /\ ColumnsSaid(R, s, c) /\ ColumnCommas(R, c - 1)
           IN  /\ Behind(R, s, "tableName") <=> Len(R) = 2 /\ TableHead(R, s) /\ c = 0
               /\ Behind(R, s, "columnsOpen") <=> Len(R) = 3 /\ TableHead(R, s) /\ Says(R, 3, s.table) /\ c = 0
               /\ Behind(R, s, "columnName") <=>
                    /\ Len(R) = 3 * c + 4 /\ TableOpen(R, s)
                    /\ ColumnsSaid(R, s, c) /\ ColumnCommas(R, c)
               /\ Behind(R, s, "columnType") <=>
                    /\ c >= 1 /\ Len(R) = 3 * c + 2 /\ TableOpen(R, s)
                    /\ ColumnsSaid(R, s, c - 1) /\ ColumnCommas(R, c - 1)
                    /\ Says(R, 3 * c + 2, s.columns[c].name)
               /\ Behind(R, s, "columnsMore") <=> Open
               /\ Behind(R, s, "columnsClose") <=> Open
  BY DEF Behind, TableBehind, IndexBehind, InsertBehind, LiteralsBehind, SelectBehind, OtherBehind

LEMMA IndexBehindIs ==
    ASSUME NEW R, NEW s
    PROVE  /\ Behind(R, s, "indexName") <=> Len(R) = 2 /\ IndexHead(R, s)
           /\ Behind(R, s, "on") <=> Len(R) = 3 /\ IndexHead(R, s) /\ Says(R, 3, s.name)
           /\ Behind(R, s, "indexTable") <=> Len(R) = 4 /\ IndexOn(R, s)
           /\ Behind(R, s, "indexOpen") <=> Len(R) = 5 /\ IndexOn(R, s) /\ Says(R, 5, s.table)
           /\ Behind(R, s, "indexColumn") <=>
                Len(R) = 6 /\ IndexOn(R, s) /\ Says(R, 5, s.table) /\ R[6] = LParen
           /\ Behind(R, s, "indexClose") <=>
                Len(R) = 7 /\ IndexOn(R, s) /\ Says(R, 5, s.table) /\ R[6] = LParen /\ Says(R, 7, s.column)
  BY DEF Behind, TableBehind, IndexBehind, InsertBehind, LiteralsBehind, SelectBehind, OtherBehind

\* The literals up to a comma, and up to a literal, of the list that follows place b.
ListBehind(R, s, b) ==
    Len(R) = 2 * Len(s.values) + b /\ Opened(R, s, b) /\ ValuesSaid(R, s, b) /\ ValueCommas(R, b, Len(s.values))
ListMore(R, s, b) ==
    /\ Len(s.values) >= 1 /\ Len(R) = 2 * Len(s.values) - 1 + b /\ Opened(R, s, b)
    /\ ValuesSaid(R, s, b) /\ ValueCommas(R, b, Len(s.values) - 1)
LEMMA InsertBehindIs ==
    ASSUME NEW R, NEW s
    PROVE  /\ Behind(R, s, "into") <=> Len(R) = 1 /\ InsertHead(R, s) /\ Len(s.values) = 0
           /\ Behind(R, s, "insertTable") <=>
                Len(R) = 2 /\ InsertHead(R, s) /\ Says(R, 2, "into") /\ Len(s.values) = 0
           /\ Behind(R, s, "values") <=> Len(R) = 3 /\ InsertInto(R, s) /\ Len(s.values) = 0
           /\ Behind(R, s, "valuesOpen") <=>
                Len(R) = 4 /\ InsertInto(R, s) /\ Says(R, 4, "values") /\ Len(s.values) = 0
           /\ Behind(R, s, "literals") <=> Len(s.values) = 0 /\ Opened(R, s, Len(R))
           /\ Behind(R, s, "literal") <=> \E b \in {3, 5} : ListBehind(R, s, b)
           /\ Behind(R, s, "literalsMore") <=> \E b \in {3, 5} : ListMore(R, s, b)
           /\ Behind(R, s, "literalsClose") <=> \E b \in {3, 5} : ListMore(R, s, b)
  BY DEF Behind, TableBehind, IndexBehind, InsertBehind, LiteralsBehind, SelectBehind, OtherBehind,
         ListBehind, ListMore

SelectBegan(R, s) == Len(R) = 1 /\ SelectHead(R, s) /\ NoValues(s) /\ Len(s.columns) = 0 /\ ~s.all
LEMMA SelectBehindIs ==
    ASSUME NEW R, NEW s
    PROVE  LET c == Len(s.columns)
               n == Len(R)
           IN  /\ Behind(R, s, "select") <=> SelectBegan(R, s)
               /\ Behind(R, s, "projection") <=> SelectBegan(R, s)
               /\ Behind(R, s, "function") <=> SelectBegan(R, s)
               /\ Behind(R, s, "functionOpen") <=> n = 2 /\ CallHead(R, s) /\ Len(s.values) = 0
               /\ Behind(R, s, "selected") <=>
                    /\ n = 2 * c + 1 /\ SelectHead(R, s) /\ NoValues(s) /\ ~s.all
                    /\ NamesSaid(R, s) /\ NameCommas(R, c)
               /\ Behind(R, s, "selectedMore") <=>
                    /\ n = 2 * c /\ SelectHead(R, s) /\ NoValues(s) /\ ~s.all
                    /\ c >= 1 /\ NamesSaid(R, s) /\ NameCommas(R, c - 1)
               /\ Behind(R, s, "from") <=> SelectHead(R, s) /\ NoValues(s) /\ ProjectionSaid(R, s, n)
               /\ Behind(R, s, "selectTable") <=>
                    /\ SelectHead(R, s) /\ NoValues(s) /\ ProjectionSaid(R, s, n - 1)
                    /\ Says(R, n, "from")
  BY DEF Behind, TableBehind, IndexBehind, InsertBehind, LiteralsBehind, SelectBehind, OtherBehind,
         SelectBegan

LEMMA WhereBehindIs ==
    ASSUME NEW R, NEW s
    PROVE  LET n == Len(R)
           IN  /\ Behind(R, s, "where") <=> FromSaid(R, s, n) /\ NoValues(s)
               /\ Behind(R, s, "predicate") <=>
                    FromSaid(R, s, n - 1) /\ Says(R, n, "where") /\ s.where /\ Len(s.values) = 0
               /\ Behind(R, s, "equals") <=>
                    /\ FromSaid(R, s, n - 2) /\ Says(R, n - 1, "where") /\ Says(R, n, s.column)
                    /\ s.where /\ Len(s.values) = 0
               /\ Behind(R, s, "predicateValue") <=>
                    /\ FromSaid(R, s, n - 3) /\ Says(R, n - 2, "where") /\ Says(R, n - 1, s.column)
                    /\ R[n] = Equals /\ s.where /\ Len(s.values) = 0
  BY DEF Behind, TableBehind, IndexBehind, InsertBehind, LiteralsBehind, SelectBehind, OtherBehind

LEMMA OtherBehindIs ==
    ASSUME NEW R, NEW s
    PROVE  /\ Behind(R, s, "statement") <=> Len(R) = 0 /\ s = NoStatement
           /\ Behind(R, s, "create") <=> Len(R) = 1 /\ Says(R, 1, "create") /\ s = NoStatement
           /\ Behind(R, s, "extension") <=> Len(R) = 1 /\ s.kind = "load" /\ Says(R, 1, "load")
           /\ Behind(R, s, "extensionName") <=>
                Len(R) = 2 /\ s.kind = "load" /\ Says(R, 1, "load") /\ Says(R, 2, "extension")
           /\ Behind(R, s, "finish") <=>
                \E e \in 1..Len(R) : Said(R, s, e) /\ \A i \in (e + 1)..Len(R) : R[i] = Semicolon
  BY DEF Behind, TableBehind, IndexBehind, InsertBehind, LiteralsBehind, SelectBehind, OtherBehind

\* What was behind is behind still, and t as well.
Kept(R, t, Q) ==
    /\ Len(R) \in Nat /\ Len(Q) = Len(R) + 1 /\ Q[Len(R) + 1] = t
    /\ \A i \in 1..Len(R) : Q[i] = R[i]
    /\ \A w : \A i \in 1..Len(R) : Says(R, i, w) => Says(Q, i, w)
    /\ \A v : \A i \in 1..Len(R) : Means(R, i, v) => Means(Q, i, v)
    /\ t \in Name => Says(Q, Len(R) + 1, Lower[t.word])
    /\ \A w : t \in Key(w) => Says(Q, Len(R) + 1, w)
LEMMA AddedKept ==
    ASSUME NEW R \in Seq(Tokens), NEW t, NEW Q, Added(Tokens, Q, R, t)
    PROVE  Kept(R, t, Q)
<1>1. Len(R) \in Nat
  OBVIOUS
<1>2. Len(Q) = Len(R) + 1 /\ Q[Len(R) + 1] = t /\ \A i \in 1..Len(R) : Q[i] = R[i]
  BY DEF Added
<1>3. /\ \A w : \A i \in 1..Len(R) : Says(R, i, w) => Says(Q, i, w)
      /\ t \in Name => Says(Q, Len(R) + 1, Lower[t.word])
  BY <1>2 DEF Says, Name
<1>4. \A v : \A i \in 1..Len(R) : Means(R, i, v) => Means(Q, i, v)
  BY <1>2 DEF Means
<1>5. \A w : t \in Key(w) => Says(Q, Len(R) + 1, w)
  BY <1>3, Tells
<1> QED BY <1>1, <1>2, <1>3, <1>4, <1>5 DEF Kept

\* The columns of CREATE TABLE that were read are read still.
LEMMA ColumnsKept ==
    ASSUME NEW R, NEW t, NEW Q, Kept(R, t, Q), NEW s, NEW n, NEW m \in Nat,
           \A i \in 1..m : n.columns[i] = s.columns[i]
    PROVE  /\ ColumnsSaid(R, s, m) /\ 3 * m + 3 <= Len(R) => ColumnsSaid(Q, n, m)
           /\ ColumnCommas(R, m) /\ 3 * m + 4 <= Len(R) => ColumnCommas(Q, m)
<1>0. Len(R) \in Nat
  BY DEF Kept
<1>1. ASSUME ColumnsSaid(R, s, m), 3 * m + 3 <= Len(R) PROVE ColumnsSaid(Q, n, m)
  <2> SUFFICES ASSUME NEW i \in 1..m
               PROVE  /\ Says(Q, 3 * i + 2, n.columns[i].name) /\ Says(Q, 3 * i + 3, n.columns[i].type)
                      /\ n.columns[i].type \in TypeNames
    BY DEF ColumnsSaid
  <2>1. 3 * i + 2 \in 1..Len(R) /\ 3 * i + 3 \in 1..Len(R)
    BY <1>0, <1>1
  <2>2. /\ Says(R, 3 * i + 2, s.columns[i].name) /\ Says(R, 3 * i + 3, s.columns[i].type)
        /\ s.columns[i].type \in TypeNames
    BY <1>1 DEF ColumnsSaid
  <2> QED BY <2>1, <2>2 DEF Kept
<1>2. ASSUME ColumnCommas(R, m), 3 * m + 4 <= Len(R) PROVE ColumnCommas(Q, m)
  <2> SUFFICES ASSUME NEW i \in 1..m PROVE Q[3 * i + 4] = Comma
    BY DEF ColumnCommas
  <2>1. 3 * i + 4 \in 1..Len(R)
    BY <1>0, <1>2
  <2> QED BY <1>2, <2>1 DEF Kept, ColumnCommas
<1> QED BY <1>1, <1>2

LEMMA TableKept ==
    ASSUME NEW R, NEW t, NEW Q, Kept(R, t, Q), NEW s, NEW n, n.kind = s.kind
    PROVE  /\ TableHead(R, s) /\ Len(R) >= 2 => TableHead(Q, n)
           /\ TableOpen(R, s) /\ Len(R) >= 4 /\ n.table = s.table => TableOpen(Q, n)
<1>0. Len(R) \in Nat
  BY DEF Kept
<1>1. ASSUME TableHead(R, s), Len(R) >= 2 PROVE TableHead(Q, n)
  <2>1. 1 \in 1..Len(R) /\ 2 \in 1..Len(R)
    BY <1>0, <1>1
  <2> QED BY <1>1, <2>1 DEF TableHead, Kept
<1>2. ASSUME TableOpen(R, s), Len(R) >= 4, n.table = s.table PROVE TableOpen(Q, n)
  <2>1. 3 \in 1..Len(R) /\ 4 \in 1..Len(R)
    BY <1>0, <1>2
  <2>2. TableHead(R, s) /\ Says(R, 3, s.table) /\ R[4] = LParen
    BY <1>2 DEF TableOpen
  <2>3. TableHead(Q, n)
    BY <1>0, <1>1, <1>2, <2>2
  <2> QED BY <1>2, <2>1, <2>2, <2>3 DEF TableOpen, Kept
<1> QED BY <1>1, <1>2

\* A statement whose last token was just read is whole.
LEMMA JustSaid ==
    ASSUME NEW R, NEW t, NEW Q, Kept(R, t, Q), NEW n, Said(Q, n, Len(Q))
    PROVE  Behind(Q, n, "finish")
<1>1. Len(Q) \in 1..Len(Q) /\ \A i \in (Len(Q) + 1)..Len(Q) : FALSE
  BY DEF Kept
<1> QED BY <1>1, OtherBehindIs

\* parse_create_table: t is the token looked at.
LEMMA TableBehindStep ==
    ASSUME NEW R, NEW t, NEW Q, Kept(R, t, Q), NEW s \in Statement
    PROVE  /\ Behind(R, s, "tableName") /\ t \in Name =>
                \A n : TableSet(s, n, Lower[t.word]) => Behind(Q, n, "columnsOpen")
           /\ Behind(R, s, "columnsOpen") /\ t = LParen => Behind(Q, s, "columnName")
           /\ Behind(R, s, "columnName") /\ t \in Name =>
                \A n : NewColumn(s, n, Lower[t.word]) => Behind(Q, n, "columnType")
           /\ Behind(R, s, "columnType") /\ t \in Type =>
                \A n : NewType(s, n, Lower[t.word]) => Behind(Q, n, "columnsMore")
           /\ Behind(R, s, "columnsMore") /\ t = Comma => Behind(Q, s, "columnName")
           /\ Behind(R, s, "columnsMore") => Behind(R, s, "columnsClose")
           /\ Behind(R, s, "columnsClose") /\ t = RParen => Behind(Q, s, "finish")
<1> DEFINE c == Len(s.columns)
           w == Lower[t.word]
<1>0. c \in Nat /\ Len(R) \in Nat /\ Len(Q) = Len(R) + 1 /\ Q[Len(R) + 1] = t
  BY Fields DEF Kept
<1>k. TableHead(R, s) => s.kind = "table"
  BY DEF TableHead
<1> HIDE DEF c
<1>1. ASSUME Behind(R, s, "tableName"), t \in Name, NEW n, TableSet(s, n, w)
      PROVE  Behind(Q, n, "columnsOpen")
  <2>1. Len(R) = 2 /\ TableHead(R, s) /\ Len(s.columns) = 0
    BY <1>1, TableBehindIs
  <2>2. n.kind = s.kind /\ n.table = w /\ n.columns = s.columns
    BY <1>1 DEF TableSet
  <2>3. TableHead(Q, n)
    <3>1. Len(R) >= 2
      BY <2>1
    <3> QED BY <2>1, <2>2, <3>1, TableKept
  <2>4. Len(Q) = 3 /\ Says(Q, 3, w)
    BY <1>0, <1>1, <2>1 DEF Kept
  <2> QED BY <2>1, <2>2, <2>3, <2>4, TableBehindIs
<1>2. ASSUME Behind(R, s, "columnsOpen"), t = LParen PROVE Behind(Q, s, "columnName")
  <2>1. Len(R) = 3 /\ TableHead(R, s) /\ Says(R, 3, s.table) /\ Len(s.columns) = 0
    BY <1>2, TableBehindIs
  <2>2. Len(Q) = 4 /\ Q[4] = LParen /\ TableHead(Q, s)
    BY <1>0, <1>2, <2>1, TableKept
  <2>3. 3 \in 1..Len(R)
    BY <2>1
  <2>4. TableOpen(Q, s)
    BY <2>1, <2>2, <2>3 DEF TableOpen, Kept
  <2>5. ColumnsSaid(Q, s, Len(s.columns)) /\ ColumnCommas(Q, Len(s.columns))
    BY <2>1 DEF ColumnsSaid, ColumnCommas
  <2>6. Len(Q) = 3 * Len(s.columns) + 4
    BY <2>1, <2>2
  <2> QED BY <2>4, <2>5, <2>6, TableBehindIs
<1>3. ASSUME Behind(R, s, "columnName"), t \in Name, NEW n, NewColumn(s, n, w)
      PROVE  Behind(Q, n, "columnType")
  <2>1. Len(R) = 3 * c + 4 /\ TableOpen(R, s) /\ ColumnsSaid(R, s, c) /\ ColumnCommas(R, c)
    BY <1>3, TableBehindIs DEF c
  <2>2. PICK cs, x : ColumnsSet(s, n, cs) /\ Added(Column, cs, s.columns, x) /\ x.name = w
    BY <1>3 DEF NewColumn
  <2>3. n.kind = s.kind /\ n.table = s.table /\ n.columns = cs
    BY <2>2 DEF ColumnsSet
  <2>4. Len(cs) = c + 1 /\ (\A i \in 1..c : cs[i] = s.columns[i]) /\ cs[c + 1].name = w
    BY <2>2 DEF Added, c
  <2>5. TableOpen(Q, n)
    BY <1>0, <2>1, <2>3, TableKept
  <2>6. ColumnsSaid(Q, n, c) /\ ColumnCommas(Q, c)
    <3>1. \A i \in 1..c : n.columns[i] = s.columns[i]
      BY <2>3, <2>4
    <3>2. 3 * c + 3 <= Len(R) /\ 3 * c + 4 <= Len(R)
      BY <1>0, <2>1
    <3> QED BY <1>0, <2>1, <3>1, <3>2, ColumnsKept
  <2>7. Says(Q, Len(R) + 1, w)
    BY <1>3 DEF Kept
  <2>8. Len(n.columns) = c + 1 /\ (c + 1) - 1 = c /\ c + 1 >= 1 /\ Len(R) + 1 = 3 * (c + 1) + 2
    BY <1>0, <2>1, <2>3, <2>4
  <2> QED BY <1>0, <2>3, <2>4, <2>5, <2>6, <2>7, <2>8, TableBehindIs
<1>4. ASSUME Behind(R, s, "columnType"), t \in Type, NEW n, NewType(s, n, w)
      PROVE  Behind(Q, n, "columnsMore")
  <2>1. /\ c >= 1 /\ Len(R) = 3 * c + 2 /\ TableOpen(R, s)
        /\ ColumnsSaid(R, s, c - 1) /\ ColumnCommas(R, c - 1) /\ Says(R, 3 * c + 2, s.columns[c].name)
    BY <1>4, TableBehindIs DEF c
  <2>2. PICK cs : ColumnsSet(s, n, cs) /\ Typed(s, cs, w)
    BY <1>4 DEF NewType
  <2>3. n.kind = s.kind /\ n.table = s.table /\ n.columns = cs
    BY <2>2 DEF ColumnsSet
  <2>4. /\ Len(cs) = c /\ cs[c].name = s.columns[c].name /\ cs[c].type = w
        /\ \A i \in 1..(c - 1) : cs[i] = s.columns[i]
    BY <2>2 DEF Typed, c
  <2>5. TableOpen(Q, n)
    BY <1>0, <2>1, <2>3, TableKept
  <2>6. ColumnsSaid(Q, n, c - 1) /\ ColumnCommas(Q, c - 1)
    <3>1. \A i \in 1..(c - 1) : n.columns[i] = s.columns[i]
      BY <2>3, <2>4
    <3>2. c - 1 \in Nat /\ 3 * (c - 1) + 3 <= Len(R) /\ 3 * (c - 1) + 4 <= Len(R)
      BY <1>0, <2>1
    <3> QED BY <1>0, <2>1, <3>1, <3>2, ColumnsKept
  <2>7. Says(Q, 3 * c + 2, cs[c].name) /\ Says(Q, 3 * c + 3, cs[c].type) /\ cs[c].type \in TypeNames
    <3>1. t \in Name /\ w \in TypeNames
      BY <1>4, Tells
    <3>2. 3 * c + 2 \in 1..Len(R) /\ 3 * c + 3 = Len(R) + 1
      BY <1>0, <2>1
    <3> QED BY <2>1, <2>4, <3>1, <3>2 DEF Kept
  <2>8. ColumnsSaid(Q, n, c)
    <3>1. \A i \in 1..c : i \in 1..(c - 1) \/ i = c
      BY <1>0
    <3> QED BY <2>3, <2>6, <2>7, <3>1 DEF ColumnsSaid
  <2>9. Len(Q) = 3 * c + 3
    BY <1>0, <2>1
  <2> QED BY <2>1, <2>3, <2>4, <2>5, <2>6, <2>8, <2>9, TableBehindIs
<1>5. ASSUME Behind(R, s, "columnsMore") \/ Behind(R, s, "columnsClose")
      PROVE  /\ c >= 1 /\ Len(R) = 3 * c + 3 /\ TableOpen(Q, s)
             /\ ColumnsSaid(Q, s, c) /\ ColumnCommas(Q, c - 1)
  <2>1. /\ c >= 1 /\ Len(R) = 3 * c + 3 /\ TableOpen(R, s)
        /\ ColumnsSaid(R, s, c) /\ ColumnCommas(R, c - 1)
    BY <1>5, TableBehindIs DEF c
  <2>2. c - 1 \in Nat /\ 3 * c + 3 <= Len(R) /\ 3 * (c - 1) + 4 <= Len(R) /\ Len(R) >= 4
    BY <1>0, <2>1
  <2>3. TableOpen(Q, s)
    BY <2>1, <2>2, TableKept
  <2>4. ColumnsSaid(Q, s, c)
    BY <1>0, <2>1, <2>2, ColumnsKept
  <2>5. ColumnCommas(Q, c - 1)
    BY <2>1, <2>2, ColumnsKept
  <2> QED BY <2>1, <2>3, <2>4, <2>5
<1>6. ASSUME Behind(R, s, "columnsMore"), t = Comma PROVE Behind(Q, s, "columnName")
  <2>1. Len(Q) = 3 * c + 4 /\ Q[3 * c + 4] = Comma
    BY <1>0, <1>5, <1>6
  <2>2. \A i \in 1..c : i \in 1..(c - 1) \/ i = c
    BY <1>0
  <2>3. ColumnCommas(Q, c)
    BY <1>5, <1>6, <2>1, <2>2 DEF ColumnCommas
  <2> QED BY <1>5, <1>6, <2>1, <2>3, TableBehindIs DEF c
<1>7. Behind(R, s, "columnsMore") => Behind(R, s, "columnsClose")
  BY TableBehindIs
<1>8. ASSUME Behind(R, s, "columnsClose"), t = RParen PROVE Behind(Q, s, "finish")
  <2>1. Len(Q) = 3 * c + 4 /\ Q[Len(Q)] = RParen
    BY <1>0, <1>5, <1>8
  <2>2. TableSaid(Q, s, Len(Q))
    BY <1>5, <1>8, <2>1 DEF TableSaid, c
  <2> QED BY <2>2, JustSaid DEF Said
<1> QED BY <1>1, <1>2, <1>3, <1>4, <1>6, <1>7, <1>8

\* parse_create_index.
LEMMA IndexKept ==
    ASSUME NEW R, NEW t, NEW Q, Kept(R, t, Q), NEW s, NEW n, n.kind = s.kind
    PROVE  /\ IndexHead(R, s) /\ Len(R) >= 2 => IndexHead(Q, n)
           /\ IndexOn(R, s) /\ Len(R) >= 4 /\ n.name = s.name => IndexOn(Q, n)
<1>0. Len(R) \in Nat
  BY DEF Kept
<1>1. ASSUME IndexHead(R, s), Len(R) >= 2 PROVE IndexHead(Q, n)
  <2>1. 1 \in 1..Len(R) /\ 2 \in 1..Len(R)
    BY <1>0, <1>1
  <2> QED BY <1>1, <2>1 DEF IndexHead, Kept
<1>2. ASSUME IndexOn(R, s), Len(R) >= 4, n.name = s.name PROVE IndexOn(Q, n)
  <2>1. 3 \in 1..Len(R) /\ 4 \in 1..Len(R)
    BY <1>0, <1>2
  <2>2. IndexHead(R, s) /\ Says(R, 3, s.name) /\ Says(R, 4, "on")
    BY <1>2 DEF IndexOn
  <2>3. IndexHead(Q, n)
    BY <1>0, <1>1, <1>2, <2>2
  <2> QED BY <1>2, <2>1, <2>2, <2>3 DEF IndexOn, Kept
<1> QED BY <1>1, <1>2

LEMMA IndexBehindStep ==
    ASSUME NEW R, NEW t, NEW Q, Kept(R, t, Q), NEW s \in Statement
    PROVE  /\ Behind(R, s, "indexName") /\ t \in Name =>
                \A n : NameSet(s, n, Lower[t.word]) => Behind(Q, n, "on")
           /\ Behind(R, s, "on") /\ t \in Key("on") => Behind(Q, s, "indexTable")
           /\ Behind(R, s, "indexTable") /\ t \in Name =>
                \A n : TableSet(s, n, Lower[t.word]) => Behind(Q, n, "indexOpen")
           /\ Behind(R, s, "indexOpen") /\ t = LParen => Behind(Q, s, "indexColumn")
           /\ Behind(R, s, "indexColumn") /\ t \in Name =>
                \A n : ColumnSet(s, n, Lower[t.word]) => Behind(Q, n, "indexClose")
           /\ Behind(R, s, "indexClose") /\ t = RParen => Behind(Q, s, "finish")
<1> DEFINE w == Lower[t.word]
<1>0. Len(R) \in Nat /\ Len(Q) = Len(R) + 1 /\ Q[Len(R) + 1] = t
  BY DEF Kept
<1>1. ASSUME Behind(R, s, "indexName"), t \in Name, NEW n, NameSet(s, n, w)
      PROVE  Behind(Q, n, "on")
  <2>1. Len(R) = 2 /\ IndexHead(R, s)
    BY <1>1, IndexBehindIs
  <2>2. n.kind = s.kind /\ n.name = w
    BY <1>1 DEF NameSet
  <2>3. IndexHead(Q, n)
    BY <2>1, <2>2, IndexKept
  <2>4. Len(Q) = 3 /\ Says(Q, 3, w)
    BY <1>0, <1>1, <2>1 DEF Kept
  <2> QED BY <2>2, <2>3, <2>4, IndexBehindIs
<1>2. ASSUME Behind(R, s, "on"), t \in Key("on") PROVE Behind(Q, s, "indexTable")
  <2>1. Len(R) = 3 /\ IndexHead(R, s) /\ Says(R, 3, s.name)
    BY <1>2, IndexBehindIs
  <2>2. IndexHead(Q, s)
    BY <2>1, IndexKept
  <2>3. Len(Q) = 4 /\ Says(Q, 4, "on") /\ 3 \in 1..Len(R)
    BY <1>0, <1>2, <2>1 DEF Kept
  <2>4. Says(Q, 3, s.name)
    BY <2>1, <2>3 DEF Kept
  <2> QED BY <2>2, <2>3, <2>4, IndexBehindIs DEF IndexOn
<1>3. ASSUME Behind(R, s, "indexTable"), t \in Name, NEW n, TableSet(s, n, w)
      PROVE  Behind(Q, n, "indexOpen")
  <2>1. Len(R) = 4 /\ IndexOn(R, s)
    BY <1>3, IndexBehindIs
  <2>2. n.kind = s.kind /\ n.name = s.name /\ n.table = w
    BY <1>3 DEF TableSet
  <2>3. IndexOn(Q, n)
    <3>1. Len(R) >= 4
      BY <2>1
    <3> QED BY <2>1, <2>2, <3>1, IndexKept
  <2>4. Len(Q) = 5 /\ Says(Q, 5, w)
    BY <1>0, <1>3, <2>1 DEF Kept
  <2> QED BY <2>2, <2>3, <2>4, IndexBehindIs
<1>4. ASSUME Behind(R, s, "indexOpen"), t = LParen PROVE Behind(Q, s, "indexColumn")
  <2>1. Len(R) = 5 /\ IndexOn(R, s) /\ Says(R, 5, s.table)
    BY <1>4, IndexBehindIs
  <2>2. IndexOn(Q, s)
    <3>1. Len(R) >= 4
      BY <2>1
    <3> QED BY <2>1, <3>1, IndexKept
  <2>3. Len(Q) = 6 /\ Q[6] = LParen /\ 5 \in 1..Len(R)
    BY <1>0, <1>4, <2>1
  <2>4. Says(Q, 5, s.table)
    BY <2>1, <2>3 DEF Kept
  <2> QED BY <2>2, <2>3, <2>4, IndexBehindIs
<1>5. ASSUME Behind(R, s, "indexColumn"), t \in Name, NEW n, ColumnSet(s, n, w)
      PROVE  Behind(Q, n, "indexClose")
  <2>1. Len(R) = 6 /\ IndexOn(R, s) /\ Says(R, 5, s.table) /\ R[6] = LParen
    BY <1>5, IndexBehindIs
  <2>2. n.kind = s.kind /\ n.name = s.name /\ n.table = s.table /\ n.column = w
    BY <1>5 DEF ColumnSet
  <2>3. IndexOn(Q, n)
    <3>1. Len(R) >= 4
      BY <2>1
    <3> QED BY <2>1, <2>2, <3>1, IndexKept
  <2>4. Len(Q) = 7 /\ Says(Q, 7, w) /\ 5 \in 1..Len(R) /\ 6 \in 1..Len(R)
    BY <1>0, <1>5, <2>1 DEF Kept
  <2>5. Says(Q, 5, s.table) /\ Q[6] = LParen
    BY <2>1, <2>4 DEF Kept
  <2> QED BY <2>2, <2>3, <2>4, <2>5, IndexBehindIs
<1>6. ASSUME Behind(R, s, "indexClose"), t = RParen PROVE Behind(Q, s, "finish")
  <2>1. Len(R) = 7 /\ IndexOn(R, s) /\ Says(R, 5, s.table) /\ R[6] = LParen /\ Says(R, 7, s.column)
    BY <1>6, IndexBehindIs
  <2>2. IndexOn(Q, s)
    <3>1. Len(R) >= 4
      BY <2>1
    <3> QED BY <2>1, <3>1, IndexKept
  <2>3. Len(Q) = 8 /\ Q[8] = RParen /\ 5 \in 1..Len(R) /\ 6 \in 1..Len(R) /\ 7 \in 1..Len(R)
    BY <1>0, <1>6, <2>1
  <2>4. Says(Q, 5, s.table) /\ Q[6] = LParen /\ Says(Q, 7, s.column)
    BY <2>1, <2>3 DEF Kept
  <2>5. IndexSaid(Q, s, Len(Q))
    BY <2>2, <2>3, <2>4 DEF IndexSaid
  <2> QED BY <2>5, JustSaid DEF Said
<1> QED BY <1>1, <1>2, <1>3, <1>4, <1>5, <1>6

\* parse_insert, parse_select_function, and their list of literals.
LEMMA InsertKept ==
    ASSUME NEW R, NEW t, NEW Q, Kept(R, t, Q), NEW s, NEW n, n.kind = s.kind
    PROVE  /\ InsertHead(R, s) /\ Len(R) >= 1 => InsertHead(Q, n)
           /\ InsertInto(R, s) /\ Len(R) >= 3 /\ n.table = s.table => InsertInto(Q, n)
           /\ CallHead(R, s) /\ Len(R) >= 2 /\ n.name = s.name => CallHead(Q, n)
<1>0. Len(R) \in Nat
  BY DEF Kept
<1>1. ASSUME InsertHead(R, s), Len(R) >= 1 PROVE InsertHead(Q, n)
  <2>1. 1 \in 1..Len(R)
    BY <1>0, <1>1
  <2> QED BY <1>1, <2>1 DEF InsertHead, Kept
<1>2. ASSUME InsertInto(R, s), Len(R) >= 3, n.table = s.table PROVE InsertInto(Q, n)
  <2>1. 2 \in 1..Len(R) /\ 3 \in 1..Len(R) /\ Len(R) >= 1
    BY <1>0, <1>2
  <2>2. InsertHead(R, s) /\ Says(R, 2, "into") /\ Says(R, 3, s.table)
    BY <1>2 DEF InsertInto
  <2>3. InsertHead(Q, n)
    BY <1>1, <2>1, <2>2
  <2> QED BY <1>2, <2>1, <2>2, <2>3 DEF InsertInto, Kept
<1>3. ASSUME CallHead(R, s), Len(R) >= 2, n.name = s.name PROVE CallHead(Q, n)
  <2>1. 1 \in 1..Len(R) /\ 2 \in 1..Len(R)
    BY <1>0, <1>3
  <2> QED BY <1>3, <2>1 DEF CallHead, Kept
<1> QED BY <1>1, <1>2, <1>3

LEMMA OpenedKept ==
    ASSUME NEW R, NEW t, NEW Q, Kept(R, t, Q), NEW s, NEW n, NEW b \in {3, 5},
           n.kind = s.kind, n.table = s.table, n.name = s.name, Opened(R, s, b), b <= Len(R)
    PROVE  Opened(Q, n, b)
<1>0. Len(R) \in Nat /\ b \in 1..Len(R)
  BY DEF Kept
<1>1. CASE b = 5 /\ InsertInto(R, s) /\ Says(R, 4, "values") /\ R[5] = LParen
  <2>1. 4 \in 1..Len(R) /\ 5 \in 1..Len(R) /\ Len(R) >= 3
    BY <1>0, <1>1
  <2>2. InsertInto(Q, n)
    BY <1>1, <2>1, InsertKept
  <2>3. Says(Q, 4, "values") /\ Q[5] = LParen
    BY <1>1, <2>1 DEF Kept
  <2> QED BY <1>1, <2>2, <2>3 DEF Opened
<1>2. CASE b = 3 /\ CallHead(R, s) /\ R[3] = LParen
  <2>1. 3 \in 1..Len(R) /\ Len(R) >= 2
    BY <1>0, <1>2
  <2>2. CallHead(Q, n)
    BY <1>2, <2>1, InsertKept
  <2>3. Q[3] = LParen
    BY <1>2, <2>1 DEF Kept
  <2> QED BY <1>2, <2>2, <2>3 DEF Opened
<1> QED BY <1>1, <1>2 DEF Opened

LEMMA ValuesKept ==
    ASSUME NEW R, NEW t, NEW Q, Kept(R, t, Q), NEW s, NEW b \in Nat, NEW m \in Nat
    PROVE  /\ ValuesSaid(R, s, b) /\ Len(s.values) \in Nat /\ b + 2 * Len(s.values) - 1 <= Len(R) =>
                \A i \in 1..Len(s.values) : Means(Q, b + 2 * i - 1, s.values[i])
           /\ ValueCommas(R, b, m) /\ b + 2 * m <= Len(R) => ValueCommas(Q, b, m)
<1>0. Len(R) \in Nat
  BY DEF Kept
<1>1. ASSUME ValuesSaid(R, s, b), Len(s.values) \in Nat, b + 2 * Len(s.values) - 1 <= Len(R),
             NEW i \in 1..Len(s.values)
      PROVE  Means(Q, b + 2 * i - 1, s.values[i])
  <2>1. b + 2 * i - 1 \in 1..Len(R)
    BY <1>0, <1>1
  <2>2. Means(R, b + 2 * i - 1, s.values[i])
    BY <1>1 DEF ValuesSaid
  <2> QED BY <2>1, <2>2 DEF Kept
<1>2. ASSUME ValueCommas(R, b, m), b + 2 * m <= Len(R) PROVE ValueCommas(Q, b, m)
  <2> SUFFICES ASSUME NEW i \in 1..m PROVE Q[b + 2 * i] = Comma
    BY DEF ValueCommas
  <2>1. b + 2 * i \in 1..Len(R)
    BY <1>0, <1>2
  <2> QED BY <1>2, <2>1 DEF Kept, ValueCommas
<1> QED BY <1>1, <1>2

LEMMA InsertBehindStep ==
    ASSUME NEW R, NEW t, NEW Q, Kept(R, t, Q), NEW s \in Statement
    PROVE  /\ Behind(R, s, "into") /\ t \in Key("into") => Behind(Q, s, "insertTable")
           /\ Behind(R, s, "insertTable") /\ t \in Name =>
                \A n : TableSet(s, n, Lower[t.word]) => Behind(Q, n, "values")
           /\ Behind(R, s, "values") /\ t \in Key("values") => Behind(Q, s, "valuesOpen")
           /\ Behind(R, s, "valuesOpen") /\ t = LParen => Behind(Q, s, "literals")
           /\ Behind(R, s, "function") /\ t \in Name =>
                \A n : CallSet(s, n, Lower[t.word]) => Behind(Q, n, "functionOpen")
           /\ Behind(R, s, "functionOpen") /\ t = LParen => Behind(Q, s, "literals")
<1> DEFINE w == Lower[t.word]
<1>0. Len(R) \in Nat /\ Len(Q) = Len(R) + 1 /\ Q[Len(R) + 1] = t
  BY DEF Kept
<1>1. ASSUME Behind(R, s, "into"), t \in Key("into") PROVE Behind(Q, s, "insertTable")
  <2>1. Len(R) = 1 /\ InsertHead(R, s) /\ Len(s.values) = 0
    BY <1>1, InsertBehindIs
  <2>4. Len(R) >= 1
    BY <2>1
  <2>2. InsertHead(Q, s)
    BY <2>1, <2>4, InsertKept
  <2>3. Len(Q) = 2 /\ Says(Q, 2, "into")
    BY <1>0, <1>1, <2>1 DEF Kept
  <2> QED BY <2>1, <2>2, <2>3, InsertBehindIs
<1>2. ASSUME Behind(R, s, "insertTable"), t \in Name, NEW n, TableSet(s, n, w)
      PROVE  Behind(Q, n, "values")
  <2>1. Len(R) = 2 /\ InsertHead(R, s) /\ Says(R, 2, "into") /\ Len(s.values) = 0
    BY <1>2, InsertBehindIs
  <2>2. n.kind = s.kind /\ n.table = w /\ n.values = s.values
    BY <1>2 DEF TableSet
  <2>3. Len(Q) = 3 /\ Says(Q, 3, w) /\ 2 \in 1..Len(R) /\ Len(R) >= 1
    BY <1>0, <1>2, <2>1 DEF Kept
  <2>4. InsertHead(Q, n)
    BY <2>1, <2>2, <2>3, InsertKept
  <2>5. Says(Q, 2, "into")
    BY <2>1, <2>3 DEF Kept
  <2> QED BY <2>1, <2>2, <2>3, <2>4, <2>5, InsertBehindIs DEF InsertInto
<1>3. ASSUME Behind(R, s, "values"), t \in Key("values") PROVE Behind(Q, s, "valuesOpen")
  <2>0. Len(R) = 3 /\ InsertInto(R, s) /\ Len(s.values) = 0
    BY <1>3, InsertBehindIs
  <2>1. Len(R) = 3 /\ InsertInto(R, s) /\ Len(s.values) = 0 /\ Len(R) >= 3
    BY <2>0
  <2>2. InsertInto(Q, s)
    BY <2>1, InsertKept
  <2>3. Len(Q) = 4 /\ Says(Q, 4, "values")
    BY <1>0, <1>3, <2>1 DEF Kept
  <2> QED BY <2>1, <2>2, <2>3, InsertBehindIs
<1>4. ASSUME Behind(R, s, "valuesOpen"), t = LParen PROVE Behind(Q, s, "literals")
  <2>1. Len(R) = 4 /\ InsertInto(R, s) /\ Says(R, 4, "values") /\ Len(s.values) = 0
    BY <1>4, InsertBehindIs
  <2>2. Len(Q) = 5 /\ Q[5] = LParen /\ 4 \in 1..Len(R) /\ Len(R) >= 3
    BY <1>0, <1>4, <2>1
  <2>3. InsertInto(Q, s)
    BY <2>1, <2>2, InsertKept
  <2>4. Says(Q, 4, "values")
    BY <2>1, <2>2 DEF Kept
  <2> QED BY <2>1, <2>2, <2>3, <2>4, InsertBehindIs DEF Opened
<1>5. ASSUME Behind(R, s, "function"), t \in Name, NEW n, CallSet(s, n, w)
      PROVE  Behind(Q, n, "functionOpen")
  <2>1. Len(R) = 1 /\ SelectHead(R, s) /\ NoValues(s)
    BY <1>5, SelectBehindIs DEF SelectBegan
  <2>2. n.kind = "function" /\ n.name = w /\ n.values = s.values
    BY <1>5 DEF CallSet
  <2>3. Len(Q) = 2 /\ Says(Q, 2, w) /\ 1 \in 1..Len(R)
    BY <1>0, <1>5, <2>1 DEF Kept
  <2>4. Says(Q, 1, "select")
    BY <2>1, <2>3 DEF SelectHead, Kept
  <2>5. Len(s.values) = 0
    BY <2>1 DEF NoValues
  <2> QED BY <2>2, <2>3, <2>4, <2>5, SelectBehindIs DEF CallHead
<1>6. ASSUME Behind(R, s, "functionOpen"), t = LParen PROVE Behind(Q, s, "literals")
  <2>0. Len(R) = 2 /\ CallHead(R, s) /\ Len(s.values) = 0
    BY <1>6, SelectBehindIs
  <2>1. Len(R) = 2 /\ CallHead(R, s) /\ Len(s.values) = 0 /\ Len(R) >= 2
    BY <2>0
  <2>2. Len(Q) = 3 /\ Q[3] = LParen
    BY <1>0, <1>6, <2>1
  <2>3. CallHead(Q, s)
    BY <2>1, InsertKept
  <2> QED BY <2>1, <2>2, <2>3, InsertBehindIs DEF Opened
<1> QED BY <1>1, <1>2, <1>3, <1>4, <1>5, <1>6

LEMMA LiteralsBehindStep ==
    ASSUME NEW R, NEW t, NEW Q, Kept(R, t, Q), NEW s \in Statement
    PROVE  /\ Behind(R, s, "literals") /\ t = RParen => Behind(Q, s, "finish")
           /\ Behind(R, s, "literals") => Behind(R, s, "literal")
           /\ Behind(R, s, "literal") /\ t \in Literal =>
                \A n, v : NewValue(s, n, v) /\ Folded(t) = Spelled[v] => Behind(Q, n, "literalsMore")
           /\ Behind(R, s, "literalsMore") /\ t = Comma => Behind(Q, s, "literal")
           /\ Behind(R, s, "literalsMore") => Behind(R, s, "literalsClose")
           /\ Behind(R, s, "literalsClose") /\ t = RParen => Behind(Q, s, "finish")
<1> DEFINE v == Len(s.values)
<1>0. v \in Nat /\ Len(R) \in Nat /\ Len(Q) = Len(R) + 1 /\ Q[Len(R) + 1] = t
  BY Fields DEF Kept
<1>k. 3 \in Nat /\ 5 \in Nat /\ \A b \in {3, 5} : b \in Nat
  OBVIOUS
<1> HIDE DEF v
<1>1. ASSUME Behind(R, s, "literals")
      PROVE  /\ v = 0 /\ Len(R) \in {3, 5} /\ Opened(R, s, Len(R)) /\ Opened(Q, s, Len(R))
  <2>1. v = 0 /\ Opened(R, s, Len(R))
    BY <1>1, InsertBehindIs DEF v
  <2>2. Len(R) \in {3, 5} /\ Len(R) <= Len(R)
    BY <1>0, <2>1 DEF Opened
  <2> QED BY <2>1, <2>2, OpenedKept
<1>2. ASSUME Behind(R, s, "literals"), t = RParen PROVE Behind(Q, s, "finish")
  <2>1. ValuesSaid(Q, s, Len(R)) /\ ValueCommas(Q, Len(R), v - 1)
    BY <1>1, <1>2 DEF ValuesSaid, ValueCommas, v
  <2>2. Len(Q) = Width(v) + Len(R) + 1
    BY <1>0, <1>1, <1>2 DEF Width
  <2>3. ListSaid(Q, s, Len(Q))
    BY <1>0, <1>1, <1>2, <2>1, <2>2 DEF ListSaid, v
  <2> QED BY <2>3, JustSaid DEF Said
<1>3. ASSUME Behind(R, s, "literals") PROVE Behind(R, s, "literal")
  <2>1. ValuesSaid(R, s, Len(R)) /\ ValueCommas(R, Len(R), v)
    BY <1>1, <1>3 DEF ValuesSaid, ValueCommas, v
  <2>2. Len(R) = 2 * v + Len(R)
    BY <1>0, <1>1, <1>3
  <2>3. ListBehind(R, s, Len(R))
    BY <1>1, <1>3, <2>1, <2>2 DEF ListBehind, v
  <2> QED BY <1>1, <1>3, <2>3, InsertBehindIs
<1>4. ASSUME Behind(R, s, "literal"), t \in Literal, NEW n, NEW x, NewValue(s, n, x),
             Folded(t) = Spelled[x]
      PROVE  Behind(Q, n, "literalsMore")
  <2>1. PICK b \in {3, 5} : ListBehind(R, s, b)
    BY <1>4, InsertBehindIs
  <2>2. Len(R) = 2 * v + b /\ Opened(R, s, b) /\ ValuesSaid(R, s, b) /\ ValueCommas(R, b, v)
    BY <2>1 DEF ListBehind, v
  <2>3. PICK vs : ValuesSet(s, n, vs) /\ Added(Values, vs, s.values, x)
    BY <1>4 DEF NewValue
  <2>4. n.kind = s.kind /\ n.table = s.table /\ n.name = s.name /\ n.values = vs
    BY <2>3 DEF ValuesSet
  <2>5. Len(vs) = v + 1 /\ (\A i \in 1..v : vs[i] = s.values[i]) /\ vs[v + 1] = x
    BY <2>3 DEF Added, v
  <2>6. b \in Nat /\ b <= Len(R) /\ b + 2 * v - 1 <= Len(R) /\ b + 2 * v <= Len(R)
    BY <1>0, <2>2
  <2>7. Opened(Q, n, b)
    BY <2>2, <2>4, <2>6, OpenedKept
  <2>8. ValueCommas(Q, b, v)
    BY <1>0, <2>2, <2>6, ValuesKept
  <2>9. \A i \in 1..v : Means(Q, b + 2 * i - 1, vs[i])
    BY <1>0, <2>2, <2>5, <2>6, ValuesKept DEF v
  <2>10. Means(Q, b + 2 * (v + 1) - 1, vs[v + 1])
    <3>1. b + 2 * (v + 1) - 1 = Len(R) + 1
      BY <1>0, <2>2, <2>6
    <3> QED BY <1>0, <1>4, <2>5, <3>1 DEF Means
  <2>11. ValuesSaid(Q, n, b)
    <3>1. \A i \in 1..(v + 1) : i \in 1..v \/ i = v + 1
      BY <1>0
    <3> QED BY <2>4, <2>5, <2>9, <2>10, <3>1 DEF ValuesSaid
  <2>12. v + 1 >= 1 /\ (v + 1) - 1 = v /\ Len(Q) = 2 * (v + 1) - 1 + b
    BY <1>0, <2>2, <2>6
  <2>13. ListMore(Q, n, b)
    BY <2>4, <2>5, <2>7, <2>8, <2>11, <2>12 DEF ListMore
  <2> QED BY <2>13, InsertBehindIs
<1>5. ASSUME Behind(R, s, "literalsMore") \/ Behind(R, s, "literalsClose")
      PROVE  \E b \in {3, 5} : /\ v >= 1 /\ Len(R) = 2 * v - 1 + b /\ Opened(Q, s, b)
                               /\ ValuesSaid(Q, s, b) /\ ValueCommas(Q, b, v - 1)
  <2>1. PICK b \in {3, 5} : ListMore(R, s, b)
    BY <1>5, InsertBehindIs
  <2>2. /\ v >= 1 /\ Len(R) = 2 * v - 1 + b /\ Opened(R, s, b)
        /\ ValuesSaid(R, s, b) /\ ValueCommas(R, b, v - 1)
    BY <2>1 DEF ListMore, v
  <2>3. /\ b \in Nat /\ b <= Len(R) /\ b + 2 * v - 1 <= Len(R)
        /\ v - 1 \in Nat /\ b + 2 * (v - 1) <= Len(R)
    BY <1>0, <2>2
  <2>4. Opened(Q, s, b)
    BY <2>2, <2>3, OpenedKept
  <2>5. ValueCommas(Q, b, v - 1)
    BY <2>2, <2>3, ValuesKept
  <2>6. ValuesSaid(Q, s, b)
    BY <1>0, <2>2, <2>3, ValuesKept DEF v, ValuesSaid
  <2> QED BY <2>2, <2>4, <2>5, <2>6
<1>6. ASSUME Behind(R, s, "literalsMore"), t = Comma PROVE Behind(Q, s, "literal")
  <2>1. PICK b \in {3, 5} : /\ v >= 1 /\ Len(R) = 2 * v - 1 + b /\ Opened(Q, s, b)
                            /\ ValuesSaid(Q, s, b) /\ ValueCommas(Q, b, v - 1)
    BY <1>5, <1>6
  <2>2. Len(Q) = 2 * v + b /\ Len(R) + 1 = b + 2 * v /\ \A i \in 1..v : i \in 1..(v - 1) \/ i = v
    BY <1>0, <2>1
  <2>3. Q[b + 2 * v] = Comma
    BY <1>0, <1>6, <2>2
  <2>4. ValueCommas(Q, b, v)
    BY <2>1, <2>2, <2>3 DEF ValueCommas
  <2>5. ListBehind(Q, s, b)
    BY <2>1, <2>2, <2>4 DEF ListBehind, v
  <2> QED BY <2>5, InsertBehindIs
<1>7. Behind(R, s, "literalsMore") => Behind(R, s, "literalsClose")
  BY InsertBehindIs
<1>8. ASSUME Behind(R, s, "literalsClose"), t = RParen PROVE Behind(Q, s, "finish")
  <2>1. PICK b \in {3, 5} : /\ v >= 1 /\ Len(R) = 2 * v - 1 + b /\ Opened(Q, s, b)
                            /\ ValuesSaid(Q, s, b) /\ ValueCommas(Q, b, v - 1)
    BY <1>5, <1>8
  <2>2. Len(Q) = Width(v) + b + 1 /\ Q[Len(Q)] = RParen
    BY <1>0, <1>8, <2>1 DEF Width
  <2>3. ListSaid(Q, s, Len(Q))
    BY <2>1, <2>2 DEF ListSaid, v
  <2> QED BY <2>3, JustSaid DEF Said
<1> QED BY <1>2, <1>3, <1>4, <1>6, <1>7, <1>8

\* parse_select.
LEMMA NamesKept ==
    ASSUME NEW R, NEW t, NEW Q, Kept(R, t, Q), NEW s, NEW m \in Nat
    PROVE  /\ NamesSaid(R, s) /\ Len(s.columns) \in Nat /\ 2 * Len(s.columns) <= Len(R) =>
                \A i \in 1..Len(s.columns) : Says(Q, 2 * i, s.columns[i].name)
           /\ NameCommas(R, m) /\ 2 * m + 1 <= Len(R) => NameCommas(Q, m)
<1>0. Len(R) \in Nat
  BY DEF Kept
<1>1. ASSUME NamesSaid(R, s), Len(s.columns) \in Nat, 2 * Len(s.columns) <= Len(R),
             NEW i \in 1..Len(s.columns)
      PROVE  Says(Q, 2 * i, s.columns[i].name)
  <2>1. 2 * i \in 1..Len(R)
    BY <1>0, <1>1
  <2>2. Says(R, 2 * i, s.columns[i].name)
    BY <1>1 DEF NamesSaid
  <2> QED BY <2>1, <2>2 DEF Kept
<1>2. ASSUME NameCommas(R, m), 2 * m + 1 <= Len(R) PROVE NameCommas(Q, m)
  <2> SUFFICES ASSUME NEW i \in 1..m PROVE Q[2 * i + 1] = Comma
    BY DEF NameCommas
  <2>1. 2 * i + 1 \in 1..Len(R)
    BY <1>0, <1>2
  <2> QED BY <1>2, <2>1 DEF Kept, NameCommas
<1> QED BY <1>1, <1>2

LEMMA SelectHeadKept ==
    ASSUME NEW R, NEW t, NEW Q, Kept(R, t, Q), NEW s, NEW n, n.kind = s.kind,
           SelectHead(R, s), Len(R) >= 1
    PROVE  SelectHead(Q, n)
<1>1. 1 \in 1..Len(R)
  BY DEF Kept
<1> QED BY <1>1 DEF SelectHead, Kept

\* A projection takes at least one place.
LEMMA ProjectionEnds ==
    ASSUME NEW R, NEW s \in Statement, NEW e, ProjectionSaid(R, s, e)
    PROVE  e \in Nat /\ e >= 2
<1>1. Len(s.columns) \in Nat
  BY Fields
<1> QED BY <1>1 DEF ProjectionSaid

LEMMA ProjectionKept ==
    ASSUME NEW R, NEW t, NEW Q, Kept(R, t, Q), NEW s \in Statement, NEW n,
           n.columns = s.columns, n.all = s.all, NEW e, ProjectionSaid(R, s, e), e <= Len(R)
    PROVE  ProjectionSaid(Q, n, e)
<1> DEFINE c == Len(s.columns)
<1>0. c \in Nat /\ Len(R) \in Nat
  BY Fields DEF Kept
<1>1. CASE s.all /\ e = 2 /\ R[2] = Star
  <2>1. 2 \in 1..Len(R)
    BY <1>0, <1>1
  <2>2. Q[2] = Star
    BY <1>1, <2>1 DEF Kept
  <2> QED BY <1>1, <2>2 DEF ProjectionSaid
<1>2. CASE ~s.all /\ c >= 1 /\ e = 2 * c /\ NamesSaid(R, s) /\ NameCommas(R, c - 1)
  <2>1. 2 * c <= Len(R) /\ c - 1 \in Nat /\ 2 * (c - 1) + 1 <= Len(R)
    BY <1>0, <1>2
  <2> HIDE DEF c
  <2>2. NameCommas(Q, c - 1)
    BY <1>2, <2>1, NamesKept
  <2>3. NamesSaid(Q, n)
    <3>1. 0 \in Nat
      OBVIOUS
    <3>2. \A i \in 1..Len(s.columns) : Says(Q, 2 * i, s.columns[i].name)
      BY <1>0, <1>2, <2>1, <3>1, NamesKept DEF c
    <3> QED BY <3>2 DEF NamesSaid
  <2> QED BY <1>2, <2>2, <2>3 DEF ProjectionSaid, c
<1> QED BY <1>1, <1>2 DEF ProjectionSaid

LEMMA FromKept ==
    ASSUME NEW R, NEW t, NEW Q, Kept(R, t, Q), NEW s \in Statement, NEW n, n.kind = s.kind,
           n.columns = s.columns, n.all = s.all, n.table = s.table,
           NEW e \in Int, FromSaid(R, s, e), e <= Len(R)
    PROVE  FromSaid(Q, n, e) /\ e >= 4
<1>0. Len(R) \in Nat
  BY DEF Kept
<1>1. SelectHead(R, s) /\ ProjectionSaid(R, s, e - 2) /\ Says(R, e - 1, "from") /\ Says(R, e, s.table)
  BY DEF FromSaid
<1>2. e - 2 >= 2
  BY <1>1, ProjectionEnds
<1>3. e - 2 <= Len(R) /\ e - 1 \in 1..Len(R) /\ e \in 1..Len(R) /\ Len(R) >= 1 /\ e >= 4
  BY <1>0, <1>2
<1>4. SelectHead(Q, n)
  BY <1>1, <1>3, SelectHeadKept
<1>5. ProjectionSaid(Q, n, e - 2)
  BY <1>1, <1>3, ProjectionKept
<1>6. Says(Q, e - 1, "from") /\ Says(Q, e, n.table)
  BY <1>1, <1>3 DEF Kept
<1> QED BY <1>3, <1>4, <1>5, <1>6 DEF FromSaid

LEMMA SelectBehindStep ==
    ASSUME NEW R, NEW t, NEW Q, Kept(R, t, Q), NEW s \in Statement
    PROVE  /\ Behind(R, s, "select") => Behind(R, s, "function") /\ Behind(R, s, "projection")
           /\ Behind(R, s, "projection") /\ t = Star => \A n : AllSet(s, n) => Behind(Q, n, "from")
           /\ Behind(R, s, "projection") => Behind(R, s, "selected")
           /\ Behind(R, s, "selected") /\ t \in Name =>
                \A n : NewColumn(s, n, Lower[t.word]) => Behind(Q, n, "selectedMore")
           /\ Behind(R, s, "selectedMore") /\ t = Comma => Behind(Q, s, "selected")
           /\ Behind(R, s, "selectedMore") => Behind(R, s, "from")
           /\ Behind(R, s, "from") /\ t \in Key("from") => Behind(Q, s, "selectTable")
           /\ Behind(R, s, "selectTable") /\ t \in Name =>
                \A n : TableSet(s, n, Lower[t.word]) => Behind(Q, n, "where")
<1> DEFINE c == Len(s.columns)
           w == Lower[t.word]
<1>0. c \in Nat /\ Len(R) \in Nat /\ Len(Q) = Len(R) + 1 /\ Q[Len(R) + 1] = t
  BY Fields DEF Kept
<1> HIDE DEF c
<1>1. Behind(R, s, "select") => Behind(R, s, "function") /\ Behind(R, s, "projection")
  BY SelectBehindIs
<1>2. ASSUME Behind(R, s, "projection"), t = Star, NEW n, AllSet(s, n) PROVE Behind(Q, n, "from")
  <2>1. Len(R) = 1 /\ SelectHead(R, s) /\ NoValues(s)
    BY <1>2, SelectBehindIs DEF SelectBegan
  <2>2. n.kind = s.kind /\ n.values = s.values /\ n.all = TRUE /\ n.where = s.where
    BY <1>2 DEF AllSet
  <2>3. Len(R) >= 1 /\ Len(Q) = 2 /\ Q[2] = Star
    BY <1>0, <1>2, <2>1
  <2>4. SelectHead(Q, n)
    BY <2>1, <2>2, <2>3, SelectHeadKept
  <2>5. NoValues(n)
    BY <2>1, <2>2 DEF NoValues
  <2>6. ProjectionSaid(Q, n, Len(Q))
    BY <2>2, <2>3 DEF ProjectionSaid
  <2> QED BY <2>4, <2>5, <2>6, SelectBehindIs
<1>3. ASSUME Behind(R, s, "projection") PROVE Behind(R, s, "selected")
  <2>1. Len(R) = 1 /\ SelectHead(R, s) /\ NoValues(s) /\ c = 0 /\ ~s.all
    BY <1>3, SelectBehindIs DEF SelectBegan, c
  <2>2. Len(R) = 2 * c + 1 /\ NamesSaid(R, s) /\ NameCommas(R, c)
    BY <2>1 DEF NamesSaid, NameCommas, c
  <2> QED BY <2>1, <2>2, SelectBehindIs DEF c
<1>4. ASSUME Behind(R, s, "selected"), t \in Name, NEW n, NewColumn(s, n, w)
      PROVE  Behind(Q, n, "selectedMore")
  <2>1. /\ Len(R) = 2 * c + 1 /\ SelectHead(R, s) /\ NoValues(s) /\ ~s.all
        /\ NamesSaid(R, s) /\ NameCommas(R, c)
    BY <1>4, SelectBehindIs DEF c
  <2>2. PICK cs, x : ColumnsSet(s, n, cs) /\ Added(Column, cs, s.columns, x) /\ x.name = w
    BY <1>4 DEF NewColumn
  <2>3. /\ n.kind = s.kind /\ n.columns = cs /\ n.values = s.values
        /\ n.all = s.all /\ n.where = s.where
    BY <2>2 DEF ColumnsSet
  <2>4. Len(cs) = c + 1 /\ (\A i \in 1..c : cs[i] = s.columns[i]) /\ cs[c + 1].name = w
    BY <2>2 DEF Added, c
  <2>5. Len(R) >= 1 /\ 2 * c <= Len(R) /\ 2 * c + 1 <= Len(R) /\ Len(R) + 1 = 2 * (c + 1)
    BY <1>0, <2>1
  <2>6. SelectHead(Q, n)
    BY <2>1, <2>3, <2>5, SelectHeadKept
  <2>7. NoValues(n) /\ ~n.all
    BY <2>1, <2>3 DEF NoValues
  <2>8. NameCommas(Q, c)
    BY <1>0, <2>1, <2>5, NamesKept
  <2>9. \A i \in 1..c : Says(Q, 2 * i, cs[i].name)
    <3>1. \A i \in 1..c : Says(Q, 2 * i, s.columns[i].name)
      BY <1>0, <2>1, <2>5, NamesKept DEF c
    <3> QED BY <2>4, <3>1
  <2>10. Says(Q, 2 * (c + 1), cs[c + 1].name)
    BY <1>4, <2>4, <2>5 DEF Kept
  <2>11. NamesSaid(Q, n)
    <3>1. \A i \in 1..(c + 1) : i \in 1..c \/ i = c + 1
      BY <1>0
    <3> QED BY <2>3, <2>4, <2>9, <2>10, <3>1 DEF NamesSaid
  <2>12. (c + 1) - 1 = c /\ c + 1 >= 1 /\ Len(Q) = 2 * (c + 1)
    BY <1>0, <2>5
  <2> QED BY <2>3, <2>4, <2>6, <2>7, <2>8, <2>11, <2>12, SelectBehindIs
<1>5. ASSUME Behind(R, s, "selectedMore")
      PROVE  /\ Len(R) = 2 * c /\ SelectHead(R, s) /\ NoValues(s) /\ ~s.all
             /\ c >= 1 /\ NamesSaid(R, s) /\ NameCommas(R, c - 1)
  BY <1>5, SelectBehindIs DEF c
<1>6. ASSUME Behind(R, s, "selectedMore"), t = Comma PROVE Behind(Q, s, "selected")
  <2>1. /\ Len(R) >= 1 /\ 2 * c <= Len(R) /\ c - 1 \in Nat /\ 2 * (c - 1) + 1 <= Len(R)
        /\ Len(Q) = 2 * c + 1 /\ Q[2 * c + 1] = Comma
    BY <1>0, <1>5, <1>6
  <2>2. SelectHead(Q, s)
    BY <1>5, <1>6, <2>1, SelectHeadKept
  <2>3. NamesSaid(Q, s)
    BY <1>0, <1>5, <1>6, <2>1, NamesKept DEF c, NamesSaid
  <2>4. NameCommas(Q, c - 1)
    BY <1>5, <1>6, <2>1, NamesKept
  <2>5. NameCommas(Q, c)
    <3>1. \A i \in 1..c : i \in 1..(c - 1) \/ i = c
      BY <1>0
    <3> QED BY <2>1, <2>4, <3>1 DEF NameCommas
  <2> QED BY <1>5, <1>6, <2>1, <2>2, <2>3, <2>5, SelectBehindIs DEF c
<1>7. ASSUME Behind(R, s, "selectedMore") PROVE Behind(R, s, "from")
  <2>1. ProjectionSaid(R, s, Len(R))
    BY <1>5, <1>7 DEF ProjectionSaid, c
  <2> QED BY <1>5, <1>7, <2>1, SelectBehindIs
<1>8. ASSUME Behind(R, s, "from"), t \in Key("from") PROVE Behind(Q, s, "selectTable")
  <2>1. SelectHead(R, s) /\ NoValues(s) /\ ProjectionSaid(R, s, Len(R))
    BY <1>8, SelectBehindIs
  <2>2. Len(R) >= 1 /\ Len(R) <= Len(R) /\ Len(R) = Len(Q) - 1
    BY <1>0, <2>1, ProjectionEnds
  <2>3. SelectHead(Q, s)
    BY <2>1, <2>2, SelectHeadKept
  <2>4. ProjectionSaid(Q, s, Len(R))
    BY <2>1, <2>2, ProjectionKept
  <2>5. Says(Q, Len(Q), "from")
    BY <1>0, <1>8 DEF Kept
  <2> QED BY <2>1, <2>2, <2>3, <2>4, <2>5, SelectBehindIs
<1>9. ASSUME Behind(R, s, "selectTable"), t \in Name, NEW n, TableSet(s, n, w)
      PROVE  Behind(Q, n, "where")
  <2>1. /\ SelectHead(R, s) /\ NoValues(s) /\ ProjectionSaid(R, s, Len(R) - 1)
        /\ Says(R, Len(R), "from")
    BY <1>9, SelectBehindIs
  <2>2. /\ n.kind = s.kind /\ n.table = w /\ n.columns = s.columns /\ n.values = s.values
        /\ n.all = s.all /\ n.where = s.where
    BY <1>9 DEF TableSet
  <2>3. Len(R) - 1 >= 2
    BY <2>1, ProjectionEnds
  <2>4. /\ Len(R) >= 1 /\ Len(R) - 1 <= Len(R) /\ Len(R) \in 1..Len(R)
        /\ Len(R) - 1 = Len(Q) - 2 /\ Len(R) = Len(Q) - 1
    BY <1>0, <2>3
  <2>5. SelectHead(Q, n)
    BY <2>1, <2>2, <2>4, SelectHeadKept
  <2>6. ProjectionSaid(Q, n, Len(R) - 1)
    BY <2>1, <2>2, <2>4, ProjectionKept
  <2>7. Says(Q, Len(R), "from") /\ Says(Q, Len(Q), w)
    BY <1>0, <1>9, <2>1, <2>4 DEF Kept
  <2>8. NoValues(n)
    BY <2>1, <2>2 DEF NoValues
  <2>9. FromSaid(Q, n, Len(Q))
    BY <2>2, <2>4, <2>5, <2>6, <2>7 DEF FromSaid
  <2> QED BY <2>8, <2>9, WhereBehindIs
<1> QED BY <1>1, <1>2, <1>3, <1>4, <1>6, <1>7, <1>8, <1>9

\* The predicate of parse_select.
LEMMA WhereBehindStep ==
    ASSUME NEW R, NEW t, NEW Q, Kept(R, t, Q), NEW s \in Statement
    PROVE  /\ Behind(R, s, "where") /\ t \in Key("where") =>
                \A n : WhereSet(s, n) => Behind(Q, n, "predicate")
           /\ Behind(R, s, "where") => Behind(R, s, "finish")
           /\ Behind(R, s, "predicate") /\ t \in Name =>
                \A n : ColumnSet(s, n, Lower[t.word]) => Behind(Q, n, "equals")
           /\ Behind(R, s, "equals") /\ t = Equals => Behind(Q, s, "predicateValue")
           /\ Behind(R, s, "predicateValue") /\ t \in Literal =>
                \A n, v : NewValue(s, n, v) /\ Folded(t) = Spelled[v] => Behind(Q, n, "finish")
<1> DEFINE w == Lower[t.word]
           r == Len(R)
<1>0. r \in Nat /\ Len(Q) = r + 1 /\ Q[r + 1] = t
  BY DEF Kept
<1>1. /\ r \in Int /\ r - 1 \in Int /\ r - 2 \in Int /\ r - 3 \in Int
      /\ r <= r /\ r - 1 <= r /\ r - 2 <= r /\ r - 3 <= r
      /\ Len(Q) - 1 = r /\ Len(Q) - 2 = r - 1 /\ Len(Q) - 3 = r - 2 /\ Len(Q) - 4 = r - 3
  BY <1>0
<1> HIDE DEF r
<1>2. ASSUME Behind(R, s, "where"), t \in Key("where"), NEW n, WhereSet(s, n)
      PROVE  Behind(Q, n, "predicate")
  <2>1. FromSaid(R, s, r) /\ NoValues(s)
    BY <1>2, WhereBehindIs DEF r
  <2>2. /\ n.kind = s.kind /\ n.columns = s.columns /\ n.all = s.all /\ n.table = s.table
        /\ n.where = TRUE /\ n.values = s.values
    BY <1>2 DEF WhereSet
  <2>3. FromSaid(Q, n, r)
    BY <1>1, <2>1, <2>2, FromKept DEF r
  <2>4. Says(Q, Len(Q), "where")
    BY <1>0, <1>2 DEF Kept, r
  <2>5. n.where /\ Len(n.values) = 0
    BY <2>1, <2>2 DEF NoValues
  <2> QED BY <1>1, <2>3, <2>4, <2>5, WhereBehindIs
<1>3. ASSUME Behind(R, s, "where") PROVE Behind(R, s, "finish")
  <2>1. FromSaid(R, s, r) /\ NoValues(s)
    BY <1>3, WhereBehindIs DEF r
  <2>2. r >= 4
    BY <1>1, <2>1, FromKept DEF r
  <2>3. r \in 1..r /\ \A i \in (r + 1)..r : FALSE
    BY <1>0, <2>2
  <2>4. Said(R, s, r)
    BY <2>1 DEF Said, PlainSaid, NoValues
  <2> QED BY <2>3, <2>4, OtherBehindIs DEF r
<1>4. ASSUME Behind(R, s, "predicate"), t \in Name, NEW n, ColumnSet(s, n, w)
      PROVE  Behind(Q, n, "equals")
  <2>1. FromSaid(R, s, r - 1) /\ Says(R, r, "where") /\ s.where /\ Len(s.values) = 0
    BY <1>4, WhereBehindIs DEF r
  <2>2. /\ n.kind = s.kind /\ n.columns = s.columns /\ n.all = s.all /\ n.table = s.table
        /\ n.column = w /\ n.where = s.where /\ n.values = s.values
    BY <1>4 DEF ColumnSet
  <2>3. FromSaid(Q, n, r - 1) /\ r - 1 >= 4
    BY <1>1, <2>1, <2>2, FromKept DEF r
  <2>4. r \in 1..r
    BY <1>0, <2>3
  <2>5. Says(Q, r, "where") /\ Says(Q, Len(Q), w)
    BY <1>0, <1>4, <2>1, <2>4 DEF Kept, r
  <2>6. n.where /\ Len(n.values) = 0
    BY <2>1, <2>2
  <2> QED BY <1>1, <2>2, <2>3, <2>5, <2>6, WhereBehindIs
<1>5. ASSUME Behind(R, s, "equals"), t = Equals PROVE Behind(Q, s, "predicateValue")
  <2>1. /\ FromSaid(R, s, r - 2) /\ Says(R, r - 1, "where") /\ Says(R, r, s.column)
        /\ s.where /\ Len(s.values) = 0
    BY <1>5, WhereBehindIs DEF r
  <2>2. FromSaid(Q, s, r - 2) /\ r - 2 >= 4
    BY <1>1, <2>1, FromKept DEF r
  <2>3. r \in 1..r /\ r - 1 \in 1..r
    BY <1>0, <2>2
  <2>4. Says(Q, r - 1, "where") /\ Says(Q, r, s.column)
    BY <2>1, <2>3 DEF Kept, r
  <2>5. Q[Len(Q)] = Equals
    BY <1>0, <1>5
  <2> QED BY <1>1, <2>1, <2>2, <2>4, <2>5, WhereBehindIs
<1>6. ASSUME Behind(R, s, "predicateValue"), t \in Literal, NEW n, NEW v, NewValue(s, n, v),
             Folded(t) = Spelled[v]
      PROVE  Behind(Q, n, "finish")
  <2>1. /\ FromSaid(R, s, r - 3) /\ Says(R, r - 2, "where") /\ Says(R, r - 1, s.column)
        /\ R[r] = Equals /\ s.where /\ Len(s.values) = 0
    BY <1>6, WhereBehindIs DEF r
  <2>2. PICK vs : ValuesSet(s, n, vs) /\ Added(Values, vs, s.values, v)
    BY <1>6 DEF NewValue
  <2>3. /\ n.kind = s.kind /\ n.columns = s.columns /\ n.all = s.all /\ n.table = s.table
        /\ n.column = s.column /\ n.where = s.where /\ n.values = vs
    BY <2>2 DEF ValuesSet
  <2>4. Len(vs) = 1 /\ vs[1] = v
    BY <2>1, <2>2 DEF Added
  <2>5. FromSaid(Q, n, r - 3) /\ r - 3 >= 4
    BY <1>1, <2>1, <2>3, FromKept DEF r
  <2>6. r \in 1..r /\ r - 1 \in 1..r /\ r - 2 \in 1..r
    BY <1>0, <2>5
  <2>7. Says(Q, r - 2, "where") /\ Says(Q, r - 1, n.column) /\ Q[r] = Equals
    BY <2>1, <2>3, <2>6 DEF Kept, r
  <2>8. Means(Q, Len(Q), v)
    BY <1>0, <1>6 DEF Means
  <2>9. WhereSaid(Q, n, Len(Q))
    BY <1>1, <2>1, <2>3, <2>4, <2>5, <2>7, <2>8 DEF WhereSaid
  <2> QED BY <2>9, JustSaid DEF Said
<1> QED BY <1>2, <1>3, <1>4, <1>5, <1>6

\* parse_statement and parse_load_extension.
LEMMA StatementBehindStep ==
    ASSUME NEW R, NEW t, NEW Q, Kept(R, t, Q), NEW s \in Statement
    PROVE  /\ Behind(R, s, "statement") =>
                /\ t \in Key("create") => Behind(Q, s, "create")
                /\ t \in Key("insert") => \A n : KindSet(s, n, "insert") => Behind(Q, n, "into")
                /\ t \in Key("load") => \A n : KindSet(s, n, "load") => Behind(Q, n, "extension")
                /\ t \in Key("select") => \A n : KindSet(s, n, "select") => Behind(Q, n, "select")
           /\ Behind(R, s, "create") =>
                /\ t \in Key("table") => \A n : KindSet(s, n, "table") => Behind(Q, n, "tableName")
                /\ t \in Key("index") => \A n : KindSet(s, n, "index") => Behind(Q, n, "indexName")
           /\ Behind(R, s, "extension") /\ t \in Key("extension") => Behind(Q, s, "extensionName")
           /\ Behind(R, s, "extensionName") /\ t \in Name =>
                \A n : NameSet(s, n, Lower[t.word]) => Behind(Q, n, "finish")
<1>0. Len(R) \in Nat /\ Len(Q) = Len(R) + 1 /\ Q[Len(R) + 1] = t
  BY DEF Kept
<1>n. /\ NoStatement.columns = << >> /\ NoStatement.values = << >> /\ Len(<< >>) = 0
      /\ ~NoStatement.all /\ ~NoStatement.where
  BY DEF NoStatement
<1>1. ASSUME Behind(R, s, "statement")
      PROVE  /\ t \in Key("create") => Behind(Q, s, "create")
             /\ t \in Key("insert") => \A n : KindSet(s, n, "insert") => Behind(Q, n, "into")
             /\ t \in Key("load") => \A n : KindSet(s, n, "load") => Behind(Q, n, "extension")
             /\ t \in Key("select") => \A n : KindSet(s, n, "select") => Behind(Q, n, "select")
  <2>1. Len(R) = 0 /\ s = NoStatement
    BY <1>1, OtherBehindIs
  <2>2. Len(Q) = 1 /\ \A x : t \in Key(x) => Says(Q, 1, x)
    BY <1>0, <2>1 DEF Kept
  <2>3. t \in Key("create") => Behind(Q, s, "create")
    BY <2>1, <2>2, OtherBehindIs
  <2>4. ASSUME t \in Key("insert"), NEW n, KindSet(s, n, "insert") PROVE Behind(Q, n, "into")
    <3>1. n.kind = "insert" /\ n.values = s.values
      BY <2>4 DEF KindSet
    <3> QED BY <1>n, <2>1, <2>2, <2>4, <3>1, InsertBehindIs DEF InsertHead
  <2>5. ASSUME t \in Key("load"), NEW n, KindSet(s, n, "load") PROVE Behind(Q, n, "extension")
    BY <2>2, <2>5, OtherBehindIs DEF KindSet
  <2>6. ASSUME t \in Key("select"), NEW n, KindSet(s, n, "select") PROVE Behind(Q, n, "select")
    <3>1. /\ n.kind = "select" /\ n.values = s.values /\ n.columns = s.columns
          /\ n.all = s.all /\ n.where = s.where
      BY <2>6 DEF KindSet
    <3>2. NoValues(n) /\ Len(n.columns) = 0 /\ ~n.all
      BY <1>n, <2>1, <3>1 DEF NoValues
    <3>3. SelectBegan(Q, n)
      BY <2>2, <2>6, <3>1, <3>2 DEF SelectBegan, SelectHead
    <3> QED BY <3>3, SelectBehindIs
  <2> QED BY <2>3, <2>4, <2>5, <2>6
<1>2. ASSUME Behind(R, s, "create")
      PROVE  /\ t \in Key("table") => \A n : KindSet(s, n, "table") => Behind(Q, n, "tableName")
             /\ t \in Key("index") => \A n : KindSet(s, n, "index") => Behind(Q, n, "indexName")
  <2>1. Len(R) = 1 /\ Says(R, 1, "create") /\ s = NoStatement /\ 1 \in 1..Len(R)
    BY <1>2, OtherBehindIs
  <2>2. Len(Q) = 2 /\ Says(Q, 1, "create") /\ \A x : t \in Key(x) => Says(Q, 2, x)
    BY <1>0, <2>1 DEF Kept
  <2>3. ASSUME t \in Key("table"), NEW n, KindSet(s, n, "table") PROVE Behind(Q, n, "tableName")
    <3>1. n.kind = "table" /\ n.columns = s.columns
      BY <2>3 DEF KindSet
    <3> QED BY <1>n, <2>1, <2>2, <2>3, <3>1, TableBehindIs DEF TableHead
  <2>4. ASSUME t \in Key("index"), NEW n, KindSet(s, n, "index") PROVE Behind(Q, n, "indexName")
    <3>1. n.kind = "index"
      BY <2>4 DEF KindSet
    <3> QED BY <2>2, <2>4, <3>1, IndexBehindIs DEF IndexHead
  <2> QED BY <2>3, <2>4
<1>3. ASSUME Behind(R, s, "extension"), t \in Key("extension") PROVE Behind(Q, s, "extensionName")
  <2>1. Len(R) = 1 /\ s.kind = "load" /\ Says(R, 1, "load")
    BY <1>3, OtherBehindIs
  <2>2. Len(Q) = 2 /\ 1 \in 1..Len(R) /\ Says(Q, 2, "extension")
    BY <1>0, <1>3, <2>1 DEF Kept
  <2>3. Says(Q, 1, "load")
    BY <2>1, <2>2 DEF Kept
  <2> QED BY <2>1, <2>2, <2>3, OtherBehindIs
<1>4. ASSUME Behind(R, s, "extensionName"), t \in Name, NEW n, NameSet(s, n, Lower[t.word])
      PROVE  Behind(Q, n, "finish")
  <2>1. Len(R) = 2 /\ s.kind = "load" /\ Says(R, 1, "load") /\ Says(R, 2, "extension")
    BY <1>4, OtherBehindIs
  <2>2. n.kind = s.kind /\ n.name = Lower[t.word]
    BY <1>4 DEF NameSet
  <2>3. Len(Q) = 3 /\ 1 \in 1..Len(R) /\ 2 \in 1..Len(R) /\ Says(Q, 3, Lower[t.word])
    BY <1>0, <1>4, <2>1 DEF Kept
  <2>4. Says(Q, 1, "load") /\ Says(Q, 2, "extension")
    BY <2>1, <2>3 DEF Kept
  <2>5. LoadSaid(Q, n, Len(Q))
    BY <2>1, <2>2, <2>3, <2>4 DEF LoadSaid
  <2> QED BY <2>5, JustSaid DEF Said
<1> QED BY <1>1, <1>2, <1>3, <1>4

\* What was said is still said when more is read.
LEMMA SaidKept ==
    ASSUME NEW R, NEW t, NEW Q, Kept(R, t, Q), NEW s \in Statement, NEW e \in 1..Len(R), Said(R, s, e)
    PROVE  Said(Q, s, e)
<1> DEFINE c == Len(s.columns)
           v == Len(s.values)
<1>0. Len(R) \in Nat /\ c \in Nat /\ v \in Nat /\ e \in Int /\ e <= Len(R) /\ Q[e] = R[e]
  BY Fields DEF Kept
<1> HIDE DEF c, v
<1>1. CASE TableSaid(R, s, e)
  <2>1. /\ TableOpen(R, s) /\ c >= 1 /\ ColumnsSaid(R, s, c) /\ ColumnCommas(R, c - 1)
        /\ e = 3 * c + 4 /\ R[e] = RParen
    BY <1>1 DEF TableSaid, c
  <2>2. c - 1 \in Nat /\ 3 * c + 3 <= Len(R) /\ 3 * (c - 1) + 4 <= Len(R) /\ Len(R) >= 4
    BY <1>0, <2>1
  <2>3. TableOpen(Q, s)
    BY <2>1, <2>2, TableKept
  <2>4. ColumnsSaid(Q, s, c)
    BY <1>0, <2>1, <2>2, ColumnsKept
  <2>5. ColumnCommas(Q, c - 1)
    BY <2>1, <2>2, ColumnsKept
  <2> QED BY <1>0, <2>1, <2>3, <2>4, <2>5 DEF Said, TableSaid, c
<1>2. CASE IndexSaid(R, s, e)
  <2>1. /\ IndexOn(R, s) /\ Says(R, 5, s.table) /\ R[6] = LParen /\ Says(R, 7, s.column)
        /\ e = 8 /\ R[8] = RParen
    BY <1>2 DEF IndexSaid
  <2>2. Len(R) >= 4 /\ 5 \in 1..Len(R) /\ 6 \in 1..Len(R) /\ 7 \in 1..Len(R)
    BY <1>0, <2>1
  <2>3. IndexOn(Q, s)
    BY <2>1, <2>2, IndexKept
  <2>4. Says(Q, 5, s.table) /\ Q[6] = LParen /\ Says(Q, 7, s.column)
    BY <2>1, <2>2 DEF Kept
  <2> QED BY <1>0, <2>1, <2>3, <2>4 DEF Said, IndexSaid
<1>3. CASE LoadSaid(R, s, e)
  <2>1. s.kind = "load" /\ Says(R, 1, "load") /\ Says(R, 2, "extension") /\ Says(R, 3, s.name) /\ e = 3
    BY <1>3 DEF LoadSaid
  <2>2. 1 \in 1..Len(R) /\ 2 \in 1..Len(R) /\ 3 \in 1..Len(R)
    BY <1>0, <2>1
  <2>3. Says(Q, 1, "load") /\ Says(Q, 2, "extension") /\ Says(Q, 3, s.name)
    BY <2>1, <2>2 DEF Kept
  <2> QED BY <2>1, <2>3 DEF Said, LoadSaid
<1>4. CASE ListSaid(R, s, e)
  <2>1. PICK b \in {3, 5} : /\ Opened(R, s, b) /\ ValuesSaid(R, s, b) /\ ValueCommas(R, b, v - 1)
                            /\ e = Width(v) + b + 1 /\ R[e] = RParen
    BY <1>4 DEF ListSaid, v
  <2>2. b \in Nat /\ b <= Len(R) /\ b + 2 * v - 1 <= Len(R) /\ (v # 0 => b + 2 * (v - 1) <= Len(R))
    BY <1>0, <2>1 DEF Width
  <2>3. Opened(Q, s, b)
    BY <2>1, <2>2, OpenedKept
  <2>4. ValuesSaid(Q, s, b)
    BY <1>0, <2>1, <2>2, ValuesKept DEF v, ValuesSaid
  <2>5. ValueCommas(Q, b, v - 1)
    <3>1. CASE v = 0
      BY <3>1 DEF ValueCommas
    <3>2. CASE v # 0
      <4>1. v - 1 \in Nat
        BY <1>0, <3>2
      <4> QED BY <2>1, <2>2, <3>2, <4>1, ValuesKept
    <3> QED BY <3>1, <3>2
  <2> QED BY <1>0, <2>1, <2>3, <2>4, <2>5 DEF Said, ListSaid, v
<1>5. CASE PlainSaid(R, s, e)
  <2>1. FromSaid(Q, s, e)
    BY <1>0, <1>5, FromKept DEF PlainSaid
  <2> QED BY <1>5, <2>1 DEF Said, PlainSaid
<1>6. CASE WhereSaid(R, s, e)
  <2>1. /\ s.where /\ FromSaid(R, s, e - 4) /\ Says(R, e - 3, "where") /\ Says(R, e - 2, s.column)
        /\ R[e - 1] = Equals /\ Len(s.values) = 1 /\ Means(R, e, s.values[1])
    BY <1>6 DEF WhereSaid
  <2>2. e - 4 \in Int /\ e - 4 <= Len(R)
    BY <1>0
  <2>3. FromSaid(Q, s, e - 4) /\ e - 4 >= 4
    BY <2>1, <2>2, FromKept
  <2>4. e - 3 \in 1..Len(R) /\ e - 2 \in 1..Len(R) /\ e - 1 \in 1..Len(R) /\ e \in 1..Len(R)
    BY <1>0, <2>3
  <2>5. /\ Says(Q, e - 3, "where") /\ Says(Q, e - 2, s.column) /\ Q[e - 1] = Equals
        /\ Means(Q, e, s.values[1])
    BY <2>1, <2>4 DEF Kept
  <2> QED BY <2>1, <2>3, <2>5 DEF Said, WhereSaid
<1> QED BY <1>1, <1>2, <1>3, <1>4, <1>5, <1>6 DEF Said

\* finish.
LEMMA FinishBehindStep ==
    ASSUME NEW R, NEW t, NEW Q, Kept(R, t, Q), NEW s \in Statement,
           Behind(R, s, "finish"), t = Semicolon
    PROVE  Behind(Q, s, "finish")
<1>1. PICK e \in 1..Len(R) : Said(R, s, e) /\ \A i \in (e + 1)..Len(R) : R[i] = Semicolon
  BY OtherBehindIs
<1>2. Len(R) \in Nat /\ Len(Q) = Len(R) + 1 /\ Q[Len(R) + 1] = t /\ \A i \in 1..Len(R) : Q[i] = R[i]
  BY DEF Kept
<1>3. Said(Q, s, e)
  BY <1>1, SaidKept
<1>4. e \in 1..Len(Q)
  BY <1>2
<1>5. \A i \in (e + 1)..Len(Q) : (i \in (e + 1)..Len(R) /\ i \in 1..Len(R)) \/ i = Len(R) + 1
  BY <1>2
<1>6. \A i \in (e + 1)..Len(Q) : Q[i] = Semicolon
  BY <1>1, <1>2, <1>5
<1> QED BY <1>3, <1>4, <1>6, OtherBehindIs

-----------------------------------------------------------------------------
(* A whole statement that was read is a sentence of the grammar. *)

\* Every place of a list is that of an item or of a comma.
LEMMA SinglePlaces ==
    ASSUME NEW n \in Nat, NEW i \in 1..Width(n)
    PROVE  (\E j \in 1..n : i = 2 * j - 1) \/ (\E j \in 1..(n - 1) : i = 2 * j)
<1>1. n >= 1 /\ i \in Nat /\ i >= 1 /\ i <= 2 * n - 1
  BY DEF Width
<1> DEFINE j == i \div 2
<1>2. j \in Nat /\ (i = 2 * j \/ i = 2 * j + 1)
  BY <1>1
<1> HIDE DEF j
<1>3. CASE i = 2 * j
  <2>1. j \in 1..(n - 1)
    BY <1>1, <1>2, <1>3
  <2> QED BY <1>3, <2>1
<1>4. CASE i = 2 * j + 1
  <2>1. j + 1 \in 1..n /\ i = 2 * (j + 1) - 1
    BY <1>1, <1>2, <1>4
  <2> QED BY <2>1
<1> QED BY <1>2, <1>3, <1>4

LEMMA PairPlaces ==
    ASSUME NEW n \in Nat, NEW i \in 1..PairWidth(n)
    PROVE  (\E j \in 1..n : i = 3 * j - 2 \/ i = 3 * j - 1) \/ (\E j \in 1..(n - 1) : i = 3 * j)
<1>1. n >= 1 /\ i \in Nat /\ i >= 1 /\ i <= 3 * n - 1
  BY DEF PairWidth
<1> DEFINE j == i \div 3
<1>2. j \in Nat /\ (i = 3 * j \/ i = 3 * j + 1 \/ i = 3 * j + 2)
  BY <1>1
<1> HIDE DEF j
<1>3. CASE i = 3 * j
  <2>1. j \in 1..(n - 1)
    BY <1>1, <1>2, <1>3
  <2> QED BY <1>3, <2>1
<1>4. CASE i = 3 * j + 1 \/ i = 3 * j + 2
  <2>1. j + 1 \in 1..n /\ (i = 3 * (j + 1) - 2 \/ i = 3 * (j + 1) - 1)
    BY <1>1, <1>2, <1>4
  <2> QED BY <2>1
<1> QED BY <1>2, <1>3, <1>4

LEMMA ItemsFit ==
    ASSUME NEW g, NEW R, NEW o \in Nat, NEW n \in Nat, NEW P, Items(g, o, n, P),
           \A i \in 1..n : R[o + 2 * i - 1] \in P,
           \A i \in 1..(n - 1) : R[o + 2 * i] = Comma,
           NEW i \in (o + 1)..(o + Width(n))
    PROVE  R[i] \in g[i]
<1>0. Width(n) \in Nat
  BY DEF Width
<1>1. i - o \in 1..Width(n) /\ i = o + (i - o)
  BY <1>0
<1>2. (\E j \in 1..n : i - o = 2 * j - 1) \/ (\E j \in 1..(n - 1) : i - o = 2 * j)
  BY <1>1, SinglePlaces
<1>3. ASSUME NEW j \in 1..n, i - o = 2 * j - 1 PROVE R[i] \in g[i]
  <2>1. i = o + 2 * j - 1
    BY <1>1, <1>3
  <2> QED BY <2>1 DEF Items
<1>4. ASSUME NEW j \in 1..(n - 1), i - o = 2 * j PROVE R[i] \in g[i]
  <2>1. i = o + 2 * j
    BY <1>1, <1>4
  <2> QED BY <2>1 DEF Items
<1> QED BY <1>2, <1>3, <1>4

LEMMA ColumnsFit ==
    ASSUME NEW g, NEW R, NEW o \in Nat, NEW n \in Nat, Columns(g, o, n),
           \A i \in 1..n : R[o + 3 * i - 2] \in Name /\ R[o + 3 * i - 1] \in Type,
           \A i \in 1..(n - 1) : R[o + 3 * i] = Comma,
           NEW i \in (o + 1)..(o + PairWidth(n))
    PROVE  R[i] \in g[i]
<1>0. PairWidth(n) \in Nat
  BY DEF PairWidth
<1>1. i - o \in 1..PairWidth(n) /\ i = o + (i - o)
  BY <1>0
<1>2. (\E j \in 1..n : i - o = 3 * j - 2 \/ i - o = 3 * j - 1) \/ (\E j \in 1..(n - 1) : i - o = 3 * j)
  BY <1>1, PairPlaces
<1>3. ASSUME NEW j \in 1..n, i - o = 3 * j - 2 \/ i - o = 3 * j - 1 PROVE R[i] \in g[i]
  <2>1. i = o + 3 * j - 2 \/ i = o + 3 * j - 1
    BY <1>1, <1>3
  <2> QED BY <2>1 DEF Columns
<1>4. ASSUME NEW j \in 1..(n - 1), i - o = 3 * j PROVE R[i] \in g[i]
  <2>1. i = o + 3 * j
    BY <1>1, <1>4
  <2> QED BY <2>1 DEF Columns
<1> QED BY <1>2, <1>3, <1>4

\* R up to place e is a sentence of form g.
Fits(R, e, g) == g \in Seq(Places) /\ Len(g) = e /\ \A i \in 1..e : R[i] \in g[i]

LEMMA SaysKey == ASSUME NEW R, NEW i, NEW w, Says(R, i, w) PROVE R[i] \in Key(w) /\ R[i] \in Name
  BY Tells DEF Says, Name

LEMMA TableFits ==
    ASSUME NEW R, NEW s \in Statement, NEW e, TableSaid(R, s, e)
    PROVE  Fits(R, e, TableForm(Len(s.columns)))
<1> DEFINE c == Len(s.columns)
           g == TableForm(c)
<1>0. c \in Nat
  BY Fields
<1>1. /\ TableOpen(R, s) /\ c >= 1 /\ ColumnsSaid(R, s, c) /\ ColumnCommas(R, c - 1)
      /\ e = 3 * c + 4 /\ R[e] = RParen
  BY DEF TableSaid
<1>2. g \in Seq(Places) /\ TablePlaces(g, c)
  BY <1>0, TableIs
<1> HIDE DEF c, g
<1>3. PairWidth(c) + 5 = e /\ 4 + PairWidth(c) = e - 1 /\ e \in Nat
  BY <1>0, <1>1 DEF PairWidth
<1>4. R[1] \in g[1] /\ R[2] \in g[2] /\ R[3] \in g[3] /\ R[4] \in g[4] /\ R[e] \in g[e]
  BY <1>1, <1>2, <1>3, SaysKey DEF TableOpen, TableHead, TablePlaces
<1>5. ASSUME NEW i \in 5..(e - 1) PROVE R[i] \in g[i]
  <2>1. \A j \in 1..c : R[4 + 3 * j - 2] \in Name /\ R[4 + 3 * j - 1] \in Type
    <3> TAKE j \in 1..c
    <3>1. 4 + 3 * j - 2 = 3 * j + 2 /\ 4 + 3 * j - 1 = 3 * j + 3
      BY <1>0
    <3>2. /\ Says(R, 3 * j + 2, s.columns[j].name) /\ Says(R, 3 * j + 3, s.columns[j].type)
          /\ s.columns[j].type \in TypeNames
      BY <1>1 DEF ColumnsSaid
    <3> QED BY <3>1, <3>2, Tells DEF Says, Name
  <2>2. \A j \in 1..(c - 1) : R[4 + 3 * j] = Comma
    <3> TAKE j \in 1..(c - 1)
    <3>1. 4 + 3 * j = 3 * j + 4
      BY <1>0
    <3> QED BY <1>1, <3>1 DEF ColumnCommas
  <2>3. 4 \in Nat /\ i \in (4 + 1)..(4 + PairWidth(c))
    BY <1>3
  <2> QED BY <1>0, <1>2, <2>1, <2>2, <2>3, ColumnsFit DEF TablePlaces
<1>6. \A i \in 1..e : i \in {1, 2, 3, 4, e} \/ i \in 5..(e - 1)
  BY <1>3
<1>7. Len(g) = e
  BY <1>2, <1>3 DEF TablePlaces
<1> QED BY <1>2, <1>4, <1>5, <1>6, <1>7 DEF Fits, g, c

LEMMA IndexFits ==
    ASSUME NEW R, NEW s, NEW e, IndexSaid(R, s, e)
    PROVE  Fits(R, e, IndexForm)
<1> DEFINE g == IndexForm
<1>1. g \in Seq(Places) /\ IndexPlaces(g)
  BY IndexIs
<1>2. /\ Says(R, 1, "create") /\ Says(R, 2, "index") /\ Says(R, 3, s.name) /\ Says(R, 4, "on")
      /\ Says(R, 5, s.table) /\ R[6] = LParen /\ Says(R, 7, s.column) /\ R[8] = RParen /\ e = 8
  BY DEF IndexSaid, IndexOn, IndexHead
<1> HIDE DEF g
<1>3. /\ R[1] \in g[1] /\ R[2] \in g[2] /\ R[3] \in g[3] /\ R[4] \in g[4]
      /\ R[5] \in g[5] /\ R[6] \in g[6] /\ R[7] \in g[7] /\ R[8] \in g[8]
  BY <1>1, <1>2, SaysKey DEF IndexPlaces
<1>4. \A i \in 1..8 : i \in {1, 2, 3, 4, 5, 6, 7, 8}
  OBVIOUS
<1> QED BY <1>1, <1>2, <1>3, <1>4 DEF Fits, IndexPlaces, g

LEMMA LoadFits ==
    ASSUME NEW R, NEW s, NEW e, LoadSaid(R, s, e)
    PROVE  Fits(R, e, LoadForm)
<1> DEFINE g == LoadForm
<1>1. g \in Seq(Places) /\ LoadPlaces(g)
  BY LoadIs
<1>2. Says(R, 1, "load") /\ Says(R, 2, "extension") /\ Says(R, 3, s.name) /\ e = 3
  BY DEF LoadSaid
<1> HIDE DEF g
<1>3. R[1] \in g[1] /\ R[2] \in g[2] /\ R[3] \in g[3]
  BY <1>1, <1>2, SaysKey DEF LoadPlaces
<1>4. \A i \in 1..3 : i \in {1, 2, 3}
  OBVIOUS
<1> QED BY <1>1, <1>2, <1>3, <1>4 DEF Fits, LoadPlaces, g

\* The literals of a list that follows place b.
LEMMA LiteralsFit ==
    ASSUME NEW R, NEW s \in Statement, NEW b \in Nat, NEW g, Items(g, b, Len(s.values), Literal),
           ValuesSaid(R, s, b), ValueCommas(R, b, Len(s.values) - 1)
    PROVE  \A i \in (b + 1)..(b + Width(Len(s.values))) : R[i] \in g[i]
<1> DEFINE v == Len(s.values)
<1>0. v \in Nat
  BY Fields
<1>1. \A i \in 1..v : R[b + 2 * i - 1] \in Literal
  BY DEF ValuesSaid, Means
<1>2. \A i \in 1..(v - 1) : R[b + 2 * i] = Comma
  BY DEF ValueCommas
<1> QED BY <1>0, <1>1, <1>2, ItemsFit

LEMMA InsertFits ==
    ASSUME NEW R, NEW s \in Statement, NEW e, Opened(R, s, 5), ValuesSaid(R, s, 5),
           ValueCommas(R, 5, Len(s.values) - 1), e = Width(Len(s.values)) + 5 + 1, R[e] = RParen
    PROVE  Fits(R, e, InsertForm(Len(s.values)))
<1> DEFINE v == Len(s.values)
           g == InsertForm(v)
<1>0. v \in Nat
  BY Fields
<1>1. g \in Seq(Places) /\ InsertPlaces(g, v)
  BY <1>0, InsertIs
<1>2. /\ Says(R, 1, "insert") /\ Says(R, 2, "into") /\ Says(R, 3, s.table) /\ Says(R, 4, "values")
      /\ R[5] = LParen
  BY DEF Opened, InsertInto, InsertHead
<1>3. /\ ValuesSaid(R, s, 5) /\ ValueCommas(R, 5, v - 1) /\ R[e] = RParen
      /\ e = Width(v) + 6 /\ 5 + Width(v) = e - 1 /\ e \in Nat
  BY <1>0 DEF Width
<1> HIDE DEF g
<1>4. \A i \in 6..(e - 1) : R[i] \in g[i]
  <2>1. 5 \in Nat /\ 5 + 1 = 6
    OBVIOUS
  <2>2. Items(g, 5, v, Literal)
    BY <1>1 DEF InsertPlaces
  <2>3. \A i \in (5 + 1)..(5 + Width(v)) : R[i] \in g[i]
    BY <1>3, <2>1, <2>2, LiteralsFit
  <2> QED BY <1>3, <2>1, <2>3
<1> HIDE DEF v
<1>5. /\ R[1] \in g[1] /\ R[2] \in g[2] /\ R[3] \in g[3] /\ R[4] \in g[4] /\ R[5] \in g[5]
      /\ R[e] \in g[e]
  BY <1>1, <1>2, <1>3, SaysKey DEF InsertPlaces
<1>6. \A i \in 1..e : i \in {1, 2, 3, 4, 5, e} \/ i \in 6..(e - 1)
  BY <1>3
<1>7. Len(g) = e
  BY <1>1, <1>3 DEF InsertPlaces
<1> QED BY <1>1, <1>4, <1>5, <1>6, <1>7 DEF Fits, g, v

LEMMA CallFits ==
    ASSUME NEW R, NEW s \in Statement, NEW e, Opened(R, s, 3), ValuesSaid(R, s, 3),
           ValueCommas(R, 3, Len(s.values) - 1), e = Width(Len(s.values)) + 3 + 1, R[e] = RParen
    PROVE  Fits(R, e, CallForm(Len(s.values)))
<1> DEFINE v == Len(s.values)
           g == CallForm(v)
<1>0. v \in Nat
  BY Fields
<1>1. g \in Seq(Places) /\ CallPlaces(g, v)
  BY <1>0, CallIs
<1>2. Says(R, 1, "select") /\ Says(R, 2, s.name) /\ R[3] = LParen
  BY DEF Opened, CallHead
<1>3. /\ ValuesSaid(R, s, 3) /\ ValueCommas(R, 3, v - 1) /\ R[e] = RParen
      /\ e = Width(v) + 4 /\ 3 + Width(v) = e - 1 /\ e \in Nat
  BY <1>0 DEF Width
<1> HIDE DEF g
<1>4. \A i \in 4..(e - 1) : R[i] \in g[i]
  <2>1. 3 \in Nat /\ 3 + 1 = 4
    OBVIOUS
  <2>2. Items(g, 3, v, Literal)
    BY <1>1 DEF CallPlaces
  <2>3. \A i \in (3 + 1)..(3 + Width(v)) : R[i] \in g[i]
    BY <1>3, <2>1, <2>2, LiteralsFit
  <2> QED BY <1>3, <2>1, <2>3
<1> HIDE DEF v
<1>5. R[1] \in g[1] /\ R[2] \in g[2] /\ R[3] \in g[3] /\ R[e] \in g[e]
  BY <1>1, <1>2, <1>3, SaysKey DEF CallPlaces
<1>6. \A i \in 1..e : i \in {1, 2, 3, e} \/ i \in 4..(e - 1)
  BY <1>3
<1>7. Len(g) = e
  BY <1>1, <1>3 DEF CallPlaces
<1> QED BY <1>1, <1>4, <1>5, <1>6, <1>7 DEF Fits, g, v

LEMMA ProjectionFits ==
    ASSUME NEW R, NEW s \in Statement, NEW e, ProjectionSaid(R, s, e)
    PROVE  \E n, p : /\ n \in 0..e /\ IsProjection(p, n) /\ Len(p) = e - 1
                     /\ \A i \in 1..(e - 1) : R[1 + i] \in p[i]
<1> DEFINE c == Len(s.columns)
<1>0. c \in Nat
  BY Fields
<1>1. CASE e = 2 /\ R[2] = Star
  <2> DEFINE p == <<{Star}>>
  <2>1. Len(p) = e - 1 /\ p[1] = {Star} /\ IsProjection(p, 0) /\ 0 \in 0..e
    BY <1>1 DEF IsProjection
  <2> HIDE DEF p
  <2>2. \A i \in 1..(e - 1) : i = 1 /\ 1 + i = 2
    BY <1>1
  <2>3. \A i \in 1..(e - 1) : R[1 + i] \in p[i]
    BY <1>1, <2>1, <2>2
  <2> QED BY <2>1, <2>3
<1>2. CASE c >= 1 /\ e = 2 * c /\ NamesSaid(R, s) /\ NameCommas(R, c - 1)
  <2> DEFINE p == List(c, <<Name>>)
  <2>1. Name \in Places
    BY PlaceTypes
  <2> HIDE DEF c
  <2>2. /\ Len(p) = Width(c) /\ (\A i \in 1..c : p[2 * i - 1] = Name)
        /\ \A i \in 1..(c - 1) : p[2 * i] = {Comma}
    <3>1. /\ p \in Seq(Places) /\ Len(p) = Width(c) /\ Width(c) \in Nat
          /\ \A i \in 1..c : p[2 * i - 1] = Name /\ 2 * i - 1 \in 1..Width(c)
          /\ \A i \in 1..(c - 1) : p[2 * i] = {Comma} /\ 2 * i \in 1..Width(c)
      BY <1>0, <2>1, ItemFacts, Zenon
    <3> HIDE DEF p
    <3> QED BY <3>1, Zenon
  <2>3. IsProjection(p, c)
    BY <1>2 DEF IsProjection
  <2> HIDE DEF p
  <2>4. c \in 0..e /\ Width(c) = e - 1
    BY <1>0, <1>2 DEF Width
  <2>5. ASSUME NEW i \in 1..(e - 1) PROVE R[1 + i] \in p[i]
    <3>1. (\E j \in 1..c : i = 2 * j - 1) \/ (\E j \in 1..(c - 1) : i = 2 * j)
      BY <1>0, <2>4, SinglePlaces
    <3>2. ASSUME NEW j \in 1..c, i = 2 * j - 1 PROVE R[1 + i] \in p[i]
      <4>1. 1 + i = 2 * j
        BY <1>0, <3>2
      <4>2. Says(R, 2 * j, s.columns[j].name)
        BY <1>2 DEF NamesSaid, c
      <4> QED BY <2>2, <3>2, <4>1, <4>2, SaysKey
    <3>3. ASSUME NEW j \in 1..(c - 1), i = 2 * j PROVE R[1 + i] \in p[i]
      <4>1. 1 + i = 2 * j + 1
        BY <1>0, <3>3
      <4> QED BY <1>2, <2>2, <3>3, <4>1 DEF NameCommas
    <3> QED BY <3>1, <3>2, <3>3
  <2> QED BY <2>2, <2>3, <2>4, <2>5
<1> QED BY <1>1, <1>2 DEF ProjectionSaid

\* A query without its predicate ends at place q.
LEMMA SelectFits ==
    ASSUME NEW R, NEW s \in Statement, NEW q \in Int, FromSaid(R, s, q)
    PROVE  \E n, p :
             /\ n \in 0..q /\ IsProjection(p, n) /\ Fits(R, q, SelectForm(p, << >>))
             /\ /\ R[q + 1] \in Key("where") /\ R[q + 2] \in Name
                /\ R[q + 3] = Equals /\ R[q + 4] \in Literal
                => Fits(R, q + 4, SelectForm(p, WhereForm))
<1> DEFINE e == q - 2
<1>1. SelectHead(R, s) /\ ProjectionSaid(R, s, e) /\ Says(R, q - 1, "from") /\ Says(R, q, s.table)
  BY DEF FromSaid
<1>2. e \in Nat /\ e >= 2
  BY <1>1, ProjectionEnds
<1>3. PICK n, p : /\ n \in 0..e /\ IsProjection(p, n) /\ Len(p) = e - 1
                  /\ \A i \in 1..(e - 1) : R[1 + i] \in p[i]
  BY <1>1, ProjectionFits
<1>q. q = e + 2 /\ q - 1 = e + 1
  OBVIOUS
<1> HIDE DEF e
<1>4. n \in Nat /\ n \in 0..q
  BY <1>2, <1>3, <1>q
<1>5. ASSUME NEW w, w = << >> \/ w = WhereForm
      PROVE  LET g == SelectForm(p, w)
             IN  /\ g \in Seq(Places) /\ Len(g) = (e - 1) + Len(w) + 3 /\ SelectPlaces(g, n, e)
                 /\ \A i \in 1..q : R[i] \in g[i]
  <2> DEFINE g == SelectForm(p, w)
  <2>1. /\ g \in Seq(Places) /\ Len(g) = Len(p) + Len(w) + 3 /\ SelectPlaces(g, n, Len(p) + 1)
        /\ \A i \in 1..Len(p) : g[1 + i] = p[i]
    BY <1>3, <1>4, <1>5, SelectIs
  <2> HIDE DEF g
  <2>2. (e - 1) + 1 = e
    BY <1>2
  <2>3. /\ g \in Seq(Places) /\ Len(g) = (e - 1) + Len(w) + 3 /\ SelectPlaces(g, n, e)
        /\ \A i \in 1..(e - 1) : g[1 + i] = p[i]
    BY <1>3, <2>1, <2>2
  <2>4. R[1] \in g[1] /\ R[e + 1] \in g[e + 1] /\ R[e + 2] \in g[e + 2]
    BY <1>1, <1>q, <2>3, SaysKey DEF SelectHead, SelectPlaces
  <2>5. \A i \in 2..e : i - 1 \in 1..(e - 1) /\ 1 + (i - 1) = i
    BY <1>2
  <2>6. \A i \in 2..e : R[i] \in g[i]
    BY <1>3, <2>3, <2>5
  <2>7. \A i \in 1..q : i = 1 \/ i \in 2..e \/ i = e + 1 \/ i = e + 2
    BY <1>2, <1>q
  <2>8. \A i \in 1..q : R[i] \in g[i]
    BY <2>4, <2>6, <2>7
  <2> QED BY <2>3, <2>8 DEF g
<1>6. Fits(R, q, SelectForm(p, << >>))
  <2> DEFINE g == SelectForm(p, << >>)
  <2>1. g \in Seq(Places) /\ Len(g) = (e - 1) + Len(<< >>) + 3 /\ \A i \in 1..q : R[i] \in g[i]
    BY <1>5
  <2>2. (e - 1) + Len(<< >>) + 3 = q
    BY <1>2, <1>q
  <2> HIDE DEF g
  <2> QED BY <2>1, <2>2 DEF Fits, g
<1>7. ASSUME R[q + 1] \in Key("where"), R[q + 2] \in Name, R[q + 3] = Equals, R[q + 4] \in Literal
      PROVE  Fits(R, q + 4, SelectForm(p, WhereForm))
  <2> DEFINE g == SelectForm(p, WhereForm)
  <2>1. /\ g \in Seq(Places) /\ Len(g) = (e - 1) + Len(WhereForm) + 3 /\ SelectPlaces(g, n, e)
        /\ \A i \in 1..q : R[i] \in g[i]
    BY <1>5
  <2>2. Len(WhereForm) = 4
    BY DEF WhereForm
  <2> HIDE DEF g
  <2>3. /\ Len(g) = q + 4 /\ Len(g) = e + 6 /\ e + 6 # e + 2
        /\ e + 3 = q + 1 /\ e + 4 = q + 2 /\ e + 5 = q + 3 /\ e + 6 = q + 4
    BY <1>2, <1>q, <2>1, <2>2
  <2>4. g[e + 3] = Key("where") /\ g[e + 4] = Name /\ g[e + 5] = {Equals} /\ g[e + 6] = Literal
    BY <2>1, <2>3 DEF SelectPlaces
  <2>5. \A i \in 1..(q + 4) : i \in 1..q \/ i \in {q + 1, q + 2, q + 3, q + 4}
    OBVIOUS
  <2>6. \A i \in 1..(q + 4) : R[i] \in g[i]
    BY <1>7, <2>1, <2>3, <2>4, <2>5
  <2> QED BY <2>1, <2>3, <2>6 DEF Fits, g
<1> QED BY <1>3, <1>4, <1>6, <1>7

LEMMA SaidFits ==
    ASSUME NEW R, NEW s \in Statement, NEW e \in 1..MaxTokens, Said(R, s, e)
    PROVE  \E n \in 0..MaxTokens : \E g \in Sentences(n) : Fits(R, e, g)
<1> DEFINE c == Len(s.columns)
           v == Len(s.values)
<1>0. c \in Nat /\ v \in Nat /\ MaxTokens \in Nat /\ e \in Int
  BY Fields, ParserAssumption
<1>1. CASE TableSaid(R, s, e)
  <2>1. Fits(R, e, TableForm(c))
    BY <1>1, TableFits
  <2>2. e = 3 * c + 4 /\ c # 0
    BY <1>0, <1>1 DEF TableSaid
  <2> HIDE DEF c
  <2>3. c \in 0..MaxTokens
    BY <1>0, <2>2
  <2>4. TableForm(c) \in Sentences(c)
    BY <2>2, SentenceKinds
  <2> QED BY <2>1, <2>3, <2>4
<1>2. CASE IndexSaid(R, s, e)
  <2>1. Fits(R, e, IndexForm) /\ IndexForm \in Sentences(0) /\ 0 \in 0..MaxTokens
    BY <1>0, <1>2, IndexFits, SentenceKinds
  <2> QED BY <2>1
<1>3. CASE LoadSaid(R, s, e)
  <2>1. Fits(R, e, LoadForm) /\ LoadForm \in Sentences(0) /\ 0 \in 0..MaxTokens
    BY <1>0, <1>3, LoadFits, SentenceKinds
  <2> QED BY <2>1
<1>4. CASE ListSaid(R, s, e)
  <2>1. PICK b \in {3, 5} : /\ Opened(R, s, b) /\ ValuesSaid(R, s, b) /\ ValueCommas(R, b, v - 1)
                            /\ e = Width(v) + b + 1 /\ R[e] = RParen
    BY <1>4 DEF ListSaid
  <2>2. v \in 0..MaxTokens
    <3> HIDE DEF v
    <3> QED BY <1>0, <2>1 DEF Width
  <2>3. CASE b = 5
    <3>1. Fits(R, e, InsertForm(v))
      BY <2>1, <2>3, InsertFits
    <3>2. InsertForm(v) \in Sentences(v)
      BY SentenceKinds
    <3> QED BY <2>2, <3>1, <3>2
  <2>4. CASE b = 3
    <3>1. Fits(R, e, CallForm(v))
      BY <2>1, <2>4, CallFits
    <3>2. CallForm(v) \in Sentences(v)
      BY SentenceKinds
    <3> QED BY <2>2, <3>1, <3>2
  <2> QED BY <2>3, <2>4
<1>5. ASSUME NEW n \in Nat, NEW p, IsProjection(p, n)
      PROVE  SelectForm(p, << >>) \in Sentences(n) /\ SelectForm(p, WhereForm) \in Sentences(n)
  <2>1. p = <<{Star}>> \/ (n > 0 /\ p = List(n, <<Name>>))
    BY <1>5 DEF IsProjection
  <2> QED BY <2>1, SentenceKinds
<1>6. CASE PlainSaid(R, s, e)
  <2>1. FromSaid(R, s, e)
    BY <1>6 DEF PlainSaid
  <2>2. PICK n, p : n \in 0..e /\ IsProjection(p, n) /\ Fits(R, e, SelectForm(p, << >>))
    BY <1>0, <2>1, SelectFits
  <2>3. n \in Nat /\ n \in 0..MaxTokens
    BY <1>0, <2>2
  <2> QED BY <1>5, <2>2, <2>3
<1>7. CASE WhereSaid(R, s, e)
  <2> DEFINE q == e - 4
  <2>1. /\ FromSaid(R, s, q) /\ Says(R, e - 3, "where") /\ Says(R, e - 2, s.column)
        /\ R[e - 1] = Equals /\ R[e] \in Literal
    BY <1>7 DEF WhereSaid, Means
  <2>2. q \in Int /\ q + 1 = e - 3 /\ q + 2 = e - 2 /\ q + 3 = e - 1 /\ q + 4 = e
    BY <1>0
  <2> HIDE DEF q
  <2>3. R[q + 1] \in Key("where") /\ R[q + 2] \in Name /\ R[q + 3] = Equals /\ R[q + 4] \in Literal
    BY <2>1, <2>2, SaysKey
  <2>4. PICK n, p : n \in 0..q /\ IsProjection(p, n) /\ Fits(R, q + 4, SelectForm(p, WhereForm))
    BY <2>1, <2>2, <2>3, SelectFits
  <2>5. n \in Nat /\ n \in 0..MaxTokens
    BY <1>0, <2>2, <2>4
  <2> QED BY <1>5, <2>2, <2>4, <2>5
<1> QED BY <1>1, <1>2, <1>3, <1>4, <1>6, <1>7 DEF Said

\* What finish accepts is a form of the grammar.
LEMMA AcceptedForm ==
    ASSUME NEW R, NEW T, Kept(R, Eof, T), Len(T) <= MaxTokens, NEW s \in Statement,
           Behind(R, s, "finish")
    PROVE  \E f \in Grammar : Len(f) = Len(T) /\ \A i \in 1..Len(T) : T[i] \in f[i]
<1>0. Len(R) \in Nat /\ Len(T) = Len(R) + 1 /\ T[Len(R) + 1] = Eof /\ \A i \in 1..Len(R) : T[i] = R[i]
  BY DEF Kept
<1>m. MaxTokens \in Nat
  BY ParserAssumption
<1>1. PICK e \in 1..Len(R) : Said(R, s, e) /\ \A i \in (e + 1)..Len(R) : R[i] = Semicolon
  BY OtherBehindIs
<1>2. e \in 1..MaxTokens /\ e \in Nat
  BY <1>0, <1>m
<1>3. PICK n \in 0..MaxTokens : \E g \in Sentences(n) : Fits(R, e, g)
  BY <1>1, <1>2, SaidFits
<1>4. PICK g \in Sentences(n) : Fits(R, e, g)
  BY <1>3
<1> DEFINE k == Len(R) - e
           f == Whole(g, k)
<1>5. k \in 0..MaxTokens /\ k \in Nat /\ e + k = Len(R)
  BY <1>0, <1>m
<1>6. g \in Seq(Places) /\ Len(g) = e /\ \A i \in 1..e : R[i] \in g[i]
  BY <1>4 DEF Fits
<1>7. IsWhole(g, k, f)
  BY <1>5, <1>6, WholeFacts
<1> HIDE DEF k
<1>8. \E j \in 0..MaxTokens : \E h \in Sentences(n) : f = Whole(h, j)
  BY <1>5
<1> HIDE DEF f
<1>9. /\ Len(f) = Len(T) /\ f[Len(R) + 1] = {Eof} /\ (\A i \in 1..e : f[i] = g[i])
      /\ \A i \in 1..k : f[e + i] = {Semicolon}
  BY <1>0, <1>5, <1>6, <1>7 DEF IsWhole
<1>10. f \in Grammar
  <2>1. Len(f) <= MaxTokens + 8
    BY <1>0, <1>9, <1>m
  <2> QED BY <1>3, <1>8, <2>1, GrammarIs
<1>11. ASSUME NEW i \in 1..Len(T) PROVE T[i] \in f[i]
  <2>1. CASE i \in 1..e
    <3>1. i \in 1..Len(R)
      BY <2>1
    <3> QED BY <1>0, <1>6, <1>9, <2>1, <3>1
  <2>2. CASE i \in (e + 1)..Len(R)
    <3>1. i \in 1..Len(R) /\ i - e \in 1..k /\ e + (i - e) = i
      BY <1>0, <1>5, <2>2
    <3>2. T[i] = Semicolon
      BY <1>0, <1>1, <2>2, <3>1
    <3>3. f[i] = {Semicolon}
      BY <1>9, <3>1
    <3> QED BY <3>2, <3>3
  <2>3. CASE i = Len(R) + 1
    BY <1>0, <1>9, <2>3
  <2> QED BY <1>0, <2>1, <2>2, <2>3
<1> QED BY <1>9, <1>10, <1>11

-----------------------------------------------------------------------------
(* The statement, written out again. *)

\* The words of R up to place e.
Spells(R, e, w) == w \in Seq(Words) /\ Len(w) = e /\ \A i \in 1..e : w[i] = Folded(R[i])

LEMMA FoldedMarks ==
    /\ Folded(Comma) = "," /\ Folded(LParen) = "(" /\ Folded(RParen) = ")"
    /\ Folded(Star) = "*" /\ Folded(Equals) = "="
<1>1. /\ Comma.word = "," /\ LParen.word = "(" /\ RParen.word = ")"
      /\ Star.word = "*" /\ Equals.word = "="
  BY DEF Comma, LParen, RParen, Star, Equals, Token
<1> QED BY <1>1, TokenKinds DEF Folded

LEMMA FoldedWords ==
    /\ \A R, i, w : Says(R, i, w) => Folded(R[i]) = w
    /\ \A R, i, v : Means(R, i, v) => Folded(R[i]) = Spelled[v]
<1>1. \A R, i, w : Says(R, i, w) => Folded(R[i]) = w
  BY TokenKinds DEF Says, Folded
<1> QED BY <1>1 DEF Means

\* s is a, b and c in a row.
IsRow(S, a, b, c, s) ==
    /\ s \in Seq(S) /\ Len(s) = Len(a) + Len(b) + Len(c)
    /\ \A i \in 1..Len(a) : s[i] = a[i]
    /\ \A i \in 1..Len(b) : s[Len(a) + i] = b[i]
    /\ \A i \in 1..Len(c) : s[Len(a) + Len(b) + i] = c[i]
LEMMA RowFacts ==
    ASSUME NEW S, NEW a \in Seq(S), NEW b \in Seq(S), NEW c \in Seq(S)
    PROVE  IsRow(S, a, b, c, a \o b \o c)
<1> DEFINE p == a \o b
           s == p \o c
<1>1. IsConcat(S, a, b, p)
  BY ConcatFacts
<1> HIDE DEF p
<1>2. p \in Seq(S)
  BY <1>1 DEF IsConcat
<1>3. IsConcat(S, p, c, s)
  BY <1>2, ConcatFacts
<1> HIDE DEF s
<1>4. Len(a) \in Nat /\ Len(b) \in Nat /\ Len(p) = Len(a) + Len(b) /\ Len(c) \in Nat
  BY <1>1 DEF IsConcat
<1>5. s \in Seq(S) /\ Len(s) = Len(a) + Len(b) + Len(c)
  BY <1>3, <1>4 DEF IsConcat
<1>6. \A i \in 1..Len(a) : s[i] = a[i]
  <2>1. \A i \in 1..Len(a) : i \in 1..Len(p)
    BY <1>4
  <2> QED BY <1>1, <1>3, <2>1 DEF IsConcat
<1>7. \A i \in 1..Len(b) : s[Len(a) + i] = b[i]
  <2>1. \A i \in 1..Len(b) : Len(a) + i \in 1..Len(p)
    BY <1>4
  <2> QED BY <1>1, <1>3, <2>1 DEF IsConcat
<1>8. \A i \in 1..Len(c) : s[Len(a) + Len(b) + i] = c[i]
  BY <1>3, <1>4 DEF IsConcat
<1> QED BY <1>5, <1>6, <1>7, <1>8 DEF IsRow, s, p

\* The lists of Written.
NamesAndTypes ==
    FlattenSeq(Between(",", [i \in DOMAIN stmt.columns |-> <<stmt.columns[i].name, stmt.columns[i].type>>]))
Names == FlattenSeq(Between(",", [i \in DOMAIN stmt.columns |-> <<stmt.columns[i].name>>]))
Literals == FlattenSeq(Between(",", [i \in DOMAIN stmt.values |-> <<Spelled[stmt.values[i]]>>]))

LEMMA WrittenIs ==
    /\ stmt.kind = "table" =>
         Written = <<"create", "table", stmt.table, "(">> \o NamesAndTypes \o <<")">>
    /\ stmt.kind = "index" =>
         Written = <<"create", "index", stmt.name, "on", stmt.table, "(", stmt.column, ")">>
    /\ stmt.kind = "insert" =>
         Written = <<"insert", "into", stmt.table, "values", "(">> \o Literals \o <<")">>
    /\ stmt.kind = "load" => Written = <<"load", "extension", stmt.name>>
    /\ stmt.kind = "function" => Written = <<"select", stmt.name, "(">> \o Literals \o <<")">>
    /\ stmt.kind = "select" =>
         Written = <<"select">> \o (IF stmt.all THEN <<"*">> ELSE Names)
                     \o <<"from", stmt.table>>
                     \o (IF stmt.where THEN <<"where", stmt.column, "=">> \o Literals ELSE << >>)
<1> DEFINE L(s) == FlattenSeq([i \in DOMAIN s |-> IF i = 1 THEN s[i] ELSE <<",">> \o s[i]])
           C == L([i \in DOMAIN stmt.columns |->
                     IF stmt.kind = "table"
                     THEN <<stmt.columns[i].name, stmt.columns[i].type>>
                     ELSE <<stmt.columns[i].name>>])
           V == L([i \in DOMAIN stmt.values |-> <<Spelled[stmt.values[i]]>>])
<1>1. Written =
        CASE stmt.kind = "table" ->
               <<"create", "table", stmt.table, "(">> \o C \o <<")">>
          [] stmt.kind = "index" ->
               <<"create", "index", stmt.name, "on", stmt.table, "(", stmt.column, ")">>
          [] stmt.kind = "insert" ->
               <<"insert", "into", stmt.table, "values", "(">> \o V \o <<")">>
          [] stmt.kind = "load" -> <<"load", "extension", stmt.name>>
          [] stmt.kind = "function" -> <<"select", stmt.name, "(">> \o V \o <<")">>
          [] stmt.kind = "select" ->
               <<"select">> \o (IF stmt.all THEN <<"*">> ELSE C)
                 \o <<"from", stmt.table>>
                 \o (IF stmt.where THEN <<"where", stmt.column, "=">> \o V ELSE << >>)
  BY DEF Written, Spelled
<1>2. V = Literals
  BY DEF Literals, Between
<1>3. stmt.kind = "table" => C = NamesAndTypes
  <2>1. stmt.kind = "table" =>
          [i \in DOMAIN stmt.columns |->
             IF stmt.kind = "table" THEN <<stmt.columns[i].name, stmt.columns[i].type>>
             ELSE <<stmt.columns[i].name>>]
          = [i \in DOMAIN stmt.columns |-> <<stmt.columns[i].name, stmt.columns[i].type>>]
    OBVIOUS
  <2> QED BY <2>1 DEF NamesAndTypes, Between
<1>4. stmt.kind = "select" => C = Names
  <2>1. stmt.kind = "select" =>
          [i \in DOMAIN stmt.columns |->
             IF stmt.kind = "table" THEN <<stmt.columns[i].name, stmt.columns[i].type>>
             ELSE <<stmt.columns[i].name>>]
          = [i \in DOMAIN stmt.columns |-> <<stmt.columns[i].name>>]
    OBVIOUS
  <2> QED BY <2>1 DEF Names, Between
<1> HIDE DEF C, V
<1> QED BY <1>1, <1>2, <1>3, <1>4

LEMMA CommaWord == "," \in Words
  BY Zenon DEF Words

LEMMA MarkWords ==
    /\ "(" \in Words /\ ")" \in Words /\ "*" \in Words /\ "=" \in Words
    /\ "create" \in Words /\ "table" \in Words /\ "index" \in Words /\ "on" \in Words
    /\ "insert" \in Words /\ "into" \in Words /\ "values" \in Words /\ "load" \in Words
    /\ "extension" \in Words /\ "select" \in Words /\ "from" \in Words /\ "where" \in Words
  BY DEF Words

LEMMA SpelledWords == \A v \in Values : Spelled[v] \in Words
<1>1. /\ Spelled["null"] = "null" /\ Spelled["text"] = "x"
      /\ Spelled["integer"] = "7" /\ Spelled["double"] = "7.5"
  BY DEF Spelled
<1>2. "null" \in Words /\ "x" \in Words /\ "7" \in Words /\ "7.5" \in Words
  BY DEF Words
<1> QED BY <1>1, <1>2 DEF Values

LEMMA NamesAndTypesAre ==
    ASSUME stmt \in Statement
    PROVE  LET n == Len(stmt.columns)
           IN  /\ NamesAndTypes \in Seq(Words) /\ Len(NamesAndTypes) = PairWidth(n)
               /\ \A i \in 1..n : /\ NamesAndTypes[3 * i - 2] = stmt.columns[i].name
                                  /\ NamesAndTypes[3 * i - 1] = stmt.columns[i].type
               /\ \A i \in 1..(n - 1) : NamesAndTypes[3 * i] = ","
<1> DEFINE cs == stmt.columns
           n == Len(cs)
           x == [i \in 1..n |-> cs[i].name]
           y == [i \in 1..n |-> cs[i].type]
           ss == [i \in DOMAIN cs |-> <<cs[i].name, cs[i].type>>]
<1>1. cs \in Seq(Column) /\ n \in Nat /\ DOMAIN cs = 1..n
  BY Fields
<1>2. \A i \in 1..n : cs[i].name \in Words /\ cs[i].type \in Words
  <2>1. \A i \in 1..n : cs[i] \in Column
    BY <1>1
  <2> QED BY <2>1 DEF Column
<1>3. \A i \in 1..n : x[i] = cs[i].name /\ y[i] = cs[i].type
  OBVIOUS
<1>4. \A i \in 1..n : ss[i] = <<cs[i].name, cs[i].type>>
  BY <1>1
<1>5. ss \in Seq(Seq(Words)) /\ Len(ss) = n
  <2>1. \A i \in 1..n : <<cs[i].name, cs[i].type>> \in Seq(Words)
    BY <1>2
  <2> QED BY <1>1, <2>1
<1>6. NamesAndTypes = FlattenSeq(Between(",", ss))
  BY DEF NamesAndTypes
<1> HIDE DEF x, y, ss, n
<1>7. Doubles(Words, n, x, y, ss)
  BY <1>2, <1>3, <1>4, <1>5 DEF Doubles
<1>8. IsPairList(Words, ",", n, x, y, NamesAndTypes)
  BY <1>1, <1>6, <1>7, PairList, CommaWord
<1> QED BY <1>3, <1>8 DEF IsPairList, n

LEMMA NamesAre ==
    ASSUME stmt \in Statement
    PROVE  LET n == Len(stmt.columns)
           IN  /\ Names \in Seq(Words) /\ Len(Names) = Width(n)
               /\ \A i \in 1..n : Names[2 * i - 1] = stmt.columns[i].name
               /\ \A i \in 1..(n - 1) : Names[2 * i] = ","
<1> DEFINE cs == stmt.columns
           n == Len(cs)
           x == [i \in 1..n |-> cs[i].name]
           ss == [i \in DOMAIN cs |-> <<cs[i].name>>]
<1>1. cs \in Seq(Column) /\ n \in Nat /\ DOMAIN cs = 1..n
  BY Fields
<1>2. \A i \in 1..n : cs[i].name \in Words
  <2>1. \A i \in 1..n : cs[i] \in Column
    BY <1>1
  <2> QED BY <2>1 DEF Column
<1>3. \A i \in 1..n : x[i] = cs[i].name
  OBVIOUS
<1>4. \A i \in 1..n : ss[i] = <<cs[i].name>>
  BY <1>1
<1>5. ss \in Seq(Seq(Words)) /\ Len(ss) = n
  <2>1. \A i \in 1..n : <<cs[i].name>> \in Seq(Words)
    BY <1>2
  <2> QED BY <1>1, <2>1
<1>6. Names = FlattenSeq(Between(",", ss))
  BY DEF Names
<1> HIDE DEF x, ss, n
<1>7. Singles(Words, n, x, ss)
  BY <1>2, <1>3, <1>4, <1>5 DEF Singles
<1>8. IsSingleList(Words, ",", n, x, Names)
  BY <1>1, <1>6, <1>7, SingleList, CommaWord
<1> QED BY <1>3, <1>8 DEF IsSingleList, n

LEMMA LiteralsAre ==
    ASSUME stmt \in Statement
    PROVE  LET n == Len(stmt.values)
           IN  /\ Literals \in Seq(Words) /\ Len(Literals) = Width(n)
               /\ \A i \in 1..n : Literals[2 * i - 1] = Spelled[stmt.values[i]]
               /\ \A i \in 1..(n - 1) : Literals[2 * i] = ","
<1> DEFINE vs == stmt.values
           n == Len(vs)
           x == [i \in 1..n |-> Spelled[vs[i]]]
           ss == [i \in DOMAIN vs |-> <<Spelled[vs[i]]>>]
<1>1. vs \in Seq(Values) /\ n \in Nat /\ DOMAIN vs = 1..n
  BY Fields
<1>2. \A i \in 1..n : Spelled[vs[i]] \in Words
  <2>1. \A i \in 1..n : vs[i] \in Values
    BY <1>1
  <2> QED BY <2>1, SpelledWords
<1>3. \A i \in 1..n : x[i] = Spelled[vs[i]]
  OBVIOUS
<1>4. \A i \in 1..n : ss[i] = <<Spelled[vs[i]]>>
  BY <1>1
<1>5. ss \in Seq(Seq(Words)) /\ Len(ss) = n
  <2>1. \A i \in 1..n : <<Spelled[vs[i]]>> \in Seq(Words)
    BY <1>2
  <2> QED BY <1>1, <2>1
<1>6. Literals = FlattenSeq(Between(",", ss))
  BY DEF Literals
<1> HIDE DEF x, ss, n
<1>7. Singles(Words, n, x, ss)
  BY <1>2, <1>3, <1>4, <1>5 DEF Singles
<1>8. IsSingleList(Words, ",", n, x, Literals)
  BY <1>1, <1>6, <1>7, SingleList, CommaWord
<1> QED BY <1>3, <1>8 DEF IsSingleList, n

\* The literals that stand behind place b, as words.
LEMMA LiteralsSpelled ==
    ASSUME stmt \in Statement, NEW R, NEW b \in Nat, ValuesSaid(R, stmt, b),
           ValueCommas(R, b, Len(stmt.values) - 1)
    PROVE  \A i \in 1..Len(Literals) : Literals[i] = Folded(R[b + i])
<1> DEFINE n == Len(stmt.values)
<1>0. n \in Nat
  BY Fields
<1>1. /\ Len(Literals) = Width(n)
      /\ \A i \in 1..n : Literals[2 * i - 1] = Spelled[stmt.values[i]]
      /\ \A i \in 1..(n - 1) : Literals[2 * i] = ","
  BY LiteralsAre
<1>s. ValuesSaid(R, stmt, b) /\ ValueCommas(R, b, n - 1)
  OBVIOUS
<1> SUFFICES ASSUME NEW i \in 1..Width(n) PROVE Literals[i] = Folded(R[b + i])
  BY <1>1
<1>2. (\E j \in 1..n : i = 2 * j - 1) \/ (\E j \in 1..(n - 1) : i = 2 * j)
  BY <1>0, SinglePlaces
<1>3. ASSUME NEW j \in 1..n, i = 2 * j - 1 PROVE Literals[i] = Folded(R[b + i])
  <2>1. b + i = b + 2 * j - 1
    BY <1>0, <1>3
  <2>2. Means(R, b + 2 * j - 1, stmt.values[j])
    BY DEF ValuesSaid
  <2>3. Folded(R[b + 2 * j - 1]) = Spelled[stmt.values[j]]
    BY <2>2, FoldedWords
  <2> QED BY <1>1, <1>3, <2>1, <2>3
<1>4. ASSUME NEW j \in 1..(n - 1), i = 2 * j PROVE Literals[i] = Folded(R[b + i])
  <2>1. R[b + 2 * j] = Comma
    BY DEF ValueCommas
  <2> QED BY <1>1, <1>4, <2>1, FoldedMarks
<1> QED BY <1>2, <1>3, <1>4

\* The names of a projection, as words.
LEMMA NamesSpelled ==
    ASSUME stmt \in Statement, NEW R, NamesSaid(R, stmt), NameCommas(R, Len(stmt.columns) - 1)
    PROVE  \A i \in 1..Len(Names) : Names[i] = Folded(R[1 + i])
<1> DEFINE n == Len(stmt.columns)
<1>0. n \in Nat
  BY Fields
<1>1. /\ Len(Names) = Width(n)
      /\ \A i \in 1..n : Names[2 * i - 1] = stmt.columns[i].name
      /\ \A i \in 1..(n - 1) : Names[2 * i] = ","
  BY NamesAre
<1> SUFFICES ASSUME NEW i \in 1..Width(n) PROVE Names[i] = Folded(R[1 + i])
  BY <1>1
<1>2. (\E j \in 1..n : i = 2 * j - 1) \/ (\E j \in 1..(n - 1) : i = 2 * j)
  BY <1>0, SinglePlaces
<1>3. ASSUME NEW j \in 1..n, i = 2 * j - 1 PROVE Names[i] = Folded(R[1 + i])
  <2>1. 1 + i = 2 * j
    BY <1>0, <1>3
  <2>2. Says(R, 2 * j, stmt.columns[j].name)
    BY DEF NamesSaid
  <2> QED BY <1>1, <1>3, <2>1, <2>2, FoldedWords
<1>4. ASSUME NEW j \in 1..(n - 1), i = 2 * j PROVE Names[i] = Folded(R[1 + i])
  <2>1. 1 + i = 2 * j + 1 /\ R[2 * j + 1] = Comma
    BY <1>0, <1>4 DEF NameCommas
  <2> QED BY <1>1, <1>4, <2>1, FoldedMarks
<1> QED BY <1>2, <1>3, <1>4

\* The columns of CREATE TABLE, as words.
LEMMA ColumnsSpelled ==
    ASSUME stmt \in Statement, NEW R, ColumnsSaid(R, stmt, Len(stmt.columns)),
           ColumnCommas(R, Len(stmt.columns) - 1)
    PROVE  \A i \in 1..Len(NamesAndTypes) : NamesAndTypes[i] = Folded(R[4 + i])
<1> DEFINE n == Len(stmt.columns)
<1>0. n \in Nat
  BY Fields
<1>1. /\ Len(NamesAndTypes) = PairWidth(n)
      /\ \A i \in 1..n : /\ NamesAndTypes[3 * i - 2] = stmt.columns[i].name
                         /\ NamesAndTypes[3 * i - 1] = stmt.columns[i].type
      /\ \A i \in 1..(n - 1) : NamesAndTypes[3 * i] = ","
  BY NamesAndTypesAre
<1> SUFFICES ASSUME NEW i \in 1..PairWidth(n) PROVE NamesAndTypes[i] = Folded(R[4 + i])
  BY <1>1
<1>2. (\E j \in 1..n : i = 3 * j - 2 \/ i = 3 * j - 1) \/ (\E j \in 1..(n - 1) : i = 3 * j)
  BY <1>0, PairPlaces
<1>3. ASSUME NEW j \in 1..n, i = 3 * j - 2 \/ i = 3 * j - 1
      PROVE  NamesAndTypes[i] = Folded(R[4 + i])
  <2>1. Says(R, 3 * j + 2, stmt.columns[j].name) /\ Says(R, 3 * j + 3, stmt.columns[j].type)
    BY DEF ColumnsSaid
  <2>2. CASE i = 3 * j - 2
    <3>1. 4 + i = 3 * j + 2
      BY <1>0, <2>2
    <3>2. Folded(R[3 * j + 2]) = stmt.columns[j].name
      BY <2>1, FoldedWords
    <3> QED BY <1>1, <2>2, <3>1, <3>2
  <2>3. CASE i = 3 * j - 1
    <3>1. 4 + i = 3 * j + 3
      BY <1>0, <2>3
    <3>2. Folded(R[3 * j + 3]) = stmt.columns[j].type
      BY <2>1, FoldedWords
    <3> QED BY <1>1, <2>3, <3>1, <3>2
  <2> QED BY <1>3, <2>2, <2>3
<1>4. ASSUME NEW j \in 1..(n - 1), i = 3 * j PROVE NamesAndTypes[i] = Folded(R[4 + i])
  <2>1. 4 + i = 3 * j + 4 /\ R[3 * j + 4] = Comma
    BY <1>0, <1>4 DEF ColumnCommas
  <2> QED BY <1>1, <1>4, <2>1, FoldedMarks
<1> QED BY <1>2, <1>3, <1>4

LEMMA TableSpelled ==
    ASSUME stmt \in Statement, NEW R, NEW e, TableSaid(R, stmt, e)
    PROVE  Spells(R, e, Written)
<1> DEFINE c == Len(stmt.columns)
           a == <<"create", "table", stmt.table, "(">>
           z == <<")">>
<1>0. c \in Nat /\ stmt.table \in Words
  BY Fields
<1>1. /\ TableOpen(R, stmt) /\ c >= 1 /\ ColumnsSaid(R, stmt, c) /\ ColumnCommas(R, c - 1)
      /\ e = 3 * c + 4 /\ R[e] = RParen
  BY DEF TableSaid
<1>2. Written = a \o NamesAndTypes \o z
  BY <1>1, WrittenIs DEF TableOpen, TableHead
<1>3. /\ a \in Seq(Words) /\ Len(a) = 4 /\ a[1] = "create" /\ a[2] = "table"
      /\ a[3] = stmt.table /\ a[4] = "(" /\ z \in Seq(Words) /\ Len(z) = 1 /\ z[1] = ")"
  <2>1. a \in Seq(Words)
    BY <1>0, MarkWords
  <2>2. z \in Seq(Words)
    BY <1>0, MarkWords
  <2> QED BY <2>1, <2>2
<1>4. NamesAndTypes \in Seq(Words) /\ Len(NamesAndTypes) = PairWidth(c)
  BY NamesAndTypesAre
<1>5. \A i \in 1..Len(NamesAndTypes) : NamesAndTypes[i] = Folded(R[4 + i])
  BY <1>1, ColumnsSpelled
<1> HIDE DEF a, z, c
<1>6. IsRow(Words, a, NamesAndTypes, z, Written)
  BY <1>2, <1>3, <1>4, RowFacts
<1>7. PairWidth(c) = e - 5 /\ e \in Nat /\ e >= 5 /\ 4 + (e - 5) + 1 = e
  BY <1>0, <1>1 DEF PairWidth
<1>8. /\ Written \in Seq(Words) /\ Len(Written) = e /\ (\A i \in 1..4 : Written[i] = a[i])
      /\ (\A i \in 1..(e - 5) : Written[4 + i] = Folded(R[4 + i])) /\ Written[e] = ")"
  <2>1. 1 \in 1..1
    OBVIOUS
  <2>2. /\ Written \in Seq(Words) /\ Len(Written) = 4 + (e - 5) + 1
        /\ (\A i \in 1..4 : Written[i] = a[i])
        /\ (\A i \in 1..(e - 5) : Written[4 + i] = NamesAndTypes[i])
        /\ \A i \in 1..1 : Written[4 + (e - 5) + i] = z[i]
    BY <1>3, <1>4, <1>6, <1>7 DEF IsRow
  <2>3. Written[4 + (e - 5) + 1] = ")"
    BY <1>3, <2>1, <2>2
  <2> QED BY <1>4, <1>5, <1>7, <2>2, <2>3
<1>9. /\ Folded(R[1]) = "create" /\ Folded(R[2]) = "table" /\ Folded(R[3]) = stmt.table
      /\ Folded(R[4]) = "(" /\ Folded(R[e]) = ")"
  BY <1>1, FoldedWords, FoldedMarks DEF TableOpen, TableHead
<1>10. ASSUME NEW i \in 1..e PROVE Written[i] = Folded(R[i])
  <2>1. CASE i \in {1, 2, 3, 4}
    <3>1. i \in 1..4
      BY <2>1
    <3> QED BY <1>3, <1>8, <1>9, <2>1, <3>1
  <2>2. CASE i = e
    BY <1>8, <1>9, <2>2
  <2>3. CASE i \in 5..(e - 1)
    <3>1. i - 4 \in 1..(e - 5) /\ 4 + (i - 4) = i
      BY <1>7, <2>3
    <3> QED BY <1>8, <3>1
  <2> QED BY <1>7, <2>1, <2>2, <2>3
<1> QED BY <1>8, <1>10 DEF Spells

LEMMA InsertSpelled ==
    ASSUME stmt \in Statement, NEW R, NEW e, Opened(R, stmt, 5), ValuesSaid(R, stmt, 5),
           ValueCommas(R, 5, Len(stmt.values) - 1), e = Width(Len(stmt.values)) + 5 + 1, R[e] = RParen
    PROVE  Spells(R, e, Written)
<1> DEFINE v == Len(stmt.values)
           a == <<"insert", "into", stmt.table, "values", "(">>
           z == <<")">>
<1>0. v \in Nat /\ stmt.table \in Words
  BY Fields
<1>1. /\ stmt.kind = "insert" /\ Says(R, 1, "insert") /\ Says(R, 2, "into") /\ Says(R, 3, stmt.table)
      /\ Says(R, 4, "values") /\ R[5] = LParen
  BY DEF Opened, InsertInto, InsertHead
<1>2. Written = a \o Literals \o z
  BY <1>1, WrittenIs
<1>3. /\ a \in Seq(Words) /\ Len(a) = 5 /\ a[1] = "insert" /\ a[2] = "into" /\ a[3] = stmt.table
      /\ a[4] = "values" /\ a[5] = "(" /\ z \in Seq(Words) /\ Len(z) = 1 /\ z[1] = ")"
  <2>1. a \in Seq(Words)
    BY <1>0, MarkWords
  <2>2. z \in Seq(Words)
    BY <1>0, MarkWords
  <2> QED BY <2>1, <2>2
<1>4. Literals \in Seq(Words) /\ Len(Literals) = Width(v)
  BY LiteralsAre
<1>5. \A i \in 1..Len(Literals) : Literals[i] = Folded(R[5 + i])
  <2>1. 5 \in Nat
    OBVIOUS
  <2> QED BY <2>1, LiteralsSpelled
<1>7. Width(v) = e - 6 /\ e \in Nat /\ e >= 6 /\ 5 + (e - 6) + 1 = e
  BY <1>0 DEF Width
<1> HIDE DEF a, z, v
<1>6. IsRow(Words, a, Literals, z, Written)
  BY <1>2, <1>3, <1>4, RowFacts
<1>8. /\ Written \in Seq(Words) /\ Len(Written) = e /\ (\A i \in 1..5 : Written[i] = a[i])
      /\ (\A i \in 1..(e - 6) : Written[5 + i] = Folded(R[5 + i])) /\ Written[e] = ")"
  <2>1. 1 \in 1..1
    OBVIOUS
  <2> QED BY <1>3, <1>4, <1>5, <1>6, <1>7, <2>1 DEF IsRow
<1>9. /\ Folded(R[1]) = "insert" /\ Folded(R[2]) = "into" /\ Folded(R[3]) = stmt.table
      /\ Folded(R[4]) = "values" /\ Folded(R[5]) = "(" /\ Folded(R[e]) = ")"
  BY <1>1, FoldedWords, FoldedMarks
<1>10. ASSUME NEW i \in 1..e PROVE Written[i] = Folded(R[i])
  <2>1. CASE i \in {1, 2, 3, 4, 5}
    <3>1. i \in 1..5
      BY <2>1
    <3> QED BY <1>3, <1>8, <1>9, <2>1, <3>1
  <2>2. CASE i = e
    BY <1>8, <1>9, <2>2
  <2>3. CASE i \in 6..(e - 1)
    <3>1. i - 5 \in 1..(e - 6) /\ 5 + (i - 5) = i
      BY <1>7, <2>3
    <3> QED BY <1>8, <3>1
  <2> QED BY <1>7, <2>1, <2>2, <2>3
<1> QED BY <1>8, <1>10 DEF Spells

LEMMA CallSpelled ==
    ASSUME stmt \in Statement, NEW R, NEW e, Opened(R, stmt, 3), ValuesSaid(R, stmt, 3),
           ValueCommas(R, 3, Len(stmt.values) - 1), e = Width(Len(stmt.values)) + 3 + 1, R[e] = RParen
    PROVE  Spells(R, e, Written)
<1> DEFINE v == Len(stmt.values)
           a == <<"select", stmt.name, "(">>
           z == <<")">>
<1>0. v \in Nat /\ stmt.name \in Words
  BY Fields
<1>1. stmt.kind = "function" /\ Says(R, 1, "select") /\ Says(R, 2, stmt.name) /\ R[3] = LParen
  BY DEF Opened, CallHead
<1>2. Written = a \o Literals \o z
  BY <1>1, WrittenIs
<1>3. /\ a \in Seq(Words) /\ Len(a) = 3 /\ a[1] = "select" /\ a[2] = stmt.name /\ a[3] = "("
      /\ z \in Seq(Words) /\ Len(z) = 1 /\ z[1] = ")"
  <2>1. a \in Seq(Words)
    BY <1>0, MarkWords
  <2>2. z \in Seq(Words)
    BY <1>0, MarkWords
  <2> QED BY <2>1, <2>2
<1>4. Literals \in Seq(Words) /\ Len(Literals) = Width(v)
  BY LiteralsAre
<1>5. \A i \in 1..Len(Literals) : Literals[i] = Folded(R[3 + i])
  <2>1. 3 \in Nat
    OBVIOUS
  <2> QED BY <2>1, LiteralsSpelled
<1>7. Width(v) = e - 4 /\ e \in Nat /\ e >= 4 /\ 3 + (e - 4) + 1 = e
  BY <1>0 DEF Width
<1> HIDE DEF a, z, v
<1>6. IsRow(Words, a, Literals, z, Written)
  BY <1>2, <1>3, <1>4, RowFacts
<1>8. /\ Written \in Seq(Words) /\ Len(Written) = e /\ (\A i \in 1..3 : Written[i] = a[i])
      /\ (\A i \in 1..(e - 4) : Written[3 + i] = Folded(R[3 + i])) /\ Written[e] = ")"
  <2>1. 1 \in 1..1
    OBVIOUS
  <2> QED BY <1>3, <1>4, <1>5, <1>6, <1>7, <2>1 DEF IsRow
<1>9. /\ Folded(R[1]) = "select" /\ Folded(R[2]) = stmt.name /\ Folded(R[3]) = "("
      /\ Folded(R[e]) = ")"
  BY <1>1, FoldedWords, FoldedMarks
<1>10. ASSUME NEW i \in 1..e PROVE Written[i] = Folded(R[i])
  <2>1. CASE i \in {1, 2, 3}
    <3>1. i \in 1..3
      BY <2>1
    <3> QED BY <1>3, <1>8, <1>9, <2>1, <3>1
  <2>2. CASE i = e
    BY <1>8, <1>9, <2>2
  <2>3. CASE i \in 4..(e - 1)
    <3>1. i - 3 \in 1..(e - 4) /\ 3 + (i - 3) = i
      BY <1>7, <2>3
    <3> QED BY <1>8, <3>1
  <2> QED BY <1>7, <2>1, <2>2, <2>3
<1> QED BY <1>8, <1>10 DEF Spells

LEMMA IndexSpelled ==
    ASSUME stmt \in Statement, NEW R, NEW e, IndexSaid(R, stmt, e)
    PROVE  Spells(R, e, Written)
<1>0. stmt.name \in Words /\ stmt.table \in Words /\ stmt.column \in Words
  BY Fields
<1>1. /\ stmt.kind = "index" /\ Says(R, 1, "create") /\ Says(R, 2, "index") /\ Says(R, 3, stmt.name)
      /\ Says(R, 4, "on") /\ Says(R, 5, stmt.table) /\ R[6] = LParen /\ Says(R, 7, stmt.column)
      /\ R[8] = RParen /\ e = 8
  BY DEF IndexSaid, IndexOn, IndexHead
<1> DEFINE a == <<"create", "index", stmt.name, "on", stmt.table, "(", stmt.column, ")">>
<1>2. Written = a
  BY <1>1, WrittenIs
<1>3. /\ a \in Seq(Words) /\ Len(a) = 8 /\ a[1] = "create" /\ a[2] = "index" /\ a[3] = stmt.name
      /\ a[4] = "on" /\ a[5] = stmt.table /\ a[6] = "(" /\ a[7] = stmt.column /\ a[8] = ")"
  <2>1. a \in Seq(Words)
    BY <1>0, MarkWords
  <2> QED BY <2>1
<1> HIDE DEF a
<1>4. /\ Folded(R[1]) = "create" /\ Folded(R[2]) = "index" /\ Folded(R[3]) = stmt.name
      /\ Folded(R[4]) = "on" /\ Folded(R[5]) = stmt.table /\ Folded(R[6]) = "("
      /\ Folded(R[7]) = stmt.column /\ Folded(R[8]) = ")"
  BY <1>1, FoldedWords, FoldedMarks
<1>5. \A i \in 1..8 : i \in {1, 2, 3, 4, 5, 6, 7, 8}
  OBVIOUS
<1>6. \A i \in 1..8 : a[i] = Folded(R[i])
  BY <1>3, <1>4, <1>5
<1> QED BY <1>1, <1>2, <1>3, <1>6 DEF Spells

LEMMA LoadSpelled ==
    ASSUME stmt \in Statement, NEW R, NEW e, LoadSaid(R, stmt, e)
    PROVE  Spells(R, e, Written)
<1>0. stmt.name \in Words
  BY Fields
<1>1. /\ stmt.kind = "load" /\ Says(R, 1, "load") /\ Says(R, 2, "extension") /\ Says(R, 3, stmt.name)
      /\ e = 3
  BY DEF LoadSaid
<1> DEFINE a == <<"load", "extension", stmt.name>>
<1>2. Written = a
  BY <1>1, WrittenIs
<1>3. /\ a \in Seq(Words) /\ Len(a) = 3 /\ a[1] = "load" /\ a[2] = "extension"
      /\ a[3] = stmt.name
  <2>1. a \in Seq(Words)
    BY <1>0, MarkWords
  <2> QED BY <2>1
<1> HIDE DEF a
<1>4. Folded(R[1]) = "load" /\ Folded(R[2]) = "extension" /\ Folded(R[3]) = stmt.name
  BY <1>1, FoldedWords
<1>5. \A i \in 1..3 : i \in {1, 2, 3}
  OBVIOUS
<1>6. \A i \in 1..3 : a[i] = Folded(R[i])
  BY <1>3, <1>4, <1>5
<1> QED BY <1>1, <1>2, <1>3, <1>6 DEF Spells

\* The projection, as words.
SelectList == IF stmt.all THEN <<"*">> ELSE Names
LEMMA ProjectionSpelled ==
    ASSUME stmt \in Statement, NEW R, NEW e, ProjectionSaid(R, stmt, e)
    PROVE  /\ SelectList \in Seq(Words) /\ Len(SelectList) = e - 1
           /\ \A i \in 1..(e - 1) : SelectList[i] = Folded(R[1 + i])
<1> DEFINE c == Len(stmt.columns)
<1>0. c \in Nat
  BY Fields
<1>1. CASE stmt.all /\ e = 2 /\ R[2] = Star
  <2>1. SelectList = <<"*">>
    BY <1>1 DEF SelectList
  <2>2. SelectList \in Seq(Words) /\ Len(SelectList) = 1 /\ SelectList[1] = "*"
    BY <2>1, MarkWords
  <2>3. Folded(R[2]) = "*"
    BY <1>1, FoldedMarks
  <2>4. e - 1 = 1 /\ \A i \in 1..(e - 1) : i = 1 /\ 1 + i = 2
    BY <1>1
  <2> QED BY <2>2, <2>3, <2>4
<1>2. CASE ~stmt.all /\ c >= 1 /\ e = 2 * c /\ NamesSaid(R, stmt) /\ NameCommas(R, c - 1)
  <2>1. SelectList = Names
    BY <1>2 DEF SelectList
  <2>2. Names \in Seq(Words) /\ Len(Names) = Width(c)
    BY NamesAre
  <2>3. \A i \in 1..Len(Names) : Names[i] = Folded(R[1 + i])
    BY <1>2, NamesSpelled
  <2> HIDE DEF c
  <2>4. Width(c) = e - 1
    BY <1>0, <1>2 DEF Width
  <2> QED BY <2>1, <2>2, <2>3, <2>4
<1> QED BY <1>1, <1>2 DEF ProjectionSaid

\* A query, whose predicate is the words W behind place q.
LEMMA QuerySpelled ==
    ASSUME stmt \in Statement, NEW R, NEW q \in Int, FromSaid(R, stmt, q), NEW W \in Seq(Words),
           Written = <<"select">> \o SelectList \o <<"from", stmt.table>> \o W,
           \A i \in 1..Len(W) : W[i] = Folded(R[q + i])
    PROVE  Spells(R, q + Len(W), Written)
<1> DEFINE e == q - 2
           a == <<"select">>
           z == <<"from", stmt.table>>
           b == a \o SelectList \o z
<1>0. stmt.table \in Words /\ Len(W) \in Nat
  BY Fields
<1>1. SelectHead(R, stmt) /\ ProjectionSaid(R, stmt, e) /\ Says(R, q - 1, "from") /\ Says(R, q, stmt.table)
  BY DEF FromSaid
<1>2. e \in Nat /\ e >= 2
  BY <1>1, ProjectionEnds
<1>3. /\ SelectList \in Seq(Words) /\ Len(SelectList) = e - 1
      /\ \A i \in 1..(e - 1) : SelectList[i] = Folded(R[1 + i])
  BY <1>1, ProjectionSpelled
<1>4. /\ a \in Seq(Words) /\ Len(a) = 1 /\ a[1] = "select"
      /\ z \in Seq(Words) /\ Len(z) = 2 /\ z[1] = "from" /\ z[2] = stmt.table
  <2>1. a \in Seq(Words)
    BY MarkWords
  <2>2. z \in Seq(Words)
    BY <1>0, MarkWords
  <2> QED BY <2>1, <2>2
<1>5. q = e + 2 /\ q - 1 = e + 1
  OBVIOUS
<1> HIDE DEF a, z, e
<1>6. IsRow(Words, a, SelectList, z, b)
  BY <1>3, <1>4, RowFacts
<1> HIDE DEF b
<1>7. b \in Seq(Words)
  BY <1>6 DEF IsRow
<1>8. IsConcat(Words, b, W, Written)
  <2>1. Written = b \o W
    BY DEF b, a, z
  <2> QED BY <1>7, <2>1, ConcatFacts
<1>9. 1 + (e - 1) = e /\ 1 + (e - 1) + 1 = e + 1 /\ 1 + (e - 1) + 2 = e + 2
  BY <1>2
<1>10. /\ Len(b) = e + 2 /\ b[1] = "select" /\ (\A i \in 1..(e - 1) : b[1 + i] = Folded(R[1 + i]))
       /\ b[e + 1] = "from" /\ b[e + 2] = stmt.table
  <2>1. /\ Len(b) = 1 + (e - 1) + 2 /\ (\A i \in 1..1 : b[i] = a[i])
        /\ (\A i \in 1..(e - 1) : b[1 + i] = SelectList[i])
        /\ \A i \in 1..2 : b[1 + (e - 1) + i] = z[i]
    BY <1>3, <1>4, <1>6 DEF IsRow
  <2>2. 1 \in 1..1 /\ 1 \in 1..2 /\ 2 \in 1..2
    OBVIOUS
  <2>3. b[1 + (e - 1) + 1] = "from" /\ b[1 + (e - 1) + 2] = stmt.table /\ b[1] = "select"
    BY <1>4, <2>1, <2>2
  <2> QED BY <1>3, <1>9, <2>1, <2>3
<1>11. Folded(R[1]) = "select" /\ Folded(R[e + 1]) = "from" /\ Folded(R[e + 2]) = stmt.table
  BY <1>1, <1>5, FoldedWords DEF SelectHead
<1>12. ASSUME NEW i \in 1..(e + 2) PROVE b[i] = Folded(R[i])
  <2>1. CASE i \in {1, e + 1, e + 2}
    BY <1>10, <1>11, <2>1
  <2>2. CASE i \in 2..e
    <3>1. i - 1 \in 1..(e - 1) /\ 1 + (i - 1) = i
      BY <1>2, <2>2
    <3> QED BY <1>10, <3>1
  <2> QED BY <1>2, <2>1, <2>2
<1>13. /\ Written \in Seq(Words) /\ Len(Written) = q + Len(W) /\ (\A i \in 1..q : Written[i] = b[i])
       /\ \A i \in 1..Len(W) : Written[q + i] = W[i]
  BY <1>5, <1>8, <1>10 DEF IsConcat
<1>14. ASSUME NEW i \in 1..(q + Len(W)) PROVE Written[i] = Folded(R[i])
  <2>1. CASE i \in 1..q
    BY <1>5, <1>12, <1>13, <2>1
  <2>2. CASE i \in (q + 1)..(q + Len(W))
    <3>1. i - q \in 1..Len(W) /\ q + (i - q) = i
      BY <1>0, <2>2
    <3> QED BY <1>13, <3>1
  <2>3. i \in 1..q \/ i \in (q + 1)..(q + Len(W))
    BY <1>0, <1>2, <1>5
  <2> QED BY <2>1, <2>2, <2>3
<1> QED BY <1>13, <1>14 DEF Spells

LEMMA SelectSpelled ==
    ASSUME stmt \in Statement, NEW R, NEW e \in Int, PlainSaid(R, stmt, e) \/ WhereSaid(R, stmt, e)
    PROVE  Spells(R, e, Written)
<1>1. CASE PlainSaid(R, stmt, e)
  <2>1. ~stmt.where /\ FromSaid(R, stmt, e)
    BY <1>1 DEF PlainSaid
  <2>2. Written = <<"select">> \o SelectList \o <<"from", stmt.table>> \o << >>
    <3>1. stmt.kind = "select"
      BY <2>1 DEF FromSaid, SelectHead
    <3> QED BY <2>1, <3>1, WrittenIs DEF SelectList
  <2> DEFINE W == << >>
  <2>3. W \in Seq(Words) /\ Len(W) = 0
    OBVIOUS
  <2>4. Written = <<"select">> \o SelectList \o <<"from", stmt.table>> \o W
    BY <2>2
  <2> HIDE DEF W
  <2>5. \A i \in 1..Len(W) : W[i] = Folded(R[e + i])
    BY <2>3
  <2>6. Spells(R, e + Len(W), Written)
    BY <2>1, <2>3, <2>4, <2>5, QuerySpelled
  <2>7. e + Len(W) = e
    BY <2>3
  <2> QED BY <2>6, <2>7
<1>2. CASE WhereSaid(R, stmt, e)
  <2> DEFINE q == e - 4
             h == <<"where", stmt.column, "=">>
             W == h \o Literals
  <2>1. /\ stmt.where /\ FromSaid(R, stmt, q) /\ Says(R, e - 3, "where") /\ Says(R, e - 2, stmt.column)
        /\ R[e - 1] = Equals /\ Len(stmt.values) = 1 /\ Means(R, e, stmt.values[1])
    BY <1>2 DEF WhereSaid
  <2>2. Written = <<"select">> \o SelectList \o <<"from", stmt.table>> \o W
    <3>1. stmt.kind = "select"
      BY <2>1 DEF FromSaid, SelectHead
    <3> QED BY <2>1, <3>1, WrittenIs DEF SelectList
  <2>3. stmt.column \in Words
    BY Fields
  <2>4. h \in Seq(Words) /\ Len(h) = 3 /\ h[1] = "where" /\ h[2] = stmt.column /\ h[3] = "="
    <3>1. h \in Seq(Words)
      BY <2>3, MarkWords
    <3> QED BY <3>1
  <2>5. Literals \in Seq(Words) /\ Len(Literals) = 1 /\ Literals[1] = Spelled[stmt.values[1]]
    <3>1. Width(1) = 1 /\ 1 \in 1..1 /\ 2 * 1 - 1 = 1
      BY DEF Width
    <3>2. /\ Literals \in Seq(Words) /\ Len(Literals) = Width(Len(stmt.values))
          /\ \A i \in 1..Len(stmt.values) : Literals[2 * i - 1] = Spelled[stmt.values[i]]
      BY LiteralsAre
    <3> QED BY <2>1, <3>1, <3>2
  <2> HIDE DEF h
  <2>6. IsConcat(Words, h, Literals, W)
    BY <2>4, <2>5, ConcatFacts
  <2>7. q \in Int /\ q + 1 = e - 3 /\ q + 2 = e - 2 /\ q + 3 = e - 1 /\ q + 4 = e
    OBVIOUS
  <2> HIDE DEF W, q
  <2>8. /\ W \in Seq(Words) /\ Len(W) = 4 /\ W[1] = "where" /\ W[2] = stmt.column
        /\ W[3] = "=" /\ W[4] = Spelled[stmt.values[1]]
    <3>1. /\ W \in Seq(Words) /\ Len(W) = 3 + 1 /\ (\A i \in 1..3 : W[i] = h[i])
          /\ \A i \in 1..1 : W[3 + i] = Literals[i]
      BY <2>4, <2>5, <2>6 DEF IsConcat
    <3>2. 1 \in 1..3 /\ 2 \in 1..3 /\ 3 \in 1..3 /\ 1 \in 1..1 /\ 3 + 1 = 4
      OBVIOUS
    <3> QED BY <2>4, <2>5, <3>1, <3>2
  <2>9. /\ Folded(R[q + 1]) = "where" /\ Folded(R[q + 2]) = stmt.column
        /\ Folded(R[q + 3]) = "=" /\ Folded(R[q + 4]) = Spelled[stmt.values[1]]
    <3>1. /\ Folded(R[e - 3]) = "where" /\ Folded(R[e - 2]) = stmt.column
          /\ Folded(R[e]) = Spelled[stmt.values[1]]
      BY <2>1, FoldedWords
    <3>2. Folded(R[e - 1]) = "="
      <4>1. Folded(Equals) = "="
        BY FoldedMarks
      <4> QED BY <2>1, <4>1
    <3> QED BY <2>7, <3>1, <3>2
  <2>10. \A i \in 1..Len(W) : W[i] = Folded(R[q + i])
    <3>1. \A i \in 1..4 : i \in {1, 2, 3, 4}
      OBVIOUS
    <3> QED BY <2>8, <2>9, <3>1
  <2>11. Spells(R, q + Len(W), Written)
    BY <2>1, <2>2, <2>7, <2>8, <2>10, QuerySpelled
  <2> QED BY <2>7, <2>8, <2>11
<1> QED BY <1>1, <1>2

LEMMA SaidSpelled ==
    ASSUME stmt \in Statement, NEW R, NEW e \in Int, Said(R, stmt, e)
    PROVE  Spells(R, e, Written)
<1>1. CASE ListSaid(R, stmt, e)
  <2>1. PICK b \in {3, 5} :
               /\ Opened(R, stmt, b) /\ ValuesSaid(R, stmt, b) /\ ValueCommas(R, b, Len(stmt.values) - 1)
               /\ e = Width(Len(stmt.values)) + b + 1 /\ R[e] = RParen
    BY <1>1 DEF ListSaid
  <2>2. CASE b = 5
    BY <2>1, <2>2, InsertSpelled
  <2>3. CASE b = 3
    BY <2>1, <2>3, CallSpelled
  <2> QED BY <2>2, <2>3
<1> QED BY <1>1, TableSpelled, IndexSpelled, LoadSpelled, SelectSpelled DEF Said

-----------------------------------------------------------------------------
(* From the invariant to what the runs check. *)

LEMMA ReadFacts ==
    ASSUME Input, offset + 1 <= Len(tokens)
    PROVE  /\ offset \in Nat /\ Len(tokens) \in Nat /\ Len(Read) = offset
           /\ Kept(Read, Peek, Seen) /\ Peek \in Tokens
           /\ Len(Seen) = offset + 1 /\ \A i \in 1..(offset + 1) : Seen[i] = tokens[i]
<1>1. tokens \in Seq(Tokens) /\ offset \in Nat /\ Len(tokens) \in Nat
  BY DEF Input
<1>2. \A i \in 1..(offset + 1) : i \in 1..Len(tokens) /\ tokens[i] \in Tokens
  BY <1>1
<1>3. /\ \A i \in 1..(offset + 1) : Seen[i] = tokens[i]
      /\ \A i \in 1..offset : Read[i] = tokens[i]
  BY <1>1 DEF Seen, Read
<1>4. Seen \in Seq(Tokens) /\ Len(Seen) = offset + 1
  BY <1>1, <1>2 DEF Seen
<1>5. Read \in Seq(Tokens) /\ Len(Read) = offset
  BY <1>1, <1>2 DEF Read
<1>6. \A i \in 1..offset : i \in 1..(offset + 1)
  BY <1>1
<1>7. offset + 1 \in 1..(offset + 1)
  BY <1>1
<1>8. Peek \in Tokens /\ Seen[offset + 1] = Peek
  BY <1>2, <1>3, <1>7 DEF Peek
<1> HIDE DEF Seen, Read, Peek
<1>9. Added(Tokens, Seen, Read, Peek)
  BY <1>3, <1>4, <1>5, <1>6, <1>8 DEF Added
<1>10. Kept(Read, Peek, Seen)
  BY <1>5, <1>9, AddedKept
<1> QED BY <1>1, <1>3, <1>4, <1>5, <1>8, <1>10

\* What is accepted is a whole sentence.
LEMMA InvAccepts == ParserInv => AcceptsTheGrammar
<1> SUFFICES ASSUME ParserInv PROVE AcceptsTheGrammar
  OBVIOUS
<1>1. ASSUME outcome = "ok"
      PROVE  \E form \in Grammar : Len(form) = Len(tokens) /\ Begins(tokens, form)
  <2>1. /\ Input /\ stmt \in Statement /\ Behind(Read, stmt, "finish")
        /\ Ended /\ offset + 1 = Len(tokens)
    BY <1>1 DEF ParserInv
  <2>2. /\ Kept(Read, Peek, Seen) /\ Len(Seen) = Len(tokens) /\ Len(tokens) \in Nat
        /\ \A i \in 1..Len(tokens) : Seen[i] = tokens[i]
    BY <2>1, ReadFacts
  <2>3. Peek = Eof /\ Len(tokens) <= MaxTokens /\ DOMAIN tokens = 1..Len(tokens)
    BY <2>1 DEF Ended, Last, Peek, Input
  <2>4. \E f \in Grammar : Len(f) = Len(Seen) /\ \A i \in 1..Len(Seen) : Seen[i] \in f[i]
    BY <2>1, <2>2, <2>3, AcceptedForm
  <2>5. PICK f \in Grammar : Len(f) = Len(tokens) /\ \A i \in 1..Len(tokens) : tokens[i] \in f[i]
    BY <2>2, <2>4
  <2>6. Begins(tokens, f)
    BY <2>2, <2>3, <2>5 DEF Begins
  <2> QED BY <2>5, <2>6
<1>2. outcome = "error" => \A form \in Grammar : ~Begins(tokens, form)
  BY DEF ParserInv, NoneAhead
<1> QED BY <1>1, <1>2 DEF AcceptsTheGrammar

\* A sequence that agrees with another up to its end is a prefix of it.
LEMMA AgreesIsPrefix ==
    ASSUME NEW S, NEW T, NEW a \in Seq(S), NEW b \in Seq(T), Len(a) <= Len(b),
           \A i \in 1..Len(a) : a[i] = b[i]
    PROVE  IsPrefix(a, b)
<1>1. SubSeq(a, 1, Len(a)) = a
  OBVIOUS
<1>2. /\ SubSeq(b, 1, Len(a)) \in Seq(T) /\ Len(SubSeq(b, 1, Len(a))) = Len(a)
      /\ \A i \in 1..Len(a) : SubSeq(b, 1, Len(a))[i] = b[i]
  OBVIOUS
<1> DEFINE p == SubSeq(b, 1, Len(a))
<1> HIDE DEF p
<1>3. p = a
  BY <1>2 DEF p
<1> QED BY <1>1, <1>3 DEF IsPrefix, p

\* The statement has the words that were read.
LEMMA InvKeepsWords == ParserInv => StatementKeepsWords
<1> SUFFICES ASSUME ParserInv PROVE StatementKeepsWords
  OBVIOUS
<1> DEFINE F == [i \in DOMAIN tokens |-> Folded(tokens[i])]
<1>1. ASSUME outcome = "ok" PROVE IsPrefix(Written, F)
  <2>1. /\ Input /\ stmt \in Statement /\ Behind(Read, stmt, "finish")
        /\ offset + 1 = Len(tokens)
    BY <1>1 DEF ParserInv
  <2>2. Len(Read) = offset /\ offset \in Nat
    BY <2>1, ReadFacts
  <2>3. PICK e \in 1..Len(Read) : Said(Read, stmt, e)
    BY <2>1, OtherBehindIs
  <2>4. e \in Int /\ e <= Len(tokens) /\ Len(tokens) \in Nat /\ e \in 1..offset
    BY <2>1, <2>2
  <2>5. Spells(Read, e, Written)
    BY <2>1, <2>3, <2>4, SaidSpelled
  <2>6. tokens \in Seq(Tokens) /\ DOMAIN tokens = 1..Len(tokens)
    BY <2>1 DEF Input
  <2> DEFINE T == {Folded(t) : t \in Tokens}
  <2>7. \A i \in 1..Len(tokens) : Folded(tokens[i]) \in T
    BY <2>6
  <2> HIDE DEF T
  <2>8. F \in Seq(T) /\ Len(F) = Len(tokens) /\ \A i \in 1..Len(tokens) : F[i] = Folded(tokens[i])
    BY <2>4, <2>6, <2>7
  <2> HIDE DEF F
  <2>9. /\ Written \in Seq(Words) /\ Len(Written) = e
        /\ \A i \in 1..e : Written[i] = Folded(Read[i])
    BY <2>5 DEF Spells
  <2>10. \A i \in 1..e : i \in 1..offset /\ i \in 1..Len(tokens)
    BY <2>1, <2>2, <2>4
  <2>11. \A i \in 1..e : Read[i] = tokens[i]
    BY <2>10 DEF Read
  <2>12. \A i \in 1..Len(Written) : Written[i] = F[i]
    BY <2>8, <2>9, <2>10, <2>11
  <2>13. Len(Written) <= Len(F)
    BY <2>4, <2>8, <2>9
  <2> QED BY <2>8, <2>9, <2>12, <2>13, AgreesIsPrefix
<1> QED BY <1>1 DEF StatementKeepsWords, Folded

-----------------------------------------------------------------------------
(* The steps keep the invariant. *)

\* The token looked at is one of the input, and of each form that the input may have.
LEMMA ReadyFacts ==
    ASSUME ParserInv, Ready
    PROVE  /\ offset \in Nat /\ offset + 1 <= Len(tokens) /\ Len(tokens) \in Nat
           /\ Kept(Read, Peek, Seen) /\ Peek \in Tokens
           /\ Behind(Read, stmt, at) /\ AllAhead(offset, at) /\ stmt \in Statement
           /\ Peek = Eof => Ended /\ offset + 1 = Len(tokens)
<1>1. /\ Input /\ Behind(Read, stmt, at) /\ AllAhead(offset, at) /\ stmt \in Statement
      /\ Ended \/ Len(tokens) >= offset + Lookahead
  BY DEF ParserInv, Ready
<1>2. /\ tokens \in Seq(Tokens) /\ Len(tokens) \in Nat /\ offset \in 0..Len(tokens)
      /\ (Ended => offset < Len(tokens)) /\ \A i \in 1..(Len(tokens) - 1) : tokens[i] # Eof
  BY <1>1 DEF Input
<1>3. offset \in Nat /\ offset + 1 <= Len(tokens)
  <2>1. Lookahead \in {1, 2}
    BY DEF Lookahead
  <2> QED BY <1>1, <1>2, <2>1
<1>4. Kept(Read, Peek, Seen) /\ Peek \in Tokens
  BY <1>1, <1>3, ReadFacts
<1>5. ASSUME Peek = Eof PROVE Ended /\ offset + 1 = Len(tokens)
  <2>1. offset + 1 = Len(tokens)
    BY <1>2, <1>3, <1>5 DEF Peek
  <2> QED BY <1>2, <1>5, <2>1 DEF Ended, Peek, Last
<1> QED BY <1>1, <1>2, <1>3, <1>4, <1>5

LEMMA FormFacts ==
    ASSUME NEW f \in Grammar, Begins(tokens, f), tokens \in Seq(Tokens),
           NEW i \in Nat \ {0}, i <= Len(tokens)
    PROVE  tokens[i] \in f[i] /\ i <= Len(f) /\ Len(f) \in Nat
<1>1. Len(f) \in Nat
  BY GrammarAhead
<1>2. i \in DOMAIN tokens
  OBVIOUS
<1> QED BY <1>1, <1>2 DEF Begins

\* A step that consumes the token.
LEMMA ConsumeKeeps ==
    ASSUME ParserInv, Ready, Peek # Eof, offset' = offset + 1, UNCHANGED <<tokens, outcome>>,
           stmt' \in Statement, Behind(Seen, stmt', at'), AllAhead(offset + 1, at')
    PROVE  ParserInv'
<1>1. outcome' = "parsing" /\ tokens' = tokens
  BY DEF Ready
<1>2. offset \in Nat /\ offset + 1 <= Len(tokens) /\ Len(tokens) \in Nat
  BY ReadyFacts
<1>3. ASSUME Ended PROVE offset + 1 < Len(tokens)
  <2>1. offset + 1 # Len(tokens)
    BY <1>3 DEF Ended, Last, Peek
  <2> QED BY <1>2, <2>1
<1>4. Input'
  BY <1>1, <1>2, <1>3 DEF Input, ParserInv, Ended
<1>5. Read' = Seen
  BY <1>1 DEF Read, Seen
<1>6. AllAhead(offset, at)'
  BY <1>1 DEF AllAhead
<1> QED BY <1>1, <1>4, <1>5, <1>6 DEF ParserInv

\* A step that passes over it.
LEMMA PassKeeps ==
    ASSUME ParserInv, Ready, UNCHANGED <<tokens, offset, stmt, outcome>>,
           Behind(Read, stmt, at'), AllAhead(offset, at')
    PROVE  ParserInv'
<1>1. outcome' = "parsing" /\ tokens' = tokens /\ offset' = offset /\ stmt' = stmt
  BY DEF Ready
<1>2. Input'
  BY <1>1 DEF Input, ParserInv, Ended
<1>3. Read' = Read
  BY <1>1 DEF Read
<1>4. AllAhead(offset, at)'
  BY <1>1 DEF AllAhead
<1> QED BY <1>1, <1>2, <1>3, <1>4 DEF ParserInv

\* A step that returns an error.
LEMMA RefuseKeeps ==
    ASSUME ParserInv, outcome' = "error", UNCHANGED <<tokens, offset, at, stmt>>, NoneAhead
    PROVE  ParserInv'
<1>1. Input' /\ NoneAhead'
  BY DEF Input, ParserInv, Ended, NoneAhead
<1> QED BY <1>1 DEF ParserInv

LEMMA StutterKeeps ==
    ASSUME ParserInv, UNCHANGED vars
    PROVE  ParserInv'
<1>1. /\ tokens' = tokens /\ offset' = offset /\ at' = at /\ stmt' = stmt /\ outcome' = outcome
  BY DEF vars
<1>2. Input' /\ (NoneAhead => NoneAhead') /\ (Ended => Ended')
  BY <1>1 DEF Input, ParserInv, Ended, NoneAhead
<1>3. Read' = Read
  BY <1>1 DEF Read
<1>4. AllAhead(offset, at) => AllAhead(offset, at)'
  BY <1>1 DEF AllAhead
<1> QED BY <1>1, <1>2, <1>3, <1>4 DEF ParserInv

\* The lexer's next token.
LEMMA SupplyKeeps ==
    ASSUME ParserInv, Supply
    PROVE  ParserInv'
<1>1. PICK t \in Tokens : (Len(tokens) + 1 = MaxTokens => t = Eof) /\ tokens' = Append(tokens, t)
  BY DEF Supply
<1>2. /\ outcome = "parsing" /\ ~Ended /\ offset' = offset /\ at' = at /\ stmt' = stmt
      /\ outcome' = outcome
  BY DEF Supply, Ready
<1>3. /\ tokens \in Seq(Tokens) /\ Len(tokens) \in Nat /\ Len(tokens) <= MaxTokens
      /\ Len(tokens) # MaxTokens /\ offset \in 0..Len(tokens)
      /\ \A i \in 1..(Len(tokens) - 1) : tokens[i] # Eof
  BY <1>2 DEF ParserInv, Input
<1>m. MaxTokens \in Nat
  BY ParserAssumption
<1>4. /\ tokens' \in Seq(Tokens) /\ Len(tokens') = Len(tokens) + 1 /\ tokens'[Len(tokens) + 1] = t
      /\ \A i \in 1..Len(tokens) : tokens'[i] = tokens[i]
  BY <1>1, <1>3
<1>5. \A i \in 1..Len(tokens) : tokens[i] # Eof
  <2> TAKE i \in 1..Len(tokens)
  <2>1. CASE i = Len(tokens)
    BY <1>2, <1>3, <2>1 DEF Ended, Last
  <2>2. CASE i # Len(tokens)
    BY <1>3, <2>2
  <2> QED BY <2>1, <2>2
<1>6. Input'
  <2>1. t = Eof => Ended'
    BY <1>4 DEF Ended, Last
  <2>2. Len(tokens') <= MaxTokens /\ (Len(tokens') = MaxTokens => t = Eof)
    BY <1>1, <1>3, <1>4, <1>m
  <2>3. \A i \in 1..(Len(tokens') - 1) : tokens'[i] # Eof
    BY <1>3, <1>4, <1>5
  <2>4. offset' \in 0..Len(tokens') /\ offset' < Len(tokens')
    BY <1>2, <1>3, <1>4
  <2> QED BY <1>4, <2>1, <2>2, <2>3, <2>4 DEF Input
<1>7. Read' = Read
  <2>1. \A i \in 1..offset : tokens'[i] = tokens[i]
    BY <1>3, <1>4
  <2> QED BY <1>2, <2>1 DEF Read
<1>8. AllAhead(offset, at)'
  <2> SUFFICES ASSUME NEW f \in Grammar, Begins(tokens', f) PROVE Ahead(f, offset, at)
    BY <1>2 DEF AllAhead
  <2>1. Len(f) \in Nat
    BY GrammarAhead
  <2>2. Begins(tokens, f)
    <3>1. DOMAIN tokens = 1..Len(tokens) /\ DOMAIN tokens' = 1..(Len(tokens) + 1)
      BY <1>3, <1>4
    <3>2. Len(tokens) <= Len(f)
      BY <1>3, <1>4, <2>1 DEF Begins
    <3>3. \A i \in DOMAIN tokens : tokens[i] \in f[i]
      <4> TAKE i \in DOMAIN tokens
      <4>1. i \in DOMAIN tokens' /\ tokens'[i] = tokens[i]
        BY <1>3, <1>4, <3>1
      <4> QED BY <4>1 DEF Begins
    <3> QED BY <3>2, <3>3 DEF Begins
  <2> QED BY <1>2, <2>2 DEF ParserInv, AllAhead
<1> QED BY <1>2, <1>6, <1>7, <1>8 DEF ParserInv

\* The same for consume_token and consume_keyword, whose test is "ok", and for expect_token,
\* expect_keyword and expect_identifier.
LEMMA ConsumeStep ==
    ASSUME ParserInv, NEW from, NEW ok, NEW to, NEW next, Consume(from, ok, to, next),
           ok /\ Behind(Read, stmt, from) =>
             Peek # Eof /\ next \in Statement /\ Behind(Seen, next, to),
           ok /\ AllAhead(offset, from) => AllAhead(offset + 1, to)
    PROVE  ParserInv'
<1>1. /\ Ready /\ at = from /\ offset' = offset + 1 /\ at' = to /\ stmt' = next
      /\ UNCHANGED <<tokens, outcome>> /\ ok
  BY DEF Consume
<1>2. Behind(Read, stmt, from) /\ AllAhead(offset, from)
  BY <1>1, ReadyFacts
<1>3. Peek # Eof /\ stmt' \in Statement /\ Behind(Seen, stmt', at') /\ AllAhead(offset + 1, at')
  BY <1>1, <1>2
<1> QED BY <1>1, <1>3, ConsumeKeeps

LEMMA PassStep ==
    ASSUME ParserInv, NEW from, NEW ok, NEW to, Pass(from, ok, to),
           Behind(Read, stmt, from) => Behind(Read, stmt, to),
           ok /\ AllAhead(offset, from) => AllAhead(offset, to)
    PROVE  ParserInv'
<1>1. Ready /\ at = from /\ at' = to /\ UNCHANGED <<tokens, offset, stmt, outcome>> /\ ok
  BY DEF Pass
<1>2. Behind(Read, stmt, at') /\ AllAhead(offset, at')
  BY <1>1, ReadyFacts
<1> QED BY <1>1, <1>2, PassKeeps

LEMMA RefuseStep ==
    ASSUME ParserInv, NEW from, NEW ok, Refuse(from, ok), ok /\ AllAhead(offset, from) => NoneAhead
    PROVE  ParserInv'
<1>1. Ready /\ at = from /\ outcome' = "error" /\ UNCHANGED <<tokens, offset, at, stmt>> /\ ok
  BY DEF Refuse
<1>2. NoneAhead
  BY <1>1, ReadyFacts
<1> QED BY <1>1, <1>2, RefuseKeeps

LEMMA ExpectStep ==
    ASSUME ParserInv, NEW from, NEW ok, NEW to, NEW next, Expect(from, ok, to, next),
           ok /\ Behind(Read, stmt, from) =>
             Peek # Eof /\ next \in Statement /\ Behind(Seen, next, to),
           AllAhead(offset, from) => AllAhead(offset + 1, to) /\ (~ok => NoneAhead)
    PROVE  ParserInv'
<1>1. CASE Consume(from, ok, to, next)
  BY <1>1, ConsumeStep
<1>2. CASE Refuse(from, ~ok)
  BY <1>2, RefuseStep
<1> QED BY <1>1, <1>2 DEF Expect

\* What the tests tell of the token looked at.
TokenTests ==
    /\ stmt \in Statement /\ Kept(Read, Peek, Seen) /\ Peek \in Tokens /\ offset \in Nat
    /\ \A f \in Grammar : Begins(tokens, f) =>
         Peek \in f[offset + 1] /\ offset + 1 <= Len(f) /\ Len(f) \in Nat
    /\ IsIdent <=> Peek \in Name
    /\ \A w : IsWord(w) <=> Peek \in Key(w)
    /\ (IsIdent /\ Word \in TypeNames) <=> Peek \in Type
    /\ IsLiteral <=> Peek \in Literal
    /\ Peek \in Name \cup Type \cup Literal => Peek # Eof
    /\ \A w : Peek \in Key(w) => Peek # Eof
    /\ Eof # LParen /\ Eof # RParen /\ Eof # Comma /\ Eof # Star /\ Eof # Equals /\ Eof # Semicolon

LEMMA PeekTests ==
    ASSUME ParserInv, Ready
    PROVE  TokenTests
<1>1. /\ stmt \in Statement /\ Kept(Read, Peek, Seen) /\ Peek \in Tokens
      /\ offset \in Nat /\ offset + 1 <= Len(tokens)
  BY ReadyFacts
<1>2. tokens \in Seq(Tokens)
  BY DEF ParserInv, Input
<1>3. \A f \in Grammar : Begins(tokens, f) =>
        Peek \in f[offset + 1] /\ offset + 1 <= Len(f) /\ Len(f) \in Nat
  <2>1. offset + 1 \in Nat \ {0}
    BY <1>1
  <2> QED BY <1>1, <1>2, <2>1, FormFacts DEF Peek
<1>4. /\ IsIdent <=> Peek \in Name
      /\ \A w : IsWord(w) <=> Peek \in Key(w)
      /\ (IsIdent /\ Word \in TypeNames) <=> Peek \in Type
  BY <1>1, Tests
<1>5. IsLiteral <=> Peek \in Literal
  BY <1>1, LiteralTest
<1>6. /\ Peek \in Name \cup Type \cup Literal => Peek # Eof
      /\ \A w : Peek \in Key(w) => Peek # Eof
  BY Tells DEF Marks
<1>7. Eof # LParen /\ Eof # RParen /\ Eof # Comma /\ Eof # Star /\ Eof # Equals /\ Eof # Semicolon
  BY Tells
<1> QED BY <1>1, <1>3, <1>4, <1>5, <1>6, <1>7 DEF TokenTests

\* parse_statement.
LEMMA StatementKeeps ==
    ASSUME ParserInv, ParseStatement
    PROVE  ParserInv'
<1>1. Ready
  BY DEF ParseStatement, Consume, Refuse
<1>2. TokenTests
  BY <1>1, PeekTests
<1> USE DEF TokenTests
<1>3. Consume("statement", IsWord("create"), "create", stmt) => ParserInv'
  <2>1. IsWord("create") /\ Behind(Read, stmt, "statement") =>
          Peek # Eof /\ stmt \in Statement /\ Behind(Seen, stmt, "create")
    BY <1>2, StatementBehindStep
  <2>2. IsWord("create") /\ AllAhead(offset, "statement") => AllAhead(offset + 1, "create")
    BY <1>2, StatementAheadStep DEF AllAhead
  <2> QED BY <2>1, <2>2, ConsumeStep
<1>4. Consume("statement", IsWord("insert"), "into", [stmt EXCEPT !.kind = "insert"]) => ParserInv'
  <2> DEFINE n == [stmt EXCEPT !.kind = "insert"]
  <2>1. ASSUME IsWord("insert"), Behind(Read, stmt, "statement")
        PROVE  Peek # Eof /\ n \in Statement /\ Behind(Seen, n, "into")
    <3>1. KindSet(stmt, n, "insert")
      BY <1>2, FlagUpdates DEF Kinds
    <3> HIDE DEF n
    <3>2. n \in Statement
      BY <3>1 DEF KindSet
    <3> QED BY <1>2, <2>1, <3>1, <3>2, StatementBehindStep
  <2>2. IsWord("insert") /\ AllAhead(offset, "statement") => AllAhead(offset + 1, "into")
    BY <1>2, StatementAheadStep DEF AllAhead
  <2> HIDE DEF n
  <2>3. Consume("statement", IsWord("insert"), "into", n) => ParserInv'
    BY <2>1, <2>2, ConsumeStep
  <2> QED BY <2>3 DEF n
<1>5. Consume("statement", IsWord("load"), "extension",
             [stmt EXCEPT !.kind = "load"]) => ParserInv'
  <2> DEFINE n == [stmt EXCEPT !.kind = "load"]
  <2>1. ASSUME IsWord("load"), Behind(Read, stmt, "statement")
        PROVE  Peek # Eof /\ n \in Statement /\ Behind(Seen, n, "extension")
    <3>1. KindSet(stmt, n, "load")
      BY <1>2, FlagUpdates DEF Kinds
    <3> HIDE DEF n
    <3>2. n \in Statement
      BY <3>1 DEF KindSet
    <3> QED BY <1>2, <2>1, <3>1, <3>2, StatementBehindStep
  <2>2. IsWord("load") /\ AllAhead(offset, "statement") => AllAhead(offset + 1, "extension")
    BY <1>2, StatementAheadStep DEF AllAhead
  <2> HIDE DEF n
  <2>3. Consume("statement", IsWord("load"), "extension", n) => ParserInv'
    BY <2>1, <2>2, ConsumeStep
  <2> QED BY <2>3 DEF n
<1>6. Consume("statement", IsWord("select"), "select",
             [stmt EXCEPT !.kind = "select"]) => ParserInv'
  <2> DEFINE n == [stmt EXCEPT !.kind = "select"]
  <2>1. ASSUME IsWord("select"), Behind(Read, stmt, "statement")
        PROVE  Peek # Eof /\ n \in Statement /\ Behind(Seen, n, "select")
    <3>1. KindSet(stmt, n, "select")
      BY <1>2, FlagUpdates DEF Kinds
    <3> HIDE DEF n
    <3>2. n \in Statement
      BY <3>1 DEF KindSet
    <3> QED BY <1>2, <2>1, <3>1, <3>2, StatementBehindStep
  <2>2. IsWord("select") /\ AllAhead(offset, "statement") => AllAhead(offset + 1, "select")
    BY <1>2, StatementAheadStep DEF AllAhead
  <2> HIDE DEF n
  <2>3. Consume("statement", IsWord("select"), "select", n) => ParserInv'
    BY <2>1, <2>2, ConsumeStep
  <2> QED BY <2>3 DEF n
<1>7. Refuse("statement", ~(IsIdent /\ Word \in {"create", "insert", "load", "select"})) => ParserInv'
  <2>1. ~(IsIdent /\ Word \in {"create", "insert", "load", "select"}) /\ AllAhead(offset, "statement") => NoneAhead
    BY <1>2, StatementAheadStep DEF AllAhead, NoneAhead, Word
  <2> QED BY <2>1, RefuseStep
<1>8. Consume("create", IsWord("table"), "tableName", [stmt EXCEPT !.kind = "table"]) => ParserInv'
  <2> DEFINE n == [stmt EXCEPT !.kind = "table"]
  <2>1. ASSUME IsWord("table"), Behind(Read, stmt, "create")
        PROVE  Peek # Eof /\ n \in Statement /\ Behind(Seen, n, "tableName")
    <3>1. KindSet(stmt, n, "table")
      BY <1>2, FlagUpdates DEF Kinds
    <3> HIDE DEF n
    <3>2. n \in Statement
      BY <3>1 DEF KindSet
    <3> QED BY <1>2, <2>1, <3>1, <3>2, StatementBehindStep
  <2>2. IsWord("table") /\ AllAhead(offset, "create") => AllAhead(offset + 1, "tableName")
    BY <1>2, StatementAheadStep DEF AllAhead
  <2> HIDE DEF n
  <2>3. Consume("create", IsWord("table"), "tableName", n) => ParserInv'
    BY <2>1, <2>2, ConsumeStep
  <2> QED BY <2>3 DEF n
<1>9. Consume("create", IsWord("index"), "indexName", [stmt EXCEPT !.kind = "index"]) => ParserInv'
  <2> DEFINE n == [stmt EXCEPT !.kind = "index"]
  <2>1. ASSUME IsWord("index"), Behind(Read, stmt, "create")
        PROVE  Peek # Eof /\ n \in Statement /\ Behind(Seen, n, "indexName")
    <3>1. KindSet(stmt, n, "index")
      BY <1>2, FlagUpdates DEF Kinds
    <3> HIDE DEF n
    <3>2. n \in Statement
      BY <3>1 DEF KindSet
    <3> QED BY <1>2, <2>1, <3>1, <3>2, StatementBehindStep
  <2>2. IsWord("index") /\ AllAhead(offset, "create") => AllAhead(offset + 1, "indexName")
    BY <1>2, StatementAheadStep DEF AllAhead
  <2> HIDE DEF n
  <2>3. Consume("create", IsWord("index"), "indexName", n) => ParserInv'
    BY <2>1, <2>2, ConsumeStep
  <2> QED BY <2>3 DEF n
<1>10. Refuse("create", ~IsWord("table") /\ ~IsWord("index")) => ParserInv'
  <2>1. (~IsWord("table") /\ ~IsWord("index")) /\ AllAhead(offset, "create") => NoneAhead
    BY <1>2, StatementAheadStep DEF AllAhead, NoneAhead
  <2> QED BY <2>1, RefuseStep
<1> QED BY <1>3, <1>4, <1>5, <1>6, <1>7, <1>8, <1>9, <1>10 DEF ParseStatement

\* parse_create_table.
LEMMA CreateTableKeeps ==
    ASSUME ParserInv, ParseCreateTable
    PROVE  ParserInv'
<1>1. Ready
  BY DEF ParseCreateTable, Expect, Consume, Pass, Refuse
<1>2. TokenTests
  BY <1>1, PeekTests
<1> USE DEF TokenTests
<1>3. Expect("tableName", IsIdent, "columnsOpen", [stmt EXCEPT !.table = Word]) => ParserInv'
  <2> DEFINE n == [stmt EXCEPT !.table = Word]
  <2>1. ASSUME IsIdent, Behind(Read, stmt, "tableName")
        PROVE  Peek # Eof /\ n \in Statement /\ Behind(Seen, n, "columnsOpen")
    <3>1. Word \in Words /\ Word = Lower[Peek.word]
      BY <1>2, <2>1, Tests
    <3>2. TableSet(stmt, n, Word)
      BY <1>2, <3>1, WordUpdates
    <3>3. TableSet(stmt, n, Lower[Peek.word])
      BY <3>1, <3>2
    <3> HIDE DEF n
    <3>4. n \in Statement
      BY <3>3 DEF TableSet
    <3> QED BY <1>2, <2>1, <3>3, <3>4, TableBehindStep
  <2>2. AllAhead(offset, "tableName") => AllAhead(offset + 1, "columnsOpen") /\ (~IsIdent => NoneAhead)
    BY <1>2, TableAheadStep DEF AllAhead, NoneAhead
  <2> HIDE DEF n
  <2>3. Expect("tableName", IsIdent, "columnsOpen", n) => ParserInv'
    BY <2>1, <2>2, ExpectStep
  <2> QED BY <2>3 DEF n
<1>4. Expect("columnsOpen", Peek = LParen, "columnName", stmt) => ParserInv'
  <2>1. Peek = LParen /\ Behind(Read, stmt, "columnsOpen") =>
          Peek # Eof /\ stmt \in Statement /\ Behind(Seen, stmt, "columnName")
    BY <1>2, TableBehindStep
  <2>2. AllAhead(offset, "columnsOpen") => AllAhead(offset + 1, "columnName") /\ (~(Peek = LParen) => NoneAhead)
    BY <1>2, TableAheadStep DEF AllAhead, NoneAhead
  <2> QED BY <2>1, <2>2, ExpectStep
<1>5. Expect("columnName", IsIdent, "columnType",
             [stmt EXCEPT !.columns = Append(@, [name |-> Word, type |-> ""])]) => ParserInv'
  <2> DEFINE n == [stmt EXCEPT !.columns = Append(@, [name |-> Word, type |-> ""])]
  <2>1. ASSUME IsIdent, Behind(Read, stmt, "columnName")
        PROVE  Peek # Eof /\ n \in Statement /\ Behind(Seen, n, "columnType")
    <3>1. Word \in Words /\ Word = Lower[Peek.word]
      BY <1>2, <2>1, Tests
    <3>2. NewColumn(stmt, n, Word)
      BY <1>2, <3>1, ColumnUpdate
    <3>3. NewColumn(stmt, n, Lower[Peek.word])
      BY <3>1, <3>2
    <3> HIDE DEF n
    <3>4. n \in Statement
      BY <3>3 DEF NewColumn, ColumnsSet
    <3> QED BY <1>2, <2>1, <3>3, <3>4, TableBehindStep
  <2>2. AllAhead(offset, "columnName") => AllAhead(offset + 1, "columnType") /\ (~IsIdent => NoneAhead)
    BY <1>2, TableAheadStep DEF AllAhead, NoneAhead
  <2> HIDE DEF n
  <2>3. Expect("columnName", IsIdent, "columnType", n) => ParserInv'
    BY <2>1, <2>2, ExpectStep
  <2> QED BY <2>3 DEF n
<1>6. Expect("columnType", IsIdent /\ Word \in TypeNames, "columnsMore",
             [stmt EXCEPT !.columns[Len(stmt.columns)].type = Word]) => ParserInv'
  <2> DEFINE n == [stmt EXCEPT !.columns[Len(stmt.columns)].type = Word]
  <2>1. ASSUME IsIdent /\ Word \in TypeNames, Behind(Read, stmt, "columnType")
        PROVE  Peek # Eof /\ n \in Statement /\ Behind(Seen, n, "columnsMore")
    <3>0. Len(stmt.columns) >= 1
      BY <2>1, TableBehindIs
    <3>1. Word \in Words /\ Word = Lower[Peek.word]
      BY <1>2, <2>1, Tests
    <3>2. NewType(stmt, n, Word)
      BY <1>2, <3>0, <3>1, TypeUpdate
    <3>3. NewType(stmt, n, Lower[Peek.word])
      BY <3>1, <3>2
    <3> HIDE DEF n
    <3>4. n \in Statement
      BY <3>3 DEF NewType, ColumnsSet
    <3> QED BY <1>2, <2>1, <3>3, <3>4, TableBehindStep
  <2>2. AllAhead(offset, "columnType") => AllAhead(offset + 1, "columnsMore") /\ (~(IsIdent /\ Word \in TypeNames) => NoneAhead)
    BY <1>2, TableAheadStep DEF AllAhead, NoneAhead
  <2> HIDE DEF n
  <2>3. Expect("columnType", IsIdent /\ Word \in TypeNames, "columnsMore", n) => ParserInv'
    BY <2>1, <2>2, ExpectStep
  <2> QED BY <2>3 DEF n
<1>7. Consume("columnsMore", Peek = Comma, "columnName", stmt) => ParserInv'
  <2>1. Peek = Comma /\ Behind(Read, stmt, "columnsMore") =>
          Peek # Eof /\ stmt \in Statement /\ Behind(Seen, stmt, "columnName")
    BY <1>2, TableBehindStep
  <2>2. Peek = Comma /\ AllAhead(offset, "columnsMore") => AllAhead(offset + 1, "columnName")
    BY <1>2, TableAheadStep DEF AllAhead
  <2> QED BY <2>1, <2>2, ConsumeStep
<1>8. Pass("columnsMore", Peek # Comma, "columnsClose") => ParserInv'
  <2>1. Behind(Read, stmt, "columnsMore") => Behind(Read, stmt, "columnsClose")
    BY <1>2, TableBehindStep
  <2>2. Peek # Comma /\ AllAhead(offset, "columnsMore") => AllAhead(offset, "columnsClose")
    BY <1>2, TableAheadStep DEF AllAhead
  <2> QED BY <2>1, <2>2, PassStep
<1>9. Expect("columnsClose", Peek = RParen, "finish", stmt) => ParserInv'
  <2>1. Peek = RParen /\ Behind(Read, stmt, "columnsClose") =>
          Peek # Eof /\ stmt \in Statement /\ Behind(Seen, stmt, "finish")
    BY <1>2, TableBehindStep
  <2>2. AllAhead(offset, "columnsClose") => AllAhead(offset + 1, "finish") /\ (~(Peek = RParen) => NoneAhead)
    BY <1>2, TableAheadStep DEF AllAhead, NoneAhead
  <2> QED BY <2>1, <2>2, ExpectStep
<1> QED BY <1>3, <1>4, <1>5, <1>6, <1>7, <1>8, <1>9 DEF ParseCreateTable

\* parse_create_index.
LEMMA CreateIndexKeeps ==
    ASSUME ParserInv, ParseCreateIndex
    PROVE  ParserInv'
<1>1. Ready
  BY DEF ParseCreateIndex, Expect, Consume, Refuse
<1>2. TokenTests
  BY <1>1, PeekTests
<1> USE DEF TokenTests
<1>3. Expect("indexName", IsIdent, "on", [stmt EXCEPT !.name = Word]) => ParserInv'
  <2> DEFINE n == [stmt EXCEPT !.name = Word]
  <2>1. ASSUME IsIdent, Behind(Read, stmt, "indexName")
        PROVE  Peek # Eof /\ n \in Statement /\ Behind(Seen, n, "on")
    <3>1. Word \in Words /\ Word = Lower[Peek.word]
      BY <1>2, <2>1, Tests
    <3>2. NameSet(stmt, n, Word)
      BY <1>2, <3>1, WordUpdates
    <3>3. NameSet(stmt, n, Lower[Peek.word])
      BY <3>1, <3>2
    <3> HIDE DEF n
    <3>4. n \in Statement
      BY <3>3 DEF NameSet
    <3> QED BY <1>2, <2>1, <3>3, <3>4, IndexBehindStep
  <2>2. AllAhead(offset, "indexName") => AllAhead(offset + 1, "on") /\ (~IsIdent => NoneAhead)
    BY <1>2, IndexAheadStep DEF AllAhead, NoneAhead
  <2> HIDE DEF n
  <2>3. Expect("indexName", IsIdent, "on", n) => ParserInv'
    BY <2>1, <2>2, ExpectStep
  <2> QED BY <2>3 DEF n
<1>4. Expect("on", IsWord("on"), "indexTable", stmt) => ParserInv'
  <2>1. IsWord("on") /\ Behind(Read, stmt, "on") =>
          Peek # Eof /\ stmt \in Statement /\ Behind(Seen, stmt, "indexTable")
    BY <1>2, IndexBehindStep
  <2>2. AllAhead(offset, "on") => AllAhead(offset + 1, "indexTable") /\ (~(IsWord("on")) => NoneAhead)
    BY <1>2, IndexAheadStep DEF AllAhead, NoneAhead
  <2> QED BY <2>1, <2>2, ExpectStep
<1>5. Expect("indexTable", IsIdent, "indexOpen", [stmt EXCEPT !.table = Word]) => ParserInv'
  <2> DEFINE n == [stmt EXCEPT !.table = Word]
  <2>1. ASSUME IsIdent, Behind(Read, stmt, "indexTable")
        PROVE  Peek # Eof /\ n \in Statement /\ Behind(Seen, n, "indexOpen")
    <3>1. Word \in Words /\ Word = Lower[Peek.word]
      BY <1>2, <2>1, Tests
    <3>2. TableSet(stmt, n, Word)
      BY <1>2, <3>1, WordUpdates
    <3>3. TableSet(stmt, n, Lower[Peek.word])
      BY <3>1, <3>2
    <3> HIDE DEF n
    <3>4. n \in Statement
      BY <3>3 DEF TableSet
    <3> QED BY <1>2, <2>1, <3>3, <3>4, IndexBehindStep
  <2>2. AllAhead(offset, "indexTable") => AllAhead(offset + 1, "indexOpen") /\ (~IsIdent => NoneAhead)
    BY <1>2, IndexAheadStep DEF AllAhead, NoneAhead
  <2> HIDE DEF n
  <2>3. Expect("indexTable", IsIdent, "indexOpen", n) => ParserInv'
    BY <2>1, <2>2, ExpectStep
  <2> QED BY <2>3 DEF n
<1>6. Expect("indexOpen", Peek = LParen, "indexColumn", stmt) => ParserInv'
  <2>1. Peek = LParen /\ Behind(Read, stmt, "indexOpen") =>
          Peek # Eof /\ stmt \in Statement /\ Behind(Seen, stmt, "indexColumn")
    BY <1>2, IndexBehindStep
  <2>2. AllAhead(offset, "indexOpen") => AllAhead(offset + 1, "indexColumn") /\ (~(Peek = LParen) => NoneAhead)
    BY <1>2, IndexAheadStep DEF AllAhead, NoneAhead
  <2> QED BY <2>1, <2>2, ExpectStep
<1>7. Expect("indexColumn", IsIdent, "indexClose", [stmt EXCEPT !.column = Word]) => ParserInv'
  <2> DEFINE n == [stmt EXCEPT !.column = Word]
  <2>1. ASSUME IsIdent, Behind(Read, stmt, "indexColumn")
        PROVE  Peek # Eof /\ n \in Statement /\ Behind(Seen, n, "indexClose")
    <3>1. Word \in Words /\ Word = Lower[Peek.word]
      BY <1>2, <2>1, Tests
    <3>2. ColumnSet(stmt, n, Word)
      BY <1>2, <3>1, WordUpdates
    <3>3. ColumnSet(stmt, n, Lower[Peek.word])
      BY <3>1, <3>2
    <3> HIDE DEF n
    <3>4. n \in Statement
      BY <3>3 DEF ColumnSet
    <3> QED BY <1>2, <2>1, <3>3, <3>4, IndexBehindStep
  <2>2. AllAhead(offset, "indexColumn") => AllAhead(offset + 1, "indexClose") /\ (~IsIdent => NoneAhead)
    BY <1>2, IndexAheadStep DEF AllAhead, NoneAhead
  <2> HIDE DEF n
  <2>3. Expect("indexColumn", IsIdent, "indexClose", n) => ParserInv'
    BY <2>1, <2>2, ExpectStep
  <2> QED BY <2>3 DEF n
<1>8. Expect("indexClose", Peek = RParen, "finish", stmt) => ParserInv'
  <2>1. Peek = RParen /\ Behind(Read, stmt, "indexClose") =>
          Peek # Eof /\ stmt \in Statement /\ Behind(Seen, stmt, "finish")
    BY <1>2, IndexBehindStep
  <2>2. AllAhead(offset, "indexClose") => AllAhead(offset + 1, "finish") /\ (~(Peek = RParen) => NoneAhead)
    BY <1>2, IndexAheadStep DEF AllAhead, NoneAhead
  <2> QED BY <2>1, <2>2, ExpectStep
<1> QED BY <1>3, <1>4, <1>5, <1>6, <1>7, <1>8 DEF ParseCreateIndex

\* The lists of parse_insert and parse_select_function.
LEMMA LiteralsKeep ==
    ASSUME ParserInv, ParseLiterals
    PROVE  ParserInv'
<1>1. Ready
  BY DEF ParseLiterals, Expect, Consume, Pass, Refuse
<1>2. TokenTests
  BY <1>1, PeekTests
<1> USE DEF TokenTests
<1>3. Consume("literals", Peek = RParen, "finish", stmt) => ParserInv'
  <2>1. Peek = RParen /\ Behind(Read, stmt, "literals") =>
          Peek # Eof /\ stmt \in Statement /\ Behind(Seen, stmt, "finish")
    BY <1>2, LiteralsBehindStep
  <2>2. Peek = RParen /\ AllAhead(offset, "literals") => AllAhead(offset + 1, "finish")
    BY <1>2, InsertAheadStep DEF AllAhead
  <2> QED BY <2>1, <2>2, ConsumeStep
<1>4. Pass("literals", Peek # RParen, "literal") => ParserInv'
  <2>1. Behind(Read, stmt, "literals") => Behind(Read, stmt, "literal")
    BY <1>2, LiteralsBehindStep
  <2>2. Peek # RParen /\ AllAhead(offset, "literals") => AllAhead(offset, "literal")
    BY <1>2, InsertAheadStep DEF AllAhead
  <2> QED BY <2>1, <2>2, PassStep
<1>5. Expect("literal", IsLiteral, "literalsMore",
             [stmt EXCEPT !.values = Append(@, LiteralValue)]) => ParserInv'
  <2> DEFINE n == [stmt EXCEPT !.values = Append(@, LiteralValue)]
  <2>1. ASSUME IsLiteral, Behind(Read, stmt, "literal")
        PROVE  Peek # Eof /\ n \in Statement /\ Behind(Seen, n, "literalsMore")
    <3>0. LiteralValue \in Values /\ Folded(Peek) = Spelled[LiteralValue]
      BY <1>2, <2>1, LiteralTest
    <3>1. NewValue(stmt, n, LiteralValue)
      BY <1>2, <3>0, ValueUpdate
    <3> HIDE DEF n
    <3>2. n \in Statement
      BY <3>1 DEF NewValue, ValuesSet
    <3> QED BY <1>2, <2>1, <3>0, <3>1, <3>2, LiteralsBehindStep
  <2>2. AllAhead(offset, "literal") => AllAhead(offset + 1, "literalsMore") /\ (~IsLiteral => NoneAhead)
    BY <1>2, InsertAheadStep DEF AllAhead, NoneAhead
  <2> HIDE DEF n
  <2>3. Expect("literal", IsLiteral, "literalsMore", n) => ParserInv'
    BY <2>1, <2>2, ExpectStep
  <2> QED BY <2>3 DEF n
<1>6. Consume("literalsMore", Peek = Comma, "literal", stmt) => ParserInv'
  <2>1. Peek = Comma /\ Behind(Read, stmt, "literalsMore") =>
          Peek # Eof /\ stmt \in Statement /\ Behind(Seen, stmt, "literal")
    BY <1>2, LiteralsBehindStep
  <2>2. Peek = Comma /\ AllAhead(offset, "literalsMore") => AllAhead(offset + 1, "literal")
    BY <1>2, InsertAheadStep DEF AllAhead
  <2> QED BY <2>1, <2>2, ConsumeStep
<1>7. Pass("literalsMore", Peek # Comma, "literalsClose") => ParserInv'
  <2>1. Behind(Read, stmt, "literalsMore") => Behind(Read, stmt, "literalsClose")
    BY <1>2, LiteralsBehindStep
  <2>2. Peek # Comma /\ AllAhead(offset, "literalsMore") => AllAhead(offset, "literalsClose")
    BY <1>2, InsertAheadStep DEF AllAhead
  <2> QED BY <2>1, <2>2, PassStep
<1>8. Expect("literalsClose", Peek = RParen, "finish", stmt) => ParserInv'
  <2>1. Peek = RParen /\ Behind(Read, stmt, "literalsClose") =>
          Peek # Eof /\ stmt \in Statement /\ Behind(Seen, stmt, "finish")
    BY <1>2, LiteralsBehindStep
  <2>2. AllAhead(offset, "literalsClose") => AllAhead(offset + 1, "finish") /\ (~(Peek = RParen) => NoneAhead)
    BY <1>2, InsertAheadStep DEF AllAhead, NoneAhead
  <2> QED BY <2>1, <2>2, ExpectStep
<1> QED BY <1>3, <1>4, <1>5, <1>6, <1>7, <1>8 DEF ParseLiterals

\* parse_insert, up to its list.
LEMMA InsertKeeps ==
    ASSUME ParserInv, ParseInsert
    PROVE  ParserInv'
<1>1. Ready
  BY DEF ParseInsert, Expect, Consume, Refuse
<1>2. TokenTests
  BY <1>1, PeekTests
<1> USE DEF TokenTests
<1>3. Expect("into", IsWord("into"), "insertTable", stmt) => ParserInv'
  <2>1. IsWord("into") /\ Behind(Read, stmt, "into") =>
          Peek # Eof /\ stmt \in Statement /\ Behind(Seen, stmt, "insertTable")
    BY <1>2, InsertBehindStep
  <2>2. AllAhead(offset, "into") => AllAhead(offset + 1, "insertTable") /\ (~(IsWord("into")) => NoneAhead)
    BY <1>2, InsertAheadStep DEF AllAhead, NoneAhead
  <2> QED BY <2>1, <2>2, ExpectStep
<1>4. Expect("insertTable", IsIdent, "values", [stmt EXCEPT !.table = Word]) => ParserInv'
  <2> DEFINE n == [stmt EXCEPT !.table = Word]
  <2>1. ASSUME IsIdent, Behind(Read, stmt, "insertTable")
        PROVE  Peek # Eof /\ n \in Statement /\ Behind(Seen, n, "values")
    <3>1. Word \in Words /\ Word = Lower[Peek.word]
      BY <1>2, <2>1, Tests
    <3>2. TableSet(stmt, n, Word)
      BY <1>2, <3>1, WordUpdates
    <3>3. TableSet(stmt, n, Lower[Peek.word])
      BY <3>1, <3>2
    <3> HIDE DEF n
    <3>4. n \in Statement
      BY <3>3 DEF TableSet
    <3> QED BY <1>2, <2>1, <3>3, <3>4, InsertBehindStep
  <2>2. AllAhead(offset, "insertTable") => AllAhead(offset + 1, "values") /\ (~IsIdent => NoneAhead)
    BY <1>2, InsertAheadStep DEF AllAhead, NoneAhead
  <2> HIDE DEF n
  <2>3. Expect("insertTable", IsIdent, "values", n) => ParserInv'
    BY <2>1, <2>2, ExpectStep
  <2> QED BY <2>3 DEF n
<1>5. Expect("values", IsWord("values"), "valuesOpen", stmt) => ParserInv'
  <2>1. IsWord("values") /\ Behind(Read, stmt, "values") =>
          Peek # Eof /\ stmt \in Statement /\ Behind(Seen, stmt, "valuesOpen")
    BY <1>2, InsertBehindStep
  <2>2. AllAhead(offset, "values") => AllAhead(offset + 1, "valuesOpen") /\ (~(IsWord("values")) => NoneAhead)
    BY <1>2, InsertAheadStep DEF AllAhead, NoneAhead
  <2> QED BY <2>1, <2>2, ExpectStep
<1>6. Expect("valuesOpen", Peek = LParen, "literals", stmt) => ParserInv'
  <2>1. Peek = LParen /\ Behind(Read, stmt, "valuesOpen") =>
          Peek # Eof /\ stmt \in Statement /\ Behind(Seen, stmt, "literals")
    BY <1>2, InsertBehindStep
  <2>2. AllAhead(offset, "valuesOpen") => AllAhead(offset + 1, "literals") /\ (~(Peek = LParen) => NoneAhead)
    BY <1>2, InsertAheadStep DEF AllAhead, NoneAhead
  <2> QED BY <2>1, <2>2, ExpectStep
<1> QED BY <1>3, <1>4, <1>5, <1>6 DEF ParseInsert

\* parse_load_extension.
LEMMA LoadExtensionKeeps ==
    ASSUME ParserInv, ParseLoadExtension
    PROVE  ParserInv'
<1>1. Ready
  BY DEF ParseLoadExtension, Expect, Consume, Refuse
<1>2. TokenTests
  BY <1>1, PeekTests
<1> USE DEF TokenTests
<1>3. Expect("extension", IsWord("extension"), "extensionName", stmt) => ParserInv'
  <2>1. IsWord("extension") /\ Behind(Read, stmt, "extension") =>
          Peek # Eof /\ stmt \in Statement /\ Behind(Seen, stmt, "extensionName")
    BY <1>2, StatementBehindStep
  <2>2. AllAhead(offset, "extension") => AllAhead(offset + 1, "extensionName") /\ (~(IsWord("extension")) => NoneAhead)
    BY <1>2, StatementAheadStep DEF AllAhead, NoneAhead
  <2> QED BY <2>1, <2>2, ExpectStep
<1>4. Expect("extensionName", IsIdent, "finish", [stmt EXCEPT !.name = Word]) => ParserInv'
  <2> DEFINE n == [stmt EXCEPT !.name = Word]
  <2>1. ASSUME IsIdent, Behind(Read, stmt, "extensionName")
        PROVE  Peek # Eof /\ n \in Statement /\ Behind(Seen, n, "finish")
    <3>1. Word \in Words /\ Word = Lower[Peek.word]
      BY <1>2, <2>1, Tests
    <3>2. NameSet(stmt, n, Word)
      BY <1>2, <3>1, WordUpdates
    <3>3. NameSet(stmt, n, Lower[Peek.word])
      BY <3>1, <3>2
    <3> HIDE DEF n
    <3>4. n \in Statement
      BY <3>3 DEF NameSet
    <3> QED BY <1>2, <2>1, <3>3, <3>4, StatementBehindStep
  <2>2. AllAhead(offset, "extensionName") => AllAhead(offset + 1, "finish") /\ (~IsIdent => NoneAhead)
    BY <1>2, StatementAheadStep DEF AllAhead, NoneAhead
  <2> HIDE DEF n
  <2>3. Expect("extensionName", IsIdent, "finish", n) => ParserInv'
    BY <2>1, <2>2, ExpectStep
  <2> QED BY <2>3 DEF n
<1> QED BY <1>3, <1>4 DEF ParseLoadExtension

\* peek_is_function_call tells a function call from a projection.
LEMMA LookaheadTells ==
    ASSUME ParserInv, Ready, at = "select"
    PROVE  /\ IsFunctionCall /\ AllAhead(offset, "select") => AllAhead(offset, "function")
           /\ ~IsFunctionCall /\ AllAhead(offset, "select") => AllAhead(offset, "projection")
<1>1. TokenTests
  BY PeekTests
<1>2. /\ tokens \in Seq(Tokens) /\ Len(tokens) \in Nat /\ offset \in Nat
      /\ offset + 1 <= Len(tokens) /\ offset + 2 \in Nat \ {0} /\ offset + 1 + 1 = offset + 2
  BY ReadyFacts DEF ParserInv, Input
<1>3. \A f \in Grammar : Begins(tokens, f) =>
        /\ Peek \in f[offset + 1]
        /\ offset + 2 <= Len(tokens) => tokens[offset + 2] \in f[offset + 2]
  BY <1>1, <1>2, FormFacts DEF TokenTests
<1>4. CASE offset + 2 <= Len(tokens)
  <2>1. IsFunctionCall <=> Peek \in Name /\ tokens[offset + 2] = LParen
    BY <1>1, <1>2, <1>4 DEF IsFunctionCall, PeekN, TokenTests
  <2> QED BY <1>2, <1>3, <1>4, <2>1, CallAheadStep DEF AllAhead
<1>5. CASE ~(offset + 2 <= Len(tokens))
  <2>1. offset + 1 = Len(tokens) /\ Ended
    BY <1>2, <1>5 DEF Ready, Lookahead
  <2>2. Peek \notin Name
    BY <1>1, <2>1 DEF Ended, Last, Peek, TokenTests
  <2>3. ~IsFunctionCall
    BY <1>1, <2>2 DEF IsFunctionCall, TokenTests
  <2> QED BY <1>2, <1>3, <2>2, <2>3, CallAheadStep DEF AllAhead
<1> QED BY <1>4, <1>5

\* parse_select.
LEMMA SelectKeeps ==
    ASSUME ParserInv, ParseSelect
    PROVE  ParserInv'
<1>1. Ready
  BY DEF ParseSelect, Expect, Consume, Pass, Refuse
<1>2. TokenTests
  BY <1>1, PeekTests
<1> USE DEF TokenTests
<1>3. ASSUME Pass("select", IsFunctionCall, "function") PROVE ParserInv'
  <2>0. at = "select"
    BY <1>3 DEF Pass
  <2>1. Behind(Read, stmt, "select") => Behind(Read, stmt, "function")
    BY <1>2, SelectBehindStep
  <2>2. IsFunctionCall /\ AllAhead(offset, "select") => AllAhead(offset, "function")
    BY <1>1, <2>0, LookaheadTells
  <2> QED BY <1>3, <2>1, <2>2, PassStep
<1>4. ASSUME Pass("select", ~IsFunctionCall, "projection") PROVE ParserInv'
  <2>0. at = "select"
    BY <1>4 DEF Pass
  <2>1. Behind(Read, stmt, "select") => Behind(Read, stmt, "projection")
    BY <1>2, SelectBehindStep
  <2>2. ~IsFunctionCall /\ AllAhead(offset, "select") => AllAhead(offset, "projection")
    BY <1>1, <2>0, LookaheadTells
  <2> QED BY <1>4, <2>1, <2>2, PassStep
<1>5. Consume("projection", Peek = Star, "from", [stmt EXCEPT !.all = TRUE]) => ParserInv'
  <2> DEFINE n == [stmt EXCEPT !.all = TRUE]
  <2>1. ASSUME Peek = Star, Behind(Read, stmt, "projection")
        PROVE  Peek # Eof /\ n \in Statement /\ Behind(Seen, n, "from")
    <3>1. AllSet(stmt, n)
      BY <1>2, FlagUpdates
    <3> HIDE DEF n
    <3>2. n \in Statement
      BY <3>1 DEF AllSet
    <3> QED BY <1>2, <2>1, <3>1, <3>2, SelectBehindStep
  <2>2. Peek = Star /\ AllAhead(offset, "projection") => AllAhead(offset + 1, "from")
    BY <1>2, SelectAheadStep DEF AllAhead
  <2> HIDE DEF n
  <2>3. Consume("projection", Peek = Star, "from", n) => ParserInv'
    BY <2>1, <2>2, ConsumeStep
  <2> QED BY <2>3 DEF n
<1>6. Pass("projection", Peek # Star, "selected") => ParserInv'
  <2>1. Behind(Read, stmt, "projection") => Behind(Read, stmt, "selected")
    BY <1>2, SelectBehindStep
  <2>2. Peek # Star /\ AllAhead(offset, "projection") => AllAhead(offset, "selected")
    BY <1>2, SelectAheadStep DEF AllAhead
  <2> QED BY <2>1, <2>2, PassStep
<1>7. Expect("selected", IsIdent, "selectedMore",
             [stmt EXCEPT !.columns = Append(@, [name |-> Word, type |-> ""])]) => ParserInv'
  <2> DEFINE n == [stmt EXCEPT !.columns = Append(@, [name |-> Word, type |-> ""])]
  <2>1. ASSUME IsIdent, Behind(Read, stmt, "selected")
        PROVE  Peek # Eof /\ n \in Statement /\ Behind(Seen, n, "selectedMore")
    <3>1. Word \in Words /\ Word = Lower[Peek.word]
      BY <1>2, <2>1, Tests
    <3>2. NewColumn(stmt, n, Word)
      BY <1>2, <3>1, ColumnUpdate
    <3>3. NewColumn(stmt, n, Lower[Peek.word])
      BY <3>1, <3>2
    <3> HIDE DEF n
    <3>4. n \in Statement
      BY <3>3 DEF NewColumn, ColumnsSet
    <3> QED BY <1>2, <2>1, <3>3, <3>4, SelectBehindStep
  <2>2. AllAhead(offset, "selected") => AllAhead(offset + 1, "selectedMore") /\ (~IsIdent => NoneAhead)
    BY <1>2, SelectAheadStep DEF AllAhead, NoneAhead
  <2> HIDE DEF n
  <2>3. Expect("selected", IsIdent, "selectedMore", n) => ParserInv'
    BY <2>1, <2>2, ExpectStep
  <2> QED BY <2>3 DEF n
<1>8. Consume("selectedMore", Peek = Comma, "selected", stmt) => ParserInv'
  <2>1. Peek = Comma /\ Behind(Read, stmt, "selectedMore") =>
          Peek # Eof /\ stmt \in Statement /\ Behind(Seen, stmt, "selected")
    BY <1>2, SelectBehindStep
  <2>2. Peek = Comma /\ AllAhead(offset, "selectedMore") => AllAhead(offset + 1, "selected")
    BY <1>2, SelectAheadStep DEF AllAhead
  <2> QED BY <2>1, <2>2, ConsumeStep
<1>9. Pass("selectedMore", Peek # Comma, "from") => ParserInv'
  <2>1. Behind(Read, stmt, "selectedMore") => Behind(Read, stmt, "from")
    BY <1>2, SelectBehindStep
  <2>2. Peek # Comma /\ AllAhead(offset, "selectedMore") => AllAhead(offset, "from")
    BY <1>2, SelectAheadStep DEF AllAhead
  <2> QED BY <2>1, <2>2, PassStep
<1>10. Expect("from", IsWord("from"), "selectTable", stmt) => ParserInv'
  <2>1. IsWord("from") /\ Behind(Read, stmt, "from") =>
          Peek # Eof /\ stmt \in Statement /\ Behind(Seen, stmt, "selectTable")
    BY <1>2, SelectBehindStep
  <2>2. AllAhead(offset, "from") => AllAhead(offset + 1, "selectTable") /\ (~(IsWord("from")) => NoneAhead)
    BY <1>2, SelectAheadStep DEF AllAhead, NoneAhead
  <2> QED BY <2>1, <2>2, ExpectStep
<1>11. Expect("selectTable", IsIdent, "where", [stmt EXCEPT !.table = Word]) => ParserInv'
  <2> DEFINE n == [stmt EXCEPT !.table = Word]
  <2>1. ASSUME IsIdent, Behind(Read, stmt, "selectTable")
        PROVE  Peek # Eof /\ n \in Statement /\ Behind(Seen, n, "where")
    <3>1. Word \in Words /\ Word = Lower[Peek.word]
      BY <1>2, <2>1, Tests
    <3>2. TableSet(stmt, n, Word)
      BY <1>2, <3>1, WordUpdates
    <3>3. TableSet(stmt, n, Lower[Peek.word])
      BY <3>1, <3>2
    <3> HIDE DEF n
    <3>4. n \in Statement
      BY <3>3 DEF TableSet
    <3> QED BY <1>2, <2>1, <3>3, <3>4, SelectBehindStep
  <2>2. AllAhead(offset, "selectTable") => AllAhead(offset + 1, "where") /\ (~IsIdent => NoneAhead)
    BY <1>2, SelectAheadStep DEF AllAhead, NoneAhead
  <2> HIDE DEF n
  <2>3. Expect("selectTable", IsIdent, "where", n) => ParserInv'
    BY <2>1, <2>2, ExpectStep
  <2> QED BY <2>3 DEF n
<1>12. Consume("where", IsWord("where"), "predicate", [stmt EXCEPT !.where = TRUE]) => ParserInv'
  <2> DEFINE n == [stmt EXCEPT !.where = TRUE]
  <2>1. ASSUME IsWord("where"), Behind(Read, stmt, "where")
        PROVE  Peek # Eof /\ n \in Statement /\ Behind(Seen, n, "predicate")
    <3>1. WhereSet(stmt, n)
      BY <1>2, FlagUpdates
    <3> HIDE DEF n
    <3>2. n \in Statement
      BY <3>1 DEF WhereSet
    <3> QED BY <1>2, <2>1, <3>1, <3>2, WhereBehindStep
  <2>2. IsWord("where") /\ AllAhead(offset, "where") => AllAhead(offset + 1, "predicate")
    BY <1>2, WhereAheadStep DEF AllAhead
  <2> HIDE DEF n
  <2>3. Consume("where", IsWord("where"), "predicate", n) => ParserInv'
    BY <2>1, <2>2, ConsumeStep
  <2> QED BY <2>3 DEF n
<1>13. Pass("where", ~IsWord("where"), "finish") => ParserInv'
  <2>1. Behind(Read, stmt, "where") => Behind(Read, stmt, "finish")
    BY <1>2, WhereBehindStep
  <2>2. ~IsWord("where") /\ AllAhead(offset, "where") => AllAhead(offset, "finish")
    BY <1>2, WhereAheadStep DEF AllAhead
  <2> QED BY <2>1, <2>2, PassStep
<1>14. Expect("predicate", IsIdent, "equals", [stmt EXCEPT !.column = Word]) => ParserInv'
  <2> DEFINE n == [stmt EXCEPT !.column = Word]
  <2>1. ASSUME IsIdent, Behind(Read, stmt, "predicate")
        PROVE  Peek # Eof /\ n \in Statement /\ Behind(Seen, n, "equals")
    <3>1. Word \in Words /\ Word = Lower[Peek.word]
      BY <1>2, <2>1, Tests
    <3>2. ColumnSet(stmt, n, Word)
      BY <1>2, <3>1, WordUpdates
    <3>3. ColumnSet(stmt, n, Lower[Peek.word])
      BY <3>1, <3>2
    <3> HIDE DEF n
    <3>4. n \in Statement
      BY <3>3 DEF ColumnSet
    <3> QED BY <1>2, <2>1, <3>3, <3>4, WhereBehindStep
  <2>2. AllAhead(offset, "predicate") => AllAhead(offset + 1, "equals") /\ (~IsIdent => NoneAhead)
    BY <1>2, WhereAheadStep DEF AllAhead, NoneAhead
  <2> HIDE DEF n
  <2>3. Expect("predicate", IsIdent, "equals", n) => ParserInv'
    BY <2>1, <2>2, ExpectStep
  <2> QED BY <2>3 DEF n
<1>15. Expect("equals", Peek = Equals, "predicateValue", stmt) => ParserInv'
  <2>1. Peek = Equals /\ Behind(Read, stmt, "equals") =>
          Peek # Eof /\ stmt \in Statement /\ Behind(Seen, stmt, "predicateValue")
    BY <1>2, WhereBehindStep
  <2>2. AllAhead(offset, "equals") => AllAhead(offset + 1, "predicateValue") /\ (~(Peek = Equals) => NoneAhead)
    BY <1>2, WhereAheadStep DEF AllAhead, NoneAhead
  <2> QED BY <2>1, <2>2, ExpectStep
<1>16. Expect("predicateValue", IsLiteral, "finish",
             [stmt EXCEPT !.values = Append(@, LiteralValue)]) => ParserInv'
  <2> DEFINE n == [stmt EXCEPT !.values = Append(@, LiteralValue)]
  <2>1. ASSUME IsLiteral, Behind(Read, stmt, "predicateValue")
        PROVE  Peek # Eof /\ n \in Statement /\ Behind(Seen, n, "finish")
    <3>0. LiteralValue \in Values /\ Folded(Peek) = Spelled[LiteralValue]
      BY <1>2, <2>1, LiteralTest
    <3>1. NewValue(stmt, n, LiteralValue)
      BY <1>2, <3>0, ValueUpdate
    <3> HIDE DEF n
    <3>2. n \in Statement
      BY <3>1 DEF NewValue, ValuesSet
    <3> QED BY <1>2, <2>1, <3>0, <3>1, <3>2, WhereBehindStep
  <2>2. AllAhead(offset, "predicateValue") => AllAhead(offset + 1, "finish") /\ (~IsLiteral => NoneAhead)
    BY <1>2, WhereAheadStep DEF AllAhead, NoneAhead
  <2> HIDE DEF n
  <2>3. Expect("predicateValue", IsLiteral, "finish", n) => ParserInv'
    BY <2>1, <2>2, ExpectStep
  <2> QED BY <2>3 DEF n
<1> QED BY <1>3, <1>4, <1>5, <1>6, <1>7, <1>8, <1>9, <1>10, <1>11, <1>12, <1>13, <1>14, <1>15, <1>16 DEF ParseSelect

\* parse_select_function, up to its list.
LEMMA SelectFunctionKeeps ==
    ASSUME ParserInv, ParseSelectFunction
    PROVE  ParserInv'
<1>1. Ready
  BY DEF ParseSelectFunction, Expect, Consume, Refuse
<1>2. TokenTests
  BY <1>1, PeekTests
<1> USE DEF TokenTests
<1>3. Expect("function", IsIdent, "functionOpen",
             [stmt EXCEPT !.kind = "function", !.name = Word]) => ParserInv'
  <2> DEFINE n == [stmt EXCEPT !.kind = "function", !.name = Word]
  <2>1. ASSUME IsIdent, Behind(Read, stmt, "function")
        PROVE  Peek # Eof /\ n \in Statement /\ Behind(Seen, n, "functionOpen")
    <3>1. Word \in Words /\ Word = Lower[Peek.word]
      BY <1>2, <2>1, Tests
    <3>2. CallSet(stmt, n, Word)
      BY <1>2, <3>1, WordUpdates
    <3>3. CallSet(stmt, n, Lower[Peek.word])
      BY <3>1, <3>2
    <3> HIDE DEF n
    <3>4. n \in Statement
      BY <3>3 DEF CallSet
    <3> QED BY <1>2, <2>1, <3>3, <3>4, InsertBehindStep
  <2>2. AllAhead(offset, "function") => AllAhead(offset + 1, "functionOpen") /\ (~IsIdent => NoneAhead)
    BY <1>2, SelectAheadStep DEF AllAhead, NoneAhead
  <2> HIDE DEF n
  <2>3. Expect("function", IsIdent, "functionOpen", n) => ParserInv'
    BY <2>1, <2>2, ExpectStep
  <2> QED BY <2>3 DEF n
<1>4. Expect("functionOpen", Peek = LParen, "literals", stmt) => ParserInv'
  <2>1. Peek = LParen /\ Behind(Read, stmt, "functionOpen") =>
          Peek # Eof /\ stmt \in Statement /\ Behind(Seen, stmt, "literals")
    BY <1>2, InsertBehindStep
  <2>2. AllAhead(offset, "functionOpen") => AllAhead(offset + 1, "literals") /\ (~(Peek = LParen) => NoneAhead)
    BY <1>2, SelectAheadStep DEF AllAhead, NoneAhead
  <2> QED BY <2>1, <2>2, ExpectStep
<1> QED BY <1>3, <1>4 DEF ParseSelectFunction

\* finish.
LEMMA FinishKeeps ==
    ASSUME ParserInv, Finish
    PROVE  ParserInv'
<1>1. Ready
  BY DEF Finish, Consume, Refuse
<1>2. TokenTests
  BY <1>1, PeekTests
<1> USE DEF TokenTests
<1>3. Consume("finish", Peek = Semicolon, "finish", stmt) => ParserInv'
  <2>1. Peek = Semicolon /\ Behind(Read, stmt, "finish") =>
          Peek # Eof /\ stmt \in Statement /\ Behind(Seen, stmt, "finish")
    BY <1>2, FinishBehindStep
  <2>2. Peek = Semicolon /\ AllAhead(offset, "finish") => AllAhead(offset + 1, "finish")
    BY <1>2, WhereAheadStep DEF AllAhead
  <2> QED BY <2>1, <2>2, ConsumeStep
<1>4. Refuse("finish", Peek \notin {Semicolon, Eof}) => ParserInv'
  <2>1. Peek \notin {Semicolon, Eof} /\ AllAhead(offset, "finish") => NoneAhead
    BY <1>2, WhereAheadStep DEF AllAhead, NoneAhead
  <2> QED BY <2>1, RefuseStep
<1>5. ASSUME Peek = Eof, at = "finish", outcome' = "ok", UNCHANGED <<tokens, offset, at, stmt>>
      PROVE  ParserInv'
  <2>1. Ended /\ offset + 1 = Len(tokens) /\ Behind(Read, stmt, at) /\ AllAhead(offset, at)
    BY <1>1, <1>5, ReadyFacts
  <2>2. Read' = Read /\ Input' /\ Ended'
    BY <1>5, <2>1 DEF Read, Input, ParserInv, Ended
  <2>3. AllAhead(offset, at)'
    BY <1>5, <2>1 DEF AllAhead
  <2> QED BY <1>2, <1>5, <2>1, <2>2, <2>3 DEF ParserInv
<1> QED BY <1>3, <1>4, <1>5 DEF Finish

-----------------------------------------------------------------------------
(* The theorems. *)

LEMMA InitKeeps == Init => ParserInv
<1> SUFFICES ASSUME Init PROVE ParserInv
  OBVIOUS
<1>1. /\ tokens = << >> /\ offset = 0 /\ at = "statement" /\ stmt = NoStatement /\ outcome = "parsing"
  BY DEF Init
<1>2. Input
  <2>1. /\ tokens \in Seq(Tokens) /\ Len(tokens) = 0
    BY <1>1
  <2>2. MaxTokens \in Nat \ {0}
    BY ParserAssumption
  <2> QED BY <1>1, <2>1, <2>2 DEF Input, Ended
<1>3. stmt \in Statement
  BY <1>1, NoStatementType
<1>4. Behind(Read, stmt, at)
  <2>1. Len(Read) = 0
    BY <1>1 DEF Read
  <2> QED BY <1>1, <2>1, OtherBehindIs
<1>5. AllAhead(offset, at)
  BY <1>1, GrammarAhead DEF AllAhead
<1> QED BY <1>1, <1>2, <1>3, <1>4, <1>5 DEF ParserInv

\* The places that the parser comes to agree with the grammar: what it has read is a sentence
\* so far, with the words that the statement has, and every way to go on is one it will accept.
THEOREM ParserInvariant == Spec => []ParserInv
<1>1. ParserInv /\ [Next]_vars => ParserInv'
  <2> SUFFICES ASSUME ParserInv, [Next]_vars PROVE ParserInv'
    OBVIOUS
  <2>1. CASE Supply
    BY <2>1, SupplyKeeps
  <2>2. CASE Parse
    BY <2>2, StatementKeeps, CreateTableKeeps, CreateIndexKeeps, LiteralsKeep, InsertKeeps,
       LoadExtensionKeeps, SelectKeeps, SelectFunctionKeeps, FinishKeeps DEF Parse
  <2>3. CASE UNCHANGED vars
    BY <2>3, StutterKeeps
  <2> QED BY <2>1, <2>2, <2>3 DEF Next
<1> QED BY <1>1, InitKeeps, PTL DEF Spec

\* parse_statement accepts the sentences of the grammar and nothing else, and it gives up only
\* on an input that no continuation would make a sentence, whatever the words and however long
\* the input.
THEOREM ParserGrammar == Spec => []AcceptsTheGrammar
  BY ParserInvariant, InvAccepts, PTL

\* The statement that parse_statement returns has the names, types and values of its text, each
\* in its place.
THEOREM ParserWords == Spec => []StatementKeepsWords
  BY ParserInvariant, InvKeepsWords, PTL
=============================================================================
