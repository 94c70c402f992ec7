-------------------------- MODULE SqlTablesProofs --------------------------
(***************************************************************************)
(* Proofs about SqlTables: the codecs of rows and catalogs read back what  *)
(* they wrote, and every invariant of the SQL executor that TLC checks     *)
(* holds for every set of names, schemas and literals and for every bound. *)
(*                                                                         *)
(* The parts, in this order: records and how a decoder walks over them;    *)
(* rows; catalogs; the invariant SqlInv; one lemma for each way in which   *)
(* a state changes (a relation, a heap page, a row or an index entry       *)
(* more); the statements; and what SqlInv implies.                         *)
(***************************************************************************)
EXTENDS SqlTables, SequenceTheorems, FiniteSetTheorems, WellFoundedInduction, TLAPS

-----------------------------------------------------------------------------
(* Cursors over a record. *)

\* A cursor that has not failed, before the field at offset + 1.
Cur(rec, off, out) == [record |-> rec, offset |-> off, ok |-> TRUE, out |-> out]

\* The record has the fields of s behind offset off.
Holds(rec, off, s) ==
    /\ off \in Nat /\ Len(rec) \in Nat /\ off + Len(s) <= Len(rec)
    /\ \A k \in 1..Len(s) : rec[off + k] = s[k]

Cursors(rec, off, out) == [record : {rec}, offset : {off}, ok : {TRUE}, out : {out}]

LEMMA CurIn ==
    ASSUME NEW rec, NEW off, NEW out
    PROVE  /\ Cur(rec, off, out) \in Cursors(rec, off, out)
           /\ \A c \in Cursors(rec, off, out) : c = Cur(rec, off, out)
           /\ Cur(rec, off, out).record = rec /\ Cur(rec, off, out).offset = off
           /\ Cur(rec, off, out).ok /\ Cur(rec, off, out).out = out
<1>1. Cur(rec, off, out) \in Cursors(rec, off, out)
  BY DEF Cur, Cursors
<1>2. ASSUME NEW c \in Cursors(rec, off, out) PROVE c = Cur(rec, off, out)
  BY DEF Cur, Cursors
<1>3. /\ Cur(rec, off, out).record = rec /\ Cur(rec, off, out).offset = off
      /\ Cur(rec, off, out).out = out
  BY DEF Cur
<1>4. Cur(rec, off, out).ok
  BY DEF Cur
<1> QED BY <1>1, <1>2, <1>3, <1>4

LEMMA CurOut ==
    ASSUME NEW rec, NEW off, NEW out, NEW u
    PROVE  [Cur(rec, off, out) EXCEPT !.out = u] = Cur(rec, off, u)
<1> DEFINE c == Cur(rec, off, out)
<1>1. c \in Cursors(rec, off, out)
  BY CurIn
<1> HIDE DEF c
<1>2. [c EXCEPT !.out = u] \in Cursors(rec, off, u)
  BY <1>1 DEF Cursors
<1> QED BY <1>2, CurIn DEF c

LEMMA CursorIs == \A record : Cursor(record) = Cur(record, 0, << >>)
  BY DEF Cursor, Cur

LEMMA FreshIs == \A rec, off, out : Fresh(Cur(rec, off, out)) = Cur(rec, off, << >>)
  BY CurOut DEF Fresh

\* Reading a field that is there.
LEMMA ReadOne ==
    ASSUME NEW rec, NEW off, NEW w, NEW v, Holds(rec, off, <<Field(w, v)>>), NEW out
    PROVE  /\ ReadField(Cur(rec, off, out), w) = Cur(rec, off + 1, Append(out, v))
           /\ off + 1 \in Nat /\ off + 1 <= Len(rec)
<1>1. /\ off \in Nat /\ Len(rec) \in Nat /\ off + 1 <= Len(rec)
      /\ rec[off + 1] = [width |-> w, value |-> v]
  BY DEF Holds, Field
<1>2. off # Len(rec) /\ off + 1 \in Nat
  BY <1>1
<1> DEFINE c == Cur(rec, off, out)
<1>3. c.record = rec /\ c.offset = off /\ c.ok /\ c.out = out /\ c \in Cursors(rec, off, out)
  BY CurIn
<1> DEFINE o == off + 1
           u == Append(out, v)
<1>4. [c EXCEPT !.offset = o, !.out = u] = Cur(rec, o, u)
  <2> HIDE DEF c, o, u
  <2>1. [c EXCEPT !.offset = o, !.out = u] \in Cursors(rec, o, u)
    BY <1>3 DEF Cursors
  <2> QED BY <2>1, CurIn
<1> HIDE DEF c
<1>5. /\ c.ok /\ ~IsFinished(c)
      /\ c.record[c.offset + 1].width = w /\ c.record[c.offset + 1].value = v
  BY <1>1, <1>2, <1>3 DEF IsFinished
<1>6. ReadField(c, w) = [c EXCEPT !.offset = c.offset + 1,
                                  !.out = Append(c.out, c.record[c.offset + 1].value)]
  BY <1>5 DEF ReadField
<1>7. ReadField(c, w) = [c EXCEPT !.offset = off + 1, !.out = Append(out, v)]
  BY <1>3, <1>5, <1>6
<1> QED BY <1>1, <1>2, <1>4, <1>7 DEF c

LEMMA ReadFirst ==
    ASSUME NEW rec, NEW off, NEW w, NEW v, Holds(rec, off, <<Field(w, v)>>)
    PROVE  ReadField(Cur(rec, off, << >>), w) = Cur(rec, off + 1, <<v>>)
<1> DEFINE u == << >>
           x == <<v>>
<1>1. Append(u, v) = x
  OBVIOUS
<1> HIDE DEF u, x
<1>2. ReadField(Cur(rec, off, u), w) = Cur(rec, off + 1, Append(u, v))
  BY ReadOne
<1> QED BY <1>1, <1>2 DEF u, x

\* The parts of what a record holds.
LEMMA HoldsParts ==
    ASSUME NEW rec, NEW off, NEW S, NEW s \in Seq(S), NEW t \in Seq(S), Holds(rec, off, s \o t)
    PROVE  Holds(rec, off, s) /\ Holds(rec, off + Len(s), t)
<1>1. /\ Len(s \o t) = Len(s) + Len(t) /\ Len(s) \in Nat /\ Len(t) \in Nat
      /\ off \in Nat /\ Len(rec) \in Nat /\ off + (Len(s) + Len(t)) <= Len(rec)
  BY DEF Holds
<1>2. \A k \in 1..Len(s) : k \in 1..Len(s \o t) /\ (s \o t)[k] = s[k]
  BY <1>1
<1>3. \A k \in 1..Len(t) : Len(s) + k \in 1..Len(s \o t) /\ (s \o t)[Len(s) + k] = t[k]
  BY <1>1
<1>4. \A k \in 1..Len(t) : rec[off + (Len(s) + k)] = t[k]
  BY <1>3 DEF Holds
<1>5. \A k \in 1..Len(t) : (off + Len(s)) + k = off + (Len(s) + k)
  BY <1>1
<1> QED BY <1>1, <1>2, <1>4, <1>5 DEF Holds

\* One turn of ReadFields.
ReadTurn(p, i, x) == TRUE
FieldFold == INSTANCE FoldProofs WITH Op <- ReadField, Inv <- ReadTurn

LEMMA FieldFoldIs == \A c, s : FieldFold!Fold(c, s) = ReadFields(c, s)
  BY DEF ReadFields, FieldFold!Fold, FoldLeft, MapThenFoldSet, FieldFold!MapThenFoldSet,
         Max, FieldFold!Greatest

LEMMA Fields1 ==
    ASSUME NEW c, NEW a PROVE ReadFields(c, <<a>>) = ReadField(c, a)
<1> DEFINE s == <<a>>
<1>1. s \in Seq({a}) /\ Len(s) = 1 /\ s[1] = a
  OBVIOUS
<1> HIDE DEF s
<1>2. PICK f : /\ f[0] = c
               /\ \A i \in 1..Len(s) : f[i] = ReadField(f[i - 1], s[i])
               /\ ReadFields(c, s) = f[Len(s)]
  BY <1>1, FieldFold!FoldTurns, FieldFoldIs
<1>3. f[1] = ReadField(f[1 - 1], s[1])
  BY <1>1, <1>2
<1>4. f[1] = ReadField(c, a)
  BY <1>1, <1>2, <1>3
<1> QED BY <1>1, <1>2, <1>4 DEF s

LEMMA Fields2 ==
    ASSUME NEW c, NEW a, NEW b
    PROVE  ReadFields(c, <<a, b>>) = ReadField(ReadField(c, a), b)
<1> DEFINE s == <<a, b>>
<1>1. s \in Seq({a, b}) /\ Len(s) = 2 /\ s[1] = a /\ s[2] = b
  OBVIOUS
<1> HIDE DEF s
<1>2. PICK f : /\ f[0] = c
               /\ \A i \in 1..Len(s) : f[i] = ReadField(f[i - 1], s[i])
               /\ ReadFields(c, s) = f[Len(s)]
  BY <1>1, FieldFold!FoldTurns, FieldFoldIs, SMTT(30)
<1>3. f[1] = ReadField(f[1 - 1], s[1]) /\ f[2] = ReadField(f[2 - 1], s[2])
  BY <1>1, <1>2
<1>4. f[1] = ReadField(c, a) /\ f[2] = ReadField(f[1], b)
  BY <1>1, <1>2, <1>3
<1> QED BY <1>1, <1>2, <1>4 DEF s

LEMMA Fields3 ==
    ASSUME NEW c, NEW a, NEW b, NEW d
    PROVE  ReadFields(c, <<a, b, d>>) = ReadField(ReadField(ReadField(c, a), b), d)
<1> DEFINE s == <<a, b, d>>
<1>1. s \in Seq({a, b, d}) /\ Len(s) = 3 /\ s[1] = a /\ s[2] = b /\ s[3] = d
  OBVIOUS
<1> HIDE DEF s
<1>2. PICK f : /\ f[0] = c
               /\ \A i \in 1..Len(s) : f[i] = ReadField(f[i - 1], s[i])
               /\ ReadFields(c, s) = f[Len(s)]
  BY <1>1, FieldFold!FoldTurns, FieldFoldIs
<1>3. \A i \in {1, 2, 3} : f[i] = ReadField(f[i - 1], s[i])
  BY <1>1, <1>2
<1>4. f[1] = ReadField(c, a) /\ f[2] = ReadField(f[1], b) /\ f[3] = ReadField(f[2], d)
  BY <1>1, <1>2, <1>3
<1> QED BY <1>1, <1>2, <1>4 DEF s

LEMMA Fields5 ==
    ASSUME NEW c, NEW a, NEW b, NEW d, NEW e, NEW g
    PROVE  ReadFields(c, <<a, b, d, e, g>>) =
             ReadField(ReadField(ReadField(ReadField(ReadField(c, a), b), d), e), g)
<1> DEFINE s == <<a, b, d, e, g>>
<1>1. s \in Seq({a, b, d, e, g}) /\ Len(s) = 5
  OBVIOUS
<1>2. s[1] = a /\ s[2] = b /\ s[3] = d /\ s[4] = e /\ s[5] = g
  OBVIOUS
<1> HIDE DEF s
<1> DEFINE S == {a, b, d, e, g}
<1> HIDE DEF S
<1>3. s \in Seq(S)
  BY <1>1 DEF S
<1>4. PICK f : /\ f[0] = c
               /\ \A i \in 1..Len(s) : f[i] = ReadField(f[i - 1], s[i])
               /\ ReadFields(c, s) = f[Len(s)]
  BY <1>3, FieldFold!FoldTurns, FieldFoldIs
<1>5. \A i \in {1, 2, 3, 4, 5} : f[i] = ReadField(f[i - 1], s[i])
  BY <1>1, <1>4
<1>6. /\ f[1] = ReadField(c, a) /\ f[2] = ReadField(f[1], b) /\ f[3] = ReadField(f[2], d)
      /\ f[4] = ReadField(f[3], e) /\ f[5] = ReadField(f[4], g)
  BY <1>2, <1>4, <1>5
<1> QED BY <1>1, <1>4, <1>6 DEF s

-----------------------------------------------------------------------------
(* Sequences of parts. *)

LEMMA SameSeq ==
    ASSUME NEW S, NEW s \in Seq(S), NEW t \in Seq(S), Len(s) = Len(t),
           \A i \in 1..Len(s) : s[i] = t[i]
    PROVE  s = t
  OBVIOUS

LEMMA AppendLast ==
    ASSUME NEW S, NEW s \in Seq(S), NEW x \in S
    PROVE  /\ Append(s, x) \in Seq(S) /\ Len(Append(s, x)) = Len(s) + 1
           /\ Append(s, x)[Len(s) + 1] = x /\ \A i \in 1..Len(s) : Append(s, x)[i] = s[i]
  OBVIOUS

LEMMA ConcatFacts ==
    ASSUME NEW S, NEW a \in Seq(S), NEW b \in Seq(S)
    PROVE  /\ a \o b \in Seq(S) /\ Len(a \o b) = Len(a) + Len(b)
           /\ \A n \in 1..Len(a) : (a \o b)[n] = a[n]
           /\ \A n \in 1..Len(b) : (a \o b)[Len(a) + n] = b[n]
  OBVIOUS

LEMMA AppendToOne == ASSUME NEW x, NEW y PROVE Append(<<x>>, y) = <<x, y>>
<1> DEFINE S == {x, y}
           s == <<x>>
           t == <<x, y>>
<1>1. s \in Seq(S) /\ Len(s) = 1 /\ s[1] = x /\ y \in S
  OBVIOUS
<1>2. t \in Seq(S) /\ Len(t) = 2 /\ t[1] = x /\ t[2] = y
  OBVIOUS
<1> HIDE DEF s, t, S
<1>3. Append(s, y) \in Seq(S) /\ Len(Append(s, y)) = 2 /\ Append(s, y)[1] = x /\ Append(s, y)[2] = y
  <2>1. 1 \in 1..Len(s) /\ Len(s) + 1 = 2
    BY <1>1
  <2>2. /\ Append(s, y) \in Seq(S) /\ Len(Append(s, y)) = Len(s) + 1
        /\ Append(s, y)[Len(s) + 1] = y /\ \A i \in 1..Len(s) : Append(s, y)[i] = s[i]
    <3>1. s \in Seq(S) /\ y \in S
      BY <1>1
    <3> QED BY <3>1, AppendLast
  <2> QED BY <1>1, <2>1, <2>2
<1>4. Append(s, y) = t
  <2>1. \A i \in 1..2 : i = 1 \/ i = 2
    OBVIOUS
  <2> QED BY <1>2, <1>3, <2>1, SameSeq
<1> QED BY <1>4 DEF s, t

LEMMA AppendToTwo == ASSUME NEW x, NEW y, NEW z PROVE Append(<<x, y>>, z) = <<x, y, z>>
<1> DEFINE S == {x, y, z}
           s == <<x, y>>
           t == <<x, y, z>>
<1>1. s \in Seq(S) /\ Len(s) = 2 /\ s[1] = x /\ s[2] = y /\ z \in S
  OBVIOUS
<1>2. t \in Seq(S) /\ Len(t) = 3 /\ t[1] = x /\ t[2] = y /\ t[3] = z
  OBVIOUS
<1> HIDE DEF s, t, S
<1>3. /\ Append(s, z) \in Seq(S) /\ Len(Append(s, z)) = 3
      /\ Append(s, z)[1] = x /\ Append(s, z)[2] = y /\ Append(s, z)[3] = z
  <2>1. 1 \in 1..Len(s) /\ 2 \in 1..Len(s) /\ Len(s) + 1 = 3
    BY <1>1
  <2>2. /\ Append(s, z) \in Seq(S) /\ Len(Append(s, z)) = Len(s) + 1
        /\ Append(s, z)[Len(s) + 1] = z /\ \A i \in 1..Len(s) : Append(s, z)[i] = s[i]
    <3>1. s \in Seq(S) /\ z \in S
      BY <1>1
    <3> QED BY <3>1, AppendLast
  <2> QED BY <1>1, <2>1, <2>2
<1>4. Append(s, z) = t
  <2>1. \A i \in 1..3 : i = 1 \/ i = 2 \/ i = 3
    OBVIOUS
  <2> QED BY <1>2, <1>3, <2>1, SameSeq
<1> QED BY <1>4 DEF s, t

LEMMA JoinOnes == ASSUME NEW x, NEW y PROVE <<x>> \o <<y>> = <<x, y>>
<1> DEFINE S == {x, y}
           s == <<x>>
           u == <<y>>
           t == <<x, y>>
<1>1. s \in Seq(S) /\ Len(s) = 1 /\ s[1] = x /\ u \in Seq(S) /\ Len(u) = 1 /\ u[1] = y
  OBVIOUS
<1>2. t \in Seq(S) /\ Len(t) = 2 /\ t[1] = x /\ t[2] = y
  OBVIOUS
<1> HIDE DEF s, t, u, S
<1>3. s \o u \in Seq(S) /\ Len(s \o u) = 2 /\ (s \o u)[1] = x /\ (s \o u)[2] = y
  <2>1. /\ s \o u \in Seq(S) /\ Len(s \o u) = Len(s) + Len(u)
        /\ \A n \in 1..Len(s) : (s \o u)[n] = s[n]
        /\ \A n \in 1..Len(u) : (s \o u)[Len(s) + n] = u[n]
    BY <1>1, ConcatFacts
  <2>2. 1 \in 1..Len(s) /\ 1 \in 1..Len(u) /\ Len(s) + 1 = 2
    BY <1>1
  <2> QED BY <1>1, <2>1, <2>2
<1>4. s \o u = t
  <2>1. \A i \in 1..2 : i = 1 \/ i = 2
    OBVIOUS
  <2> QED BY <1>2, <1>3, <2>1, SameSeq
<1> QED BY <1>4 DEF s, t, u

\* The partial results of FlattenSeq.
Joined(ss, f) ==
    /\ f[1] = ss[1]
    /\ \A i \in 1..(Len(ss) - 1) : f[i + 1] = f[i] \o ss[i + 1]

LEMMA FlattenFacts ==
    ASSUME NEW S, NEW ss \in Seq(S), Len(ss) # 0
    PROVE  \E f : Joined(ss, f) /\ FlattenSeq(ss) = f[Len(ss)]
<1> DEFINE N == Len(ss)
           body(t) == [i \in 1..N |-> IF i = 1 THEN ss[i] ELSE t[i - 1] \o ss[i]]
           Run(f, n) == /\ DOMAIN f = 1..(n + 1) /\ f[1] = ss[1]
                        /\ \A i \in 1..n : f[i + 1] = f[i] \o ss[i + 1]
           T == {n \in 0..(N - 1) : \E f : Run(f, n)}
           m == CHOOSE t : t = body(t)
<1>1. N \in Nat /\ N >= 1
  OBVIOUS
<1> HIDE DEF N
<1>2. 0 \in T
  <2>1. Run([i \in 1..1 |-> ss[1]], 0)
    OBVIOUS
  <2>2. 0 \in 0..(N - 1)
    BY <1>1
  <2> HIDE DEF Run
  <2>3. \E f : Run(f, 0)
    BY <2>1
  <2> QED BY <2>2, <2>3
<1>3. ASSUME NEW n \in 0..((N - 1) - 1), n \in T PROVE n + 1 \in T
  <2>1. PICK f : Run(f, n)
    BY <1>3
  <2> DEFINE g == [i \in 1..((n + 1) + 1) |-> IF i = (n + 1) + 1 THEN f[n + 1] \o ss[n + 2] ELSE f[i]]
  <2>2. n + 1 \in 0..(N - 1) /\ n \in Nat /\ n + 2 = (n + 1) + 1
    BY <1>1
  <2>3. /\ DOMAIN g = 1..((n + 1) + 1) /\ g[1] = ss[1]
        /\ g[(n + 1) + 1] = f[n + 1] \o ss[n + 2]
        /\ \A i \in 1..(n + 1) : g[i] = f[i]
    <3>1. /\ (n + 1) + 1 \in 1..((n + 1) + 1) /\ 1 \in 1..(n + 1)
          /\ \A i \in 1..(n + 1) : i \in 1..((n + 1) + 1) /\ i # (n + 1) + 1
      BY <2>2
    <3>2. f[1] = ss[1]
      BY <2>1
    <3> QED BY <3>1, <3>2
  <2> HIDE DEF g
  <2>4. ASSUME NEW i \in 1..(n + 1) PROVE g[i + 1] = g[i] \o ss[i + 1]
    <3>1. CASE i = n + 1
      BY <2>2, <2>3, <3>1
    <3>2. CASE i # n + 1
      <4>1. i \in 1..n /\ i + 1 \in 1..(n + 1)
        BY <2>2, <2>4, <3>2
      <4>2. g[i + 1] = f[i + 1] /\ g[i] = f[i] /\ f[i + 1] = f[i] \o ss[i + 1]
        BY <2>1, <2>3, <4>1
      <4> QED BY <4>2
    <3> QED BY <3>1, <3>2
  <2>5. Run(g, n + 1)
    BY <2>3, <2>4
  <2> QED BY <2>2, <2>5
<1>4. PICK f : Run(f, N - 1)
  <2>1. N - 1 \in T
    <3> HIDE DEF T
    <3>1. N - 1 \in Nat
      BY <1>1
    <3>2. 0..(N - 1) \subseteq T
      BY <1>2, <1>3, <3>1, FieldFold!CountTo
    <3> QED BY <3>1, <3>2
  <2> QED BY <2>1
<1> DEFINE g == [i \in 1..N |-> f[i]]
<1>5. g = body(g)
  <2>1. \A i \in 1..N : g[i] = IF i = 1 THEN ss[i] ELSE g[i - 1] \o ss[i]
    <3> TAKE i \in 1..N
    <3>1. CASE i = 1
      BY <1>4, <3>1
    <3>2. CASE i # 1
      <4>1. i - 1 \in 1..(N - 1) /\ (i - 1) + 1 = i /\ i - 1 \in 1..N
        BY <1>1, <3>2
      <4>2. f[i] = f[i - 1] \o ss[i]
        BY <1>4, <4>1
      <4> QED BY <3>2, <4>1, <4>2
    <3> QED BY <3>1, <3>2
  <2> HIDE DEF g
  <2>2. DOMAIN g = 1..N
    BY DEF g
  <2>3. g = [i \in 1..N |-> g[i]]
    BY DEF g
  <2> QED BY <2>1, <2>3
<1>6. m = body(m)
  <2> HIDE DEF body, g
  <2> QED BY <1>5
<1>7. FlattenSeq(ss) = m[N]
  BY <1>1 DEF FlattenSeq, N
<1> HIDE DEF m
<1>8. \A i \in 1..N : m[i] = IF i = 1 THEN ss[i] ELSE m[i - 1] \o ss[i]
  <2>1. \A i \in 1..N : m[i] = body(m)[i]
    <3> HIDE DEF body
    <3> QED BY <1>6
  <2> QED BY <2>1
<1>9. Joined(ss, m)
  <2>1. 1 \in 1..N /\ \A i \in 1..(N - 1) : i + 1 \in 1..N /\ i + 1 # 1 /\ (i + 1) - 1 = i
    BY <1>1
  <2> HIDE DEF body
  <2> QED BY <1>8, <2>1 DEF Joined, N
<1> QED BY <1>7, <1>9 DEF N

\* The sequence s is made of the parts ss; the part i is behind place at[i - 1].
Placed(ss, at, s) ==
    /\ at[0] = 0 /\ Len(s) = at[Len(ss)]
    /\ \A i \in 1..Len(ss) :
         /\ at[i - 1] \in Nat /\ at[i] = at[i - 1] + Len(ss[i]) /\ at[i] <= Len(s)
         /\ \A k \in 1..Len(ss[i]) : s[at[i - 1] + k] = ss[i][k]

LEMMA FlattenPlaces ==
    ASSUME NEW S, NEW ss \in Seq(Seq(S))
    PROVE  FlattenSeq(ss) \in Seq(S) /\ \E at : Placed(ss, at, FlattenSeq(ss))
<1>1. CASE Len(ss) = 0
  <2>1. FlattenSeq(ss) = ss /\ ss = << >>
    BY <1>1 DEF FlattenSeq
  <2>2. Placed(ss, [i \in {0} |-> 0], FlattenSeq(ss))
    BY <2>1 DEF Placed
  <2> QED BY <2>1, <2>2
<1>2. CASE Len(ss) # 0
  <2> DEFINE N == Len(ss)
  <2>1. N \in Nat /\ N >= 1 /\ \A i \in 1..N : ss[i] \in Seq(S) /\ Len(ss[i]) \in Nat
    BY <1>2
  <2>2. PICK f : Joined(ss, f) /\ FlattenSeq(ss) = f[N]
    BY <1>2, FlattenFacts
  <2> DEFINE at == [i \in 0..N |-> IF i = 0 THEN 0 ELSE Len(f[i])]
             Upto(n) == /\ f[n] \in Seq(S)
                        /\ \A i \in 1..n :
                             /\ at[i - 1] \in Nat /\ at[i] = at[i - 1] + Len(ss[i])
                             /\ at[i] <= Len(f[n])
                             /\ \A k \in 1..Len(ss[i]) : f[n][at[i - 1] + k] = ss[i][k]
             T == {n \in 0..(N - 1) : Upto(n + 1)}
  <2> HIDE DEF N
  <2>3. at[0] = 0 /\ \A i \in 1..N : at[i] = Len(f[i])
    BY <2>1
  <2>4. N = Len(ss)
    BY DEF N
  <2> HIDE DEF at
  <2>5. Upto(0 + 1)
    <3>1. f[1] = ss[1] /\ ss[1] \in Seq(S) /\ 1 \in 1..N
      BY <2>1, <2>2 DEF Joined
    <3>2. at[1] = Len(ss[1]) /\ at[0] = 0 /\ Len(ss[1]) \in Nat
      BY <2>1, <2>3, <3>1
    <3>3. \A i \in 1..1 : i = 1 /\ i - 1 = 0
      OBVIOUS
    <3>4. \A k \in 1..Len(ss[1]) : 0 + k = k
      BY <3>2
    <3> QED BY <3>1, <3>2, <3>3, <3>4
  <2>6. ASSUME NEW n \in 0..((N - 1) - 1), n \in T PROVE n + 1 \in T
    <3> DEFINE m == n + 1
    <3>1. n \in Nat /\ m \in 1..(N - 1) /\ m \in 1..N /\ m + 1 \in 1..N /\ m \in 0..(N - 1) /\ m \in Nat
      BY <2>1, <2>6
    <3>2. Upto(m)
      BY <2>6
    <3> HIDE DEF m
    <3>3. f[m + 1] = f[m] \o ss[m + 1] /\ f[m] \in Seq(S) /\ ss[m + 1] \in Seq(S)
      BY <2>4, <2>1, <2>2, <3>1, <3>2 DEF Joined
    <3>4. /\ f[m + 1] \in Seq(S) /\ Len(f[m + 1]) = Len(f[m]) + Len(ss[m + 1])
          /\ Len(f[m]) \in Nat /\ Len(ss[m + 1]) \in Nat
      BY <3>3
    <3> DEFINE a == f[m]
               b == ss[m + 1]
    <3>5. f[m + 1] = a \o b /\ a \in Seq(S) /\ b \in Seq(S)
      BY <3>3
    <3> HIDE DEF a, b
    <3>6. /\ \A j \in 1..Len(a) : (a \o b)[j] = a[j]
          /\ \A k \in 1..Len(b) : (a \o b)[Len(a) + k] = b[k]
      BY <3>5, ConcatFacts
    <3>7. \A j \in 1..Len(f[m]) : f[m + 1][j] = f[m][j]
      BY <3>5, <3>6 DEF a
    <3>8. \A k \in 1..Len(ss[m + 1]) : f[m + 1][Len(f[m]) + k] = ss[m + 1][k]
      BY <3>5, <3>6 DEF a, b
    <3>9. at[m] = Len(f[m]) /\ at[m + 1] = Len(f[m + 1])
      BY <2>3, <3>1
    <3>10. ASSUME NEW i \in 1..(m + 1)
          PROVE  /\ at[i - 1] \in Nat /\ at[i] = at[i - 1] + Len(ss[i])
                 /\ at[i] <= Len(f[m + 1])
                 /\ \A k \in 1..Len(ss[i]) : f[m + 1][at[i - 1] + k] = ss[i][k]
      <4>1. CASE i = m + 1
        <5>1. i - 1 = m
          BY <3>1, <4>1
        <5>2. at[i - 1] = Len(f[m]) /\ at[i] = Len(f[m + 1]) /\ ss[i] = ss[m + 1]
          BY <3>9, <4>1, <5>1
        <5>3. at[i - 1] \in Nat /\ at[i] = at[i - 1] + Len(ss[i]) /\ at[i] <= Len(f[m + 1])
          BY <3>4, <5>2
        <5> QED BY <3>8, <5>2, <5>3
      <4>2. CASE i # m + 1
        <5>1. i \in 1..m /\ i \in 1..N
          BY <2>1, <3>1, <3>10, <4>2
        <5>2. /\ at[i - 1] \in Nat /\ at[i] = at[i - 1] + Len(ss[i]) /\ at[i] <= Len(f[m])
              /\ \A k \in 1..Len(ss[i]) : f[m][at[i - 1] + k] = ss[i][k]
          BY <3>2, <5>1
        <5>3. Len(ss[i]) \in Nat
          BY <2>1, <5>1
        <5> DEFINE x == at[i - 1]
                   l == Len(ss[i])
                   y == Len(f[m])
                   z == Len(ss[m + 1])
        <5>4. x \in Nat /\ l \in Nat /\ y \in Nat /\ z \in Nat /\ at[i] = x + l /\ x + l <= y
              /\ Len(f[m + 1]) = y + z
          BY <3>4, <5>2, <5>3
        <5> HIDE DEF x, l, y, z
        <5>5. at[i] <= Len(f[m + 1])
          BY <5>4
        <5>6. \A k \in 1..l : x + k \in 1..y
          BY <5>4
        <5>7. ASSUME NEW k \in 1..Len(ss[i]) PROVE at[i - 1] + k \in 1..Len(f[m])
          BY <5>6 DEF x, l, y
        <5> QED BY <3>7, <5>2, <5>5, <5>7
      <4> QED BY <4>1, <4>2
    <3>11. Upto(m + 1)
      BY <3>4, <3>10
    <3> HIDE DEF Upto
    <3> QED BY <3>1, <3>11 DEF m
  <2>7. 0 \in T
    <3>1. 0 \in 0..(N - 1)
      BY <2>1
    <3> HIDE DEF Upto
    <3> QED BY <2>5, <3>1
  <2>8. N - 1 \in Nat /\ (N - 1) + 1 = N /\ N - 1 \in 0..(N - 1)
    BY <2>1
  <2>9. N - 1 \in T
    <3> HIDE DEF T
    <3>1. 0..(N - 1) \subseteq T
      BY <2>6, <2>7, <2>8, FieldFold!CountTo
    <3> QED BY <2>8, <3>1
  <2>10. Upto(N)
    BY <2>8, <2>9
  <2>11. Placed(ss, at, f[N])
    <3>1. Len(f[N]) = at[N]
      BY <2>1, <2>3
    <3> QED BY <2>4, <2>3, <2>10, <3>1 DEF Placed
  <2> HIDE DEF Upto, T
  <2>12. f[N] \in Seq(S)
    BY <2>10 DEF Upto
  <2> QED BY <2>2, <2>11, <2>12
<1> QED BY <1>1, <1>2

\* The record has the parts ss, one after the other, behind offset off.
Laid(rec, off, S, ss, at) ==
    /\ ss \in Seq(Seq(S)) /\ Placed(ss, at, FlattenSeq(ss))
    /\ Holds(rec, off, FlattenSeq(ss))

LEMMA HoldsFlat ==
    ASSUME NEW rec, NEW off, NEW S, NEW ss, NEW at, Laid(rec, off, S, ss, at),
           NEW i \in 1..Len(ss)
    PROVE  Holds(rec, off + at[i - 1], ss[i]) /\ off + at[i - 1] \in Nat
           /\ (off + at[i - 1]) + Len(ss[i]) = off + at[i]
<1>1. ss \in Seq(Seq(S)) /\ Placed(ss, at, FlattenSeq(ss)) /\ Holds(rec, off, FlattenSeq(ss))
  BY DEF Laid
<1> DEFINE s == FlattenSeq(ss)
<1>2. /\ at[i - 1] \in Nat /\ at[i] = at[i - 1] + Len(ss[i]) /\ at[i] <= Len(s)
      /\ \A k \in 1..Len(ss[i]) : s[at[i - 1] + k] = ss[i][k]
  BY <1>1 DEF Placed
<1>3. ss[i] \in Seq(S) /\ Len(ss[i]) \in Nat /\ s \in Seq(S) /\ Len(s) \in Nat
  BY <1>1, FlattenPlaces
<1>4. /\ off \in Nat /\ Len(rec) \in Nat /\ off + Len(s) <= Len(rec)
      /\ \A k \in 1..Len(s) : rec[off + k] = s[k]
  BY <1>1 DEF Holds
<1> HIDE DEF s
<1>5. ASSUME NEW k \in 1..Len(ss[i]) PROVE rec[(off + at[i - 1]) + k] = ss[i][k]
  <2> DEFINE x == at[i - 1]
             l == Len(ss[i])
             y == Len(s)
  <2>1. x \in Nat /\ l \in Nat /\ y \in Nat /\ x + l <= y /\ off \in Nat
    BY <1>2, <1>3, <1>4
  <2> HIDE DEF x, l, y
  <2>2. \A j \in 1..l : x + j \in 1..y /\ off + (x + j) = (off + x) + j
    BY <2>1
  <2>3. at[i - 1] + k \in 1..Len(s) /\ off + (at[i - 1] + k) = (off + at[i - 1]) + k
    BY <2>2 DEF x, l, y
  <2> QED BY <1>2, <1>4, <2>3
<1>6. /\ off + at[i - 1] \in Nat /\ (off + at[i - 1]) + Len(ss[i]) = off + at[i]
      /\ (off + at[i - 1]) + Len(ss[i]) <= Len(rec)
  BY <1>2, <1>3, <1>4
<1> QED BY <1>4, <1>5, <1>6 DEF Holds

-----------------------------------------------------------------------------
(* Groups of fields, and counted sequences of them. *)

\* After i turns a decoder is behind part i, and has what the parts up to i stand for.
PartsRead(p, i, x) == x = Cur(p.rec, p.at[i], SubSeq(p.items, 1, i))

GroupFold == INSTANCE FoldProofs WITH Op <- ReadGroup, Inv <- PartsRead

LEMMA ReadGroupsIs ==
    ASSUME NEW count, NEW widths, count.ok
    PROVE  ReadGroups(count, widths) =
             GroupFold!Fold(Fresh(count), [i \in 1..count.out[1] |-> widths])
  BY DEF ReadGroups, GroupFold!Fold, FoldLeft, MapThenFoldSet, GroupFold!MapThenFoldSet,
         Max, GroupFold!Greatest

LEMMA FirstItems ==
    ASSUME NEW G, NEW items \in Seq(G)
    PROVE  /\ SubSeq(items, 1, 0) = << >> /\ SubSeq(items, 1, Len(items)) = items
           /\ \A i \in 1..Len(items) :
                /\ SubSeq(items, 1, i - 1) \in Seq(G)
                /\ SubSeq(items, 1, i) = Append(SubSeq(items, 1, i - 1), items[i])
<1>1. SubSeq(items, 1, 0) = << >>
  OBVIOUS
<1>2. SubSeq(items, 1, Len(items)) = items
  OBVIOUS
<1>3. ASSUME NEW i \in 1..Len(items)
      PROVE  /\ SubSeq(items, 1, i - 1) \in Seq(G)
             /\ SubSeq(items, 1, i) = Append(SubSeq(items, 1, i - 1), items[i])
  <2>1. i - 1 \in 0..Len(items) /\ i \in 0..Len(items) /\ (i - 1) + 1 = i
    OBVIOUS
  <2> DEFINE a == SubSeq(items, 1, i - 1)
             b == SubSeq(items, 1, i)
  <2>2. /\ a \in Seq(G) /\ Len(a) = i - 1 /\ \A k \in 1..(i - 1) : a[k] = items[k]
    BY <2>1
  <2>3. /\ b \in Seq(G) /\ Len(b) = i /\ \A k \in 1..i : b[k] = items[k]
    BY <2>1
  <2> HIDE DEF a, b
  <2>4. items[i] \in G
    OBVIOUS
  <2>5. b = Append(a, items[i])
    BY <2>1, <2>2, <2>3, <2>4
  <2> QED BY <2>2, <2>5 DEF a, b
<1> QED BY <1>1, <1>2, <1>3

\* Every group is where the last one ends.
GroupTurns(rec, at, G, groups, widths) ==
    \A i \in 1..Len(groups) : \A out \in Seq(G) :
        ReadGroup(Cur(rec, at[i - 1], out), widths) = Cur(rec, at[i], Append(out, groups[i]))

\* The widths of n groups.
Same(n, widths) == [i \in 1..n |-> widths]

LEMMA GroupsRead ==
    ASSUME NEW rec, NEW n \in Nat, NEW at, NEW G, NEW groups \in Seq(G), Len(groups) = n, NEW widths,
           GroupTurns(rec, at, G, groups, widths)
    PROVE  GroupFold!Fold(Cur(rec, at[0], << >>), Same(n, widths)) = Cur(rec, at[n], groups)
<1> DEFINE p == [rec |-> rec, at |-> at, items |-> groups]
           s == Same(n, widths)
           base == Cur(rec, at[0], << >>)
<1>1. s \in Seq({widths}) /\ Len(s) = n /\ \A i \in 1..n : s[i] = widths
  BY DEF Same
<1>2. p.rec = rec /\ p.at = at /\ p.items = groups
  OBVIOUS
<1> HIDE DEF p, s
<1>3. PartsRead(p, 0, base)
  BY <1>2, FirstItems DEF PartsRead
<1>4. ASSUME NEW i \in 1..Len(s), NEW x, PartsRead(p, i - 1, x)
      PROVE  PartsRead(p, i, ReadGroup(x, s[i]))
  <2>1. x = Cur(rec, at[i - 1], SubSeq(groups, 1, i - 1))
    BY <1>2, <1>4 DEF PartsRead
  <2>2. /\ i \in 1..n /\ s[i] = widths /\ SubSeq(groups, 1, i - 1) \in Seq(G)
        /\ SubSeq(groups, 1, i) = Append(SubSeq(groups, 1, i - 1), groups[i])
    BY <1>1, FirstItems
  <2>3. ReadGroup(x, s[i]) = Cur(rec, at[i], Append(SubSeq(groups, 1, i - 1), groups[i]))
    BY <2>1, <2>2 DEF GroupTurns
  <2> QED BY <1>2, <2>2, <2>3 DEF PartsRead
<1> HIDE DEF base
<1>5. PartsRead(p, Len(s), GroupFold!Fold(base, s))
  BY <1>1, <1>3, <1>4, GroupFold!FoldKeeps
<1>6. SubSeq(groups, 1, n) = groups
  BY FirstItems
<1>7. GroupFold!Fold(base, s) = Cur(rec, at[n], groups)
  BY <1>1, <1>2, <1>5, <1>6 DEF PartsRead
<1> QED BY <1>7 DEF base, s

LEMMA GroupRead ==
    ASSUME NEW rec, NEW off, NEW o, NEW g, NEW widths, NEW out,
           ReadFields(Cur(rec, off, << >>), widths) = Cur(rec, o, g)
    PROVE  ReadGroup(Cur(rec, off, out), widths) = Cur(rec, o, Append(out, g))
<1> DEFINE c == Cur(rec, off, out)
           d == Cur(rec, o, g)
<1>1. ReadFields(Fresh(c), widths) = d
  BY FreshIs
<1>2. c.out = out /\ d.ok /\ d.out = g
  BY CurIn
<1>3. [d EXCEPT !.out = Append(out, g)] = Cur(rec, o, Append(out, g))
  <2> DEFINE u == Append(out, g)
  <2> HIDE DEF u
  <2>1. [d EXCEPT !.out = u] = Cur(rec, o, u)
    BY CurOut
  <2> QED BY <2>1 DEF u
<1> HIDE DEF c, d
<1>4. ReadGroup(c, widths) = [d EXCEPT !.out = Append(out, g)]
  BY <1>1, <1>2 DEF ReadGroup, AddGroup
<1> QED BY <1>3, <1>4 DEF c

LEMMA CountedRead ==
    ASSUME NEW rec, NEW off, NEW out, NEW w, NEW widths, NEW n, NEW o, NEW groups,
           ReadField(Cur(rec, off, << >>), w) = Cur(rec, off + 1, <<n>>),
           GroupFold!Fold(Cur(rec, off + 1, << >>), Same(n, widths)) = Cur(rec, o, groups)
    PROVE  ReadCounted(Cur(rec, off, out), w, widths) = Cur(rec, o, Append(out, groups))
<1> DEFINE c == Cur(rec, off, out)
           d == Cur(rec, off + 1, <<n>>)
           e == Cur(rec, o, groups)
<1>1. ReadField(Fresh(c), w) = d
  BY FreshIs
<1>2. c.out = out /\ d.ok /\ d.out = <<n>> /\ e.ok /\ e.out = groups
  BY CurIn
<1>3. [e EXCEPT !.out = Append(out, groups)] = Cur(rec, o, Append(out, groups))
  <2> DEFINE u == Append(out, groups)
  <2> HIDE DEF u
  <2>1. [e EXCEPT !.out = u] = Cur(rec, o, u)
    BY CurOut
  <2> QED BY <2>1 DEF u
<1>4. Fresh(d) = Cur(rec, off + 1, << >>) /\ d.out[1] = n
  BY <1>2, FreshIs
<1>5. ReadGroups(d, widths) = e
  <2> HIDE DEF d, e
  <2>1. ReadGroups(d, widths) = GroupFold!Fold(Fresh(d), [i \in 1..d.out[1] |-> widths])
    BY <1>2, ReadGroupsIs
  <2> QED BY <1>4, <2>1 DEF e, Same
<1> HIDE DEF c, d, e
<1>6. ReadCounted(c, w, widths) = [e EXCEPT !.out = Append(out, groups)]
  BY <1>1, <1>2, <1>5 DEF ReadCounted, AddGroup
<1> QED BY <1>3, <1>6 DEF c

-----------------------------------------------------------------------------
(* Rows: decode_row reads what encode_row has written. *)

\* The values of rows: NULL has no number.
Stored == {v \in Value : v.type = "null" => v.n = 0}
RowField == [width : {"magic", "u16", "u8", "b8", "text"}, value : Int \cup {"RDBR"}]

LEMMA TagFacts ==
    /\ Tag["null"] = 0 /\ Tag["int"] = 1 /\ Tag["text"] = 2 /\ Tag["double"] = 3
    /\ DOMAIN Tag = {"null", "int", "text", "double"} /\ Tag.null = 0
    /\ Width["int"] = "b8" /\ Width["text"] = "text" /\ Width["double"] = "b8"
<1>1. Tag["null"] = 0 /\ Tag["int"] = 1 /\ Tag["text"] = 2 /\ Tag["double"] = 3 /\ Tag.null = 0
  BY DEF Tag
<1>2. DOMAIN Tag = {"null", "int", "text", "double"}
  BY DEF Tag
<1>3. Width["int"] = "b8" /\ Width["text"] = "text" /\ Width["double"] = "b8"
  BY DEF Width
<1> QED BY <1>1, <1>2, <1>3

LEMMA TagChosen ==
    ASSUME NEW type \in {"null", "int", "text", "double"}
    PROVE  /\ (CHOOSE t \in DOMAIN Tag : Tag[t] = Tag[type]) = type
           /\ Tag[type] \in Range(Tag) /\ Tag[type] \in 0..3
<1>1. \A t \in DOMAIN Tag : Tag[t] = Tag[type] => t = type
  BY TagFacts
<1>2. type \in DOMAIN Tag
  BY TagFacts
<1>3. Tag[type] \in Range(Tag)
  BY <1>2 DEF Range
<1>4. Tag[type] \in 0..3
  BY TagFacts
<1> QED BY <1>1, <1>2, <1>3, <1>4

LEMMA EncodeValueFacts ==
    ASSUME NEW v \in Stored
    PROVE  /\ EncodeValue(v) \in Seq(RowField)
           /\ v.type = "null" => EncodeValue(v) = <<Field("u8", Tag[v.type])>> /\ Len(EncodeValue(v)) = 1
           /\ v.type # "null" => /\ EncodeValue(v) = <<Field("u8", Tag[v.type])>> \o <<Field(Width[v.type], v.n)>>
                                 /\ Len(EncodeValue(v)) = 2
<1>1. v.type \in {"null", "int", "text", "double"} /\ v.n \in Int
  BY DEF Stored, Value
<1>2. Tag[v.type] \in Int /\ (v.type # "null" => Width[v.type] \in {"b8", "text"})
  BY <1>1, TagFacts
<1>3. Field("u8", Tag[v.type]) \in RowField
  BY <1>2 DEF Field, RowField
<1>4. v.type # "null" => Field(Width[v.type], v.n) \in RowField
  BY <1>1, <1>2 DEF Field, RowField
<1> DEFINE a == Field("u8", Tag[v.type])
           b == Field(Width[v.type], v.n)
<1>5. EncodeValue(v) = IF v.type = "null" THEN <<a>> ELSE <<a, b>>
  BY TagFacts DEF EncodeValue
<1> HIDE DEF a, b
<1>6. v.type = "null" => EncodeValue(v) \in Seq(RowField) /\ Len(EncodeValue(v)) = 1
  BY <1>3, <1>5 DEF a
<1>7. v.type # "null" => /\ EncodeValue(v) \in Seq(RowField) /\ Len(EncodeValue(v)) = 2
                         /\ <<a, b>> = <<a>> \o <<b>>
  BY <1>3, <1>4, <1>5 DEF a, b
<1> QED BY <1>5, <1>6, <1>7 DEF a, b

\* One turn of decode_row.
LEMMA ValueRead ==
    ASSUME NEW v \in Stored, NEW rec, NEW off, Holds(rec, off, EncodeValue(v)), NEW out, NEW i
    PROVE  DecodeValue(Cur(rec, off, out), i) = Cur(rec, off + Len(EncodeValue(v)), Append(out, v))
<1>1. v.type \in {"null", "int", "text", "double"} /\ v.n \in Int /\ (v.type = "null" => v.n = 0)
      /\ v = [type |-> v.type, n |-> v.n]
  BY DEF Stored, Value
<1> DEFINE a == Field("u8", Tag[v.type])
           b == Field(Width[v.type], v.n)
           c == Cur(rec, off, out)
           tag == ReadField(Fresh(c), "u8")
           type == CHOOSE t \in DOMAIN Tag : Tag[t] = tag.out[1]
           number == ReadField(Fresh(tag), Width[type])
<1>2. Holds(rec, off, <<a>>) /\ (v.type # "null" => Holds(rec, off + 1, <<b>>))
  <2>1. CASE v.type = "null"
    BY <2>1, EncodeValueFacts
  <2>2. CASE v.type # "null"
    <3>1. EncodeValue(v) = <<a>> \o <<b>>
      BY <2>2, EncodeValueFacts
    <3> HIDE DEF a, b
    <3>2. <<a>> \in Seq({a, b}) /\ <<b>> \in Seq({a, b}) /\ Len(<<a>>) = 1
      OBVIOUS
    <3>3. Holds(rec, off, <<a>>) /\ Holds(rec, off + Len(<<a>>), <<b>>)
      BY <3>1, <3>2, HoldsParts
    <3> QED BY <3>2, <3>3
  <2> QED BY <2>1, <2>2
<1>3. tag = Cur(rec, off + 1, <<Tag[v.type]>>)
  <2>1. Fresh(c) = Cur(rec, off, << >>)
    BY FreshIs
  <2> DEFINE t == Tag[v.type]
             w == "u8"
  <2> HIDE DEF t, w
  <2>2. Holds(rec, off, <<Field(w, t)>>)
    BY <1>2 DEF t, w
  <2>3. ReadField(Cur(rec, off, << >>), w) = Cur(rec, off + 1, <<t>>)
    BY <2>2, ReadFirst
  <2> QED BY <2>1, <2>3 DEF t, w
<1>4. c.ok /\ c.out = out
  BY CurIn
<1>5. tag.ok /\ tag.out[1] = Tag[v.type] /\ tag.out[1] \in Range(Tag) /\ type = v.type
  <2>1. tag.ok /\ tag.out = <<Tag[v.type]>>
    BY <1>3, CurIn
  <2>2. tag.out[1] = Tag[v.type]
    BY <2>1
  <2> HIDE DEF tag
  <2> QED BY <1>1, <2>1, <2>2, TagChosen
<1>6. CASE v.type = "null"
  <2> DEFINE u == Append(out, [type |-> type, n |-> 0])
  <2>1. u = Append(out, v)
    BY <1>1, <1>5, <1>6
  <2>2. DecodeValue(c, i) = [tag EXCEPT !.out = u]
    <3> HIDE DEF c
    <3>1. DecodeValue(c, i) = [tag EXCEPT !.out = Append(c.out, [type |-> type, n |-> 0])]
      <4> HIDE DEF tag, number, type
      <4>1. DecodeValue(c, i) =
              IF ~c.ok \/ ~tag.ok \/ tag.out[1] \notin Range(Tag) THEN Failed(c)
              ELSE IF type = "null"
              THEN [tag EXCEPT !.out = Append(c.out, [type |-> type, n |-> 0])]
              ELSE IF ~number.ok THEN Failed(c)
              ELSE [number EXCEPT !.out = Append(c.out, [type |-> type, n |-> number.out[1]])]
        BY DEF DecodeValue, tag, number, type
      <4> QED BY <4>1, <1>4, <1>5, <1>6
    <3> QED BY <3>1, <1>4
  <2> HIDE DEF u, tag, c
  <2>3. [tag EXCEPT !.out = u] = Cur(rec, off + 1, u)
    BY <1>3, CurOut
  <2> QED BY <2>1, <2>2, <2>3, <1>6, EncodeValueFacts DEF c
<1>7. CASE v.type # "null"
  <2>1. number = Cur(rec, (off + 1) + 1, <<v.n>>)
    <3>1. Fresh(tag) = Cur(rec, off + 1, << >>)
      BY <1>3, FreshIs
    <3> DEFINE w == Width[v.type]
               o == off + 1
               x == v.n
    <3> HIDE DEF w, o, x
    <3>2. Holds(rec, o, <<Field(w, x)>>)
      BY <1>2, <1>7 DEF w, o, x
    <3>3. ReadField(Cur(rec, o, << >>), w) = Cur(rec, o + 1, <<x>>)
      BY <3>2, ReadFirst
    <3> HIDE DEF tag, type
    <3> QED BY <1>5, <3>1, <3>3 DEF w, o, x
  <2>2. number.ok /\ number.out = <<v.n>>
    <3> HIDE DEF number
    <3> QED BY <2>1, CurIn
  <2>3. number.out[1] = v.n
    BY <2>2
  <2> DEFINE u == Append(out, [type |-> type, n |-> number.out[1]])
  <2>4. u = Append(out, v)
    <3> HIDE DEF number, type
    <3> QED BY <1>1, <1>5, <2>3
  <2>5. DecodeValue(c, i) = [number EXCEPT !.out = u]
    <3> HIDE DEF c
    <3>1. DecodeValue(c, i) = [number EXCEPT !.out = Append(c.out, [type |-> type, n |-> number.out[1]])]
      <4> HIDE DEF tag, number, type
      <4>1. DecodeValue(c, i) =
              IF ~c.ok \/ ~tag.ok \/ tag.out[1] \notin Range(Tag) THEN Failed(c)
              ELSE IF type = "null"
              THEN [tag EXCEPT !.out = Append(c.out, [type |-> type, n |-> 0])]
              ELSE IF ~number.ok THEN Failed(c)
              ELSE [number EXCEPT !.out = Append(c.out, [type |-> type, n |-> number.out[1]])]
        BY DEF DecodeValue, tag, number, type
      <4> QED BY <4>1, <1>4, <1>5, <1>7, <2>2
    <3> QED BY <3>1, <1>4
  <2> HIDE DEF u, number, c
  <2>6. [number EXCEPT !.out = u] = Cur(rec, (off + 1) + 1, u)
    BY <2>1, CurOut
  <2>7. off \in Nat /\ (off + 1) + 1 = off + 2
    BY <1>2 DEF Holds
  <2>8. Len(EncodeValue(v)) = 2
    BY <1>7, EncodeValueFacts
  <2> QED BY <2>4, <2>5, <2>6, <2>7, <2>8 DEF c
<1> QED BY <1>6, <1>7

LEMMA HoldsTwo ==
    ASSUME NEW rec, NEW off, NEW f, NEW g, Holds(rec, off, <<f, g>>)
    PROVE  Holds(rec, off, <<f>>) /\ Holds(rec, off + 1, <<g>>)
<1> DEFINE S == {f, g}
           s == <<f>>
           t == <<g>>
<1>1. <<f, g>> = s \o t
  BY JoinOnes
<1>2. s \in Seq(S) /\ t \in Seq(S) /\ Len(s) = 1
  OBVIOUS
<1> HIDE DEF s, t, S
<1>3. Holds(rec, off, s \o t) /\ Len(s) = 1
  BY <1>1, <1>2
<1>4. Holds(rec, off, s) /\ Holds(rec, off + Len(s), t)
  BY <1>2, <1>3, HoldsParts
<1> QED BY <1>3, <1>4 DEF s, t

LEMMA HoldsThree ==
    ASSUME NEW rec, NEW off, NEW f, NEW g, NEW h, Holds(rec, off, <<f, g, h>>)
    PROVE  Holds(rec, off, <<f>>) /\ Holds(rec, off + 1, <<g>>) /\ Holds(rec, (off + 1) + 1, <<h>>)
<1> DEFINE S == {f, g, h}
           s == <<f>>
           t == <<g, h>>
<1>1. <<f, g, h>> = s \o t /\ s \in Seq(S) /\ t \in Seq(S) /\ Len(s) = 1
  OBVIOUS
<1> HIDE DEF s, t, S
<1>2. Holds(rec, off, s) /\ Holds(rec, off + Len(s), t)
  BY <1>1, HoldsParts
<1>3. Holds(rec, off + 1, <<g, h>>)
  BY <1>1, <1>2 DEF t
<1>4. Holds(rec, off + 1, <<g>>) /\ Holds(rec, (off + 1) + 1, <<h>>)
  BY <1>3, HoldsTwo
<1> QED BY <1>2, <1>4 DEF s

Pair(rec, off, a, x, b, y) == Holds(rec, off, <<Field(a, x), Field(b, y)>>)
Triple(rec, off, a, x, b, y, d, z) == Holds(rec, off, <<Field(a, x), Field(b, y), Field(d, z)>>)

LEMMA AppendTwo == ASSUME NEW x, NEW y PROVE Append(Append(<< >>, x), y) = <<x, y>>
<1>1. Append(<< >>, x) = <<x>>
  OBVIOUS
<1>2. Append(<<x>>, y) = <<x, y>>
  BY AppendToOne
<1> QED BY <1>1, <1>2

LEMMA AppendThree ==
    ASSUME NEW x, NEW y, NEW z PROVE Append(Append(Append(<< >>, x), y), z) = <<x, y, z>>
<1>1. Append(<<x, y>>, z) = <<x, y, z>>
  BY AppendToTwo
<1> QED BY <1>1, AppendTwo

\* Reading two, or three, fields that are there.
LEMMA ReadPair ==
    ASSUME NEW rec, NEW off, NEW a, NEW x, NEW b, NEW y,
           Pair(rec, off, a, x, b, y), NEW out
    PROVE  /\ ReadFields(Cur(rec, off, out), <<a, b>>) = Cur(rec, (off + 1) + 1, Append(Append(out, x), y))
           /\ off \in Nat /\ (off + 1) + 1 <= Len(rec)
<1> DEFINE f == Field(a, x)
           g == Field(b, y)
<1>1. Holds(rec, off, <<f, g>>)
  BY DEF Pair
<1> HIDE DEF f, g
<1>2. Holds(rec, off, <<f>>) /\ Holds(rec, off + 1, <<g>>)
  BY <1>1, HoldsTwo
<1>3. Holds(rec, off, <<Field(a, x)>>) /\ Holds(rec, off + 1, <<Field(b, y)>>)
  BY <1>2 DEF f, g
<1> DEFINE o == off + 1
           u == Append(out, x)
<1>4. ReadField(Cur(rec, off, out), a) = Cur(rec, o, u)
  BY <1>3, ReadOne
<1>5. Holds(rec, o, <<Field(b, y)>>)
  BY <1>3
<1>6. off \in Nat
  BY <1>3 DEF Holds
<1> HIDE DEF o, u
<1>7. ReadField(Cur(rec, o, u), b) = Cur(rec, o + 1, Append(u, y)) /\ o + 1 <= Len(rec)
  BY <1>5, ReadOne
<1>8. ReadFields(Cur(rec, off, out), <<a, b>>) = Cur(rec, o + 1, Append(u, y))
  BY <1>4, <1>7, Fields2
<1> QED BY <1>7, <1>8, <1>6 DEF o, u

LEMMA ReadTriple ==
    ASSUME NEW rec, NEW off, NEW a, NEW x, NEW b, NEW y, NEW d, NEW z,
           Triple(rec, off, a, x, b, y, d, z), NEW out
    PROVE  /\ ReadFields(Cur(rec, off, out), <<a, b, d>>) =
                Cur(rec, ((off + 1) + 1) + 1, Append(Append(Append(out, x), y), z))
           /\ off \in Nat /\ ((off + 1) + 1) + 1 <= Len(rec)
<1> DEFINE f == Field(a, x)
           g == Field(b, y)
           h == Field(d, z)
<1>1. Holds(rec, off, <<f, g, h>>)
  BY DEF Triple
<1> HIDE DEF f, g, h
<1>2. Holds(rec, off, <<f>>) /\ Holds(rec, off + 1, <<g>>) /\ Holds(rec, (off + 1) + 1, <<h>>)
  BY <1>1, HoldsThree
<1>3. Holds(rec, off, <<Field(a, x)>>) /\ Holds(rec, off + 1, <<Field(b, y)>>)
      /\ Holds(rec, (off + 1) + 1, <<Field(d, z)>>)
  BY <1>2 DEF f, g, h
<1> DEFINE o == off + 1
           u == Append(out, x)
<1>4. ReadField(Cur(rec, off, out), a) = Cur(rec, o, u)
  BY <1>3, ReadOne
<1>5. Holds(rec, o, <<Field(b, y)>>) /\ Holds(rec, o + 1, <<Field(d, z)>>)
  BY <1>3
<1>6. off \in Nat
  BY <1>3 DEF Holds
<1> HIDE DEF o, u
<1> DEFINE q == o + 1
           w == Append(u, y)
<1>7. ReadField(Cur(rec, o, u), b) = Cur(rec, q, w)
  BY <1>5, ReadOne
<1>8. Holds(rec, q, <<Field(d, z)>>)
  BY <1>5
<1> HIDE DEF q, w
<1>9. ReadField(Cur(rec, q, w), d) = Cur(rec, q + 1, Append(w, z)) /\ q + 1 <= Len(rec)
  BY <1>8, ReadOne
<1>10. ReadFields(Cur(rec, off, out), <<a, b, d>>) = Cur(rec, q + 1, Append(w, z))
  BY <1>4, <1>7, <1>9, Fields3
<1> QED BY <1>9, <1>10, <1>6 DEF o, u, q, w

ValueFold == INSTANCE FoldProofs WITH Op <- DecodeValue, Inv <- PartsRead

LEMMA ValueFoldIs == \A c, s : ValueFold!Fold(c, s) = FoldLeft(DecodeValue, c, s)
  BY DEF ValueFold!Fold, FoldLeft, MapThenFoldSet, ValueFold!MapThenFoldSet,
         Max, ValueFold!Greatest

ValueTurns(rec, at, G, items) ==
    \A i \in 1..Len(items) : \A out \in Seq(G) : \A j :
        DecodeValue(Cur(rec, at[i - 1], out), j) = Cur(rec, at[i], Append(out, items[i]))

LEMMA ValuesRead ==
    ASSUME NEW rec, NEW n \in Nat, NEW at, NEW G, NEW items \in Seq(G), Len(items) = n,
           ValueTurns(rec, at, G, items)
    PROVE  ValueFold!Fold(Cur(rec, at[0], << >>), [i \in 1..n |-> i]) = Cur(rec, at[n], items)
<1> DEFINE p == [rec |-> rec, at |-> at, items |-> items]
           s == [i \in 1..n |-> i]
           base == Cur(rec, at[0], << >>)
<1>1. s \in Seq(Nat) /\ Len(s) = n
  OBVIOUS
<1>2. p.rec = rec /\ p.at = at /\ p.items = items
  OBVIOUS
<1> HIDE DEF p, s
<1>3. PartsRead(p, 0, base)
  BY <1>2, FirstItems DEF PartsRead
<1>4. ASSUME NEW i \in 1..Len(s), NEW x, PartsRead(p, i - 1, x)
      PROVE  PartsRead(p, i, DecodeValue(x, s[i]))
  <2>1. x = Cur(rec, at[i - 1], SubSeq(items, 1, i - 1))
    BY <1>2, <1>4 DEF PartsRead
  <2>2. /\ i \in 1..n /\ SubSeq(items, 1, i - 1) \in Seq(G)
        /\ SubSeq(items, 1, i) = Append(SubSeq(items, 1, i - 1), items[i])
    BY <1>1, FirstItems
  <2>3. DecodeValue(x, s[i]) = Cur(rec, at[i], Append(SubSeq(items, 1, i - 1), items[i]))
    BY <2>1, <2>2 DEF ValueTurns
  <2> QED BY <1>2, <2>2, <2>3 DEF PartsRead
<1> HIDE DEF base
<1>5. PartsRead(p, Len(s), ValueFold!Fold(base, s))
  BY <1>1, <1>3, <1>4, ValueFold!FoldKeeps
<1>6. SubSeq(items, 1, n) = items
  BY FirstItems
<1>7. ValueFold!Fold(base, s) = Cur(rec, at[n], items)
  BY <1>1, <1>2, <1>5, <1>6 DEF PartsRead
<1> QED BY <1>7 DEF base, s

\* decode_row accepts every row that encode_row writes, and returns its values.
THEOREM RowReadsBack ==
    ASSUME NEW row \in Seq(Stored)
    PROVE  DecodeRow(EncodeRow(row)).ok /\ DecodeRow(EncodeRow(row)).values = row
<1> DEFINE n == Len(row)
           ss == [i \in DOMAIN row |-> EncodeValue(row[i])]
           h == <<Field("magic", "RDBR"), Field("u16", 1), Field("u16", n)>>
           t == FlattenSeq(ss)
           rec == h \o t
<1>1. n \in Nat /\ DOMAIN row = 1..n
  OBVIOUS
<1>2. ss \in Seq(Seq(RowField)) /\ Len(ss) = n /\ \A i \in 1..n : ss[i] = EncodeValue(row[i]) /\ row[i] \in Stored
  <2>1. \A i \in 1..n : row[i] \in Stored
    OBVIOUS
  <2>2. \A i \in 1..n : EncodeValue(row[i]) \in Seq(RowField)
    BY <2>1, EncodeValueFacts
  <2> HIDE DEF n
  <2>3. ss = [i \in 1..n |-> EncodeValue(row[i])]
    BY <1>1
  <2> QED BY <1>1, <2>1, <2>2, <2>3
<1>3. h \in Seq(RowField) /\ Len(h) = 3
  <2>1. Field("magic", "RDBR") \in RowField /\ Field("u16", 1) \in RowField
    BY DEF Field, RowField
  <2>2. Field("u16", n) \in RowField
    BY <1>1 DEF Field, RowField
  <2> HIDE DEF n
  <2> QED BY <2>1, <2>2
<1>4. t \in Seq(RowField) /\ \E at : Placed(ss, at, t)
  <2> HIDE DEF ss
  <2> QED BY <1>2, FlattenPlaces
<1>5. PICK at : Placed(ss, at, t)
  BY <1>4
<1>6. EncodeRow(row) = rec
  BY DEF EncodeRow
<1> HIDE DEF n, ss, t
<1>7. rec \in Seq(RowField) /\ Len(rec) = 3 + Len(t) /\ Len(t) \in Nat
  <2> HIDE DEF h
  <2>1. h \o t \in Seq(RowField) /\ Len(h \o t) = Len(h) + Len(t)
    BY <1>3, <1>4, ConcatFacts
  <2> QED BY <1>3, <1>4, <2>1
<1>8. Holds(rec, 0, h) /\ Holds(rec, 3, t)
  <2> HIDE DEF h
  <2>1. Holds(rec, 0, h \o t)
    BY <1>7 DEF Holds
  <2>2. Holds(rec, 0, h) /\ Holds(rec, 0 + Len(h), t)
    <3> HIDE DEF rec
    <3> QED BY <1>3, <1>4, <2>1, HoldsParts
  <2> QED BY <1>3, <2>2
<1> HIDE DEF rec
<1>9. ReadFields(Cursor(rec), <<"magic", "u16", "u16">>) = Cur(rec, 3, <<"RDBR", 1, n>>)
  <2> DEFINE a == "magic"
             b == "u16"
             x == "RDBR"
             y == 1
             e == << >>
             o == 0
             out == <<"RDBR", 1, n>>
  <2>1. Append(Append(Append(e, x), y), n) = out
    BY AppendThree
  <2>2. ((o + 1) + 1) + 1 = 3
    OBVIOUS
  <2>3. Triple(rec, o, a, x, b, y, b, n)
    BY <1>8 DEF Triple
  <2>4. Cursor(rec) = Cur(rec, o, e)
    BY CursorIs
  <2> HIDE DEF a, b, x, y, e, o
  <2>5. ReadFields(Cur(rec, o, e), <<a, b, b>>) =
                Cur(rec, ((o + 1) + 1) + 1, Append(Append(Append(e, x), y), n))
    BY <2>3, ReadTriple
  <2>6. ReadFields(Cursor(rec), <<a, b, b>>) = Cur(rec, 3, out)
    BY <2>1, <2>2, <2>4, <2>5
  <2> QED BY <2>6 DEF a, b
<1> DEFINE head == ReadFields(Cursor(rec), <<"magic", "u16", "u16">>)
           values == FoldLeft(DecodeValue, Fresh(head), [i \in 1..head.out[3] |-> i])
<1>10. head.ok /\ head.out = <<"RDBR", 1, n>>
  <2> HIDE DEF head
  <2> QED BY <1>9, CurIn DEF head
<1>11. head.out[1] = "RDBR" /\ head.out[2] = 1 /\ head.out[3] = n
  <2> HIDE DEF head
  <2> QED BY <1>10
<1> DEFINE to == [i \in 0..n |-> 3 + at[i]]
<1>12. /\ to[0] = 3 /\ to[n] = Len(rec) /\ \A i \in 1..n : to[i] = 3 + at[i] /\ to[i - 1] = 3 + at[i - 1]
  <2>1. at[0] = 0 /\ Len(t) = at[n]
    BY <1>2, <1>5 DEF Placed
  <2>2. 0 \in 0..n /\ n \in 0..n /\ \A i \in 1..n : i \in 0..n /\ i - 1 \in 0..n
    BY <1>1
  <2> QED BY <1>7, <2>1, <2>2
<1> HIDE DEF to
<1>13. ASSUME NEW i \in 1..n, NEW out \in Seq(Stored), NEW j
       PROVE  DecodeValue(Cur(rec, to[i - 1], out), j) = Cur(rec, to[i], Append(out, row[i]))
  <2>1. Placed(ss, at, FlattenSeq(ss)) /\ Holds(rec, 3, FlattenSeq(ss)) /\ i \in 1..Len(ss)
    BY <1>2, <1>5, <1>8 DEF t
  <2>2. Holds(rec, 3 + at[i - 1], ss[i]) /\ (3 + at[i - 1]) + Len(ss[i]) = 3 + at[i]
    <3> DEFINE o == 3
    <3>1. Laid(rec, o, RowField, ss, at)
      BY <1>2, <2>1 DEF Laid
    <3> HIDE DEF o
    <3>2. Holds(rec, o + at[i - 1], ss[i]) /\ (o + at[i - 1]) + Len(ss[i]) = o + at[i]
      BY <2>1, <3>1, HoldsFlat
    <3> QED BY <3>2 DEF o
  <2>3. ss[i] = EncodeValue(row[i]) /\ row[i] \in Stored
    BY <1>2
  <2>4. Holds(rec, to[i - 1], EncodeValue(row[i])) /\ to[i - 1] + Len(EncodeValue(row[i])) = to[i]
    BY <1>12, <2>2, <2>3
  <2> QED BY <2>3, <2>4, ValueRead
<1>14. ValueFold!Fold(Cur(rec, to[0], << >>), [i \in 1..n |-> i]) = Cur(rec, to[n], row)
  <2>1. ValueTurns(rec, to, Stored, row)
    BY <1>13 DEF ValueTurns, n
  <2> QED BY <1>1, <2>1, ValuesRead DEF n
<1>15. Fresh(head) = Cur(rec, to[0], << >>)
  <2> HIDE DEF head
  <2> QED BY <1>9, <1>12, FreshIs DEF head
<1>16. values = Cur(rec, to[n], row)
  <2> HIDE DEF head
  <2>1. values = ValueFold!Fold(Fresh(head), [i \in 1..n |-> i])
    BY <1>11, ValueFoldIs
  <2> QED BY <2>1, <1>14, <1>15
<1>17. values.ok /\ IsFinished(values) /\ values.out = row
  <2> HIDE DEF values
  <2>1. values.ok /\ values.out = row /\ values.record = rec /\ values.offset = to[n]
    BY <1>16, CurIn
  <2> QED BY <1>12, <2>1 DEF IsFinished
<1>18. DecodeRow(rec) = IF \/ ~head.ok \/ head.out[1] # "RDBR" \/ head.out[2] # 1
                           \/ ~values.ok \/ ~IsFinished(values)
                        THEN [ok |-> FALSE]
                        ELSE [ok |-> TRUE, values |-> values.out]
  BY DEF DecodeRow
<1> HIDE DEF head, values
<1>19. DecodeRow(rec) = [ok |-> TRUE, values |-> row]
  BY <1>10, <1>11, <1>17, <1>18
<1>20. DecodeRow(rec).ok /\ DecodeRow(rec).values = row
  BY <1>19
<1> QED BY <1>6, <1>20

-----------------------------------------------------------------------------
(* Counted groups. *)

LEMMA CountedGroups ==
    ASSUME NEW rec, NEW off, NEW out, NEW w, NEW widths, NEW G, NEW groups \in Seq(G), NEW at,
           Holds(rec, off, <<Field(w, Len(groups))>>), at[0] = off + 1,
           GroupTurns(rec, at, G, groups, widths)
    PROVE  ReadCounted(Cur(rec, off, out), w, widths) = Cur(rec, at[Len(groups)], Append(out, groups))
<1> DEFINE n == Len(groups)
           o == at[n]
<1>1. n \in Nat
  OBVIOUS
<1> HIDE DEF n
<1>2. Holds(rec, off, <<Field(w, n)>>) /\ Len(groups) = n
  BY DEF n
<1>3. ReadField(Cur(rec, off, << >>), w) = Cur(rec, off + 1, <<n>>)
  BY <1>2, ReadFirst
<1>4. GroupFold!Fold(Cur(rec, at[0], << >>), Same(n, widths)) = Cur(rec, at[n], groups)
  BY <1>1, <1>2, GroupsRead
<1>5. GroupFold!Fold(Cur(rec, off + 1, << >>), Same(n, widths)) = Cur(rec, o, groups)
  BY <1>4
<1> HIDE DEF o
<1>6. ReadCounted(Cur(rec, off, out), w, widths) = Cur(rec, o, Append(out, groups))
  BY <1>3, <1>5, CountedRead
<1> QED BY <1>6 DEF o, n

\* The fields of parts of one, two and three fields, and the groups they are read as.
Ones(a, s) == [i \in DOMAIN s |-> Field(a, s[i])]
OneGroups(s) == [i \in DOMAIN s |-> <<s[i]>>]
Pairs(a, x, b, y, n) == [i \in 1..n |-> <<Field(a, x[i]), Field(b, y[i])>>]
PairGroups(x, y, n) == [i \in 1..n |-> <<x[i], y[i]>>]
Triples(a, x, b, y, d, z, n) == [i \in 1..n |-> <<Field(a, x[i]), Field(b, y[i]), Field(d, z[i])>>]
TripleGroups(x, y, z, n) == [i \in 1..n |-> <<x[i], y[i], z[i]>>]

LEMMA OnesRead ==
    ASSUME NEW rec, NEW off, NEW out, NEW w, NEW a, NEW S, NEW s \in Seq(S),
           Holds(rec, off, <<Field(w, Len(s))>>), Holds(rec, off + 1, Ones(a, s))
    PROVE  ReadCounted(Cur(rec, off, out), w, <<a>>) = Cur(rec, (off + 1) + Len(s), Append(out, OneGroups(s)))
<1> DEFINE n == Len(s)
           g == OneGroups(s)
           G == {<<x>> : x \in S}
           at == [i \in 0..n |-> (off + 1) + i]
           f == Ones(a, s)
<1>1. n \in Nat /\ DOMAIN s = 1..n /\ off \in Nat
  BY DEF Holds
<1>2. g \in Seq(G) /\ Len(g) = n /\ \A i \in 1..n : g[i] = <<s[i]>>
  <2> HIDE DEF n
  <2>1. \A i \in 1..n : s[i] \in S
    BY <1>1
  <2>2. \A i \in 1..n : <<s[i]>> \in G
    BY <2>1
  <2>3. g = [i \in 1..n |-> <<s[i]>>]
    BY <1>1 DEF OneGroups
  <2> HIDE DEF G, g
  <2> QED BY <1>1, <2>2, <2>3
<1>3. Len(f) = n /\ \A i \in 1..n : f[i] = Field(a, s[i])
  <2> HIDE DEF n
  <2>1. f = [i \in 1..n |-> Field(a, s[i])]
    BY <1>1 DEF Ones
  <2> HIDE DEF f
  <2> QED BY <1>1, <2>1
<1>4. at[0] = off + 1 /\ at[n] = (off + 1) + n /\ \A i \in 1..n : at[i - 1] = off + i /\ at[i] = (off + i) + 1
  <2> HIDE DEF n
  <2>1. 0 \in 0..n /\ n \in 0..n /\ \A i \in 1..n : i \in 0..n /\ i - 1 \in 0..n
    BY <1>1
  <2>2. (off + 1) + 0 = off + 1 /\ \A i \in 1..n : (off + 1) + (i - 1) = off + i /\ (off + 1) + i = (off + i) + 1
    BY <1>1
  <2> QED BY <2>1, <2>2
<1> HIDE DEF n, g, G, at, f
<1>5. GroupTurns(rec, at, G, g, <<a>>)
  <2> SUFFICES ASSUME NEW i \in 1..Len(g), NEW u \in Seq(G)
               PROVE  ReadGroup(Cur(rec, at[i - 1], u), <<a>>) = Cur(rec, at[i], Append(u, g[i]))
    BY DEF GroupTurns
  <2>1. i \in 1..n
    BY <1>2
  <2> DEFINE o == off + i
             x == s[i]
  <2>2. Holds(rec, o, <<Field(a, x)>>)
    <3>1. Holds(rec, off + 1, f)
      BY DEF f
    <3>2. /\ off + 1 \in Nat /\ Len(rec) \in Nat /\ (off + 1) + n <= Len(rec)
          /\ rec[(off + 1) + i] = Field(a, x)
      BY <1>3, <2>1, <3>1 DEF Holds
    <3>3. (off + 1) + i = o + 1 /\ o \in Nat /\ o + 1 <= Len(rec)
      BY <1>1, <2>1, <3>2
    <3> DEFINE y == <<Field(a, x)>>
    <3>4. Len(y) = 1 /\ y[1] = Field(a, x) /\ \A k \in 1..1 : k = 1
      OBVIOUS
    <3> HIDE DEF o, x, y
    <3>5. Holds(rec, o, y)
      BY <3>2, <3>3, <3>4 DEF Holds
    <3> QED BY <3>5 DEF y
  <2>3. at[i - 1] = o /\ at[i] = o + 1 /\ g[i] = <<x>>
    BY <1>2, <1>4, <2>1
  <2> HIDE DEF o, x
  <2>4. ReadField(Cur(rec, o, << >>), a) = Cur(rec, o + 1, <<x>>)
    BY <2>2, ReadFirst
  <2>5. ReadFields(Cur(rec, o, << >>), <<a>>) = Cur(rec, o + 1, <<x>>)
    BY <2>4, Fields1
  <2> DEFINE h == <<x>>
             q == o + 1
  <2> HIDE DEF h, q
  <2>6. ReadGroup(Cur(rec, o, u), <<a>>) = Cur(rec, q, Append(u, h))
    <3>1. ReadFields(Cur(rec, o, << >>), <<a>>) = Cur(rec, q, h)
      BY <2>5 DEF h, q
    <3> QED BY <3>1, GroupRead
  <2> QED BY <2>3, <2>6 DEF h, q
<1>6. Holds(rec, off, <<Field(w, Len(g))>>)
  BY <1>2 DEF n
<1>7. ReadCounted(Cur(rec, off, out), w, <<a>>) = Cur(rec, at[Len(g)], Append(out, g))
  <2> DEFINE v == <<a>>
  <2>1. GroupTurns(rec, at, G, g, v)
    BY <1>5
  <2> HIDE DEF v
  <2>2. ReadCounted(Cur(rec, off, out), w, v) = Cur(rec, at[Len(g)], Append(out, g))
    BY <1>2, <1>4, <1>6, <2>1, CountedGroups
  <2> QED BY <2>2 DEF v
<1> QED BY <1>2, <1>4, <1>7 DEF g, n

LEMMA PairsRead ==
    ASSUME NEW rec, NEW off, NEW out, NEW w, NEW a, NEW x, NEW b, NEW y, NEW n \in Nat, NEW F, NEW at,
           Holds(rec, off, <<Field(w, n)>>), Laid(rec, off + 1, F, Pairs(a, x, b, y, n), at)
    PROVE  ReadCounted(Cur(rec, off, out), w, <<a, b>>) =
             Cur(rec, (off + 1) + at[n], Append(out, PairGroups(x, y, n)))
<1> DEFINE ss == Pairs(a, x, b, y, n)
           g == PairGroups(x, y, n)
           G == {g[i] : i \in 1..n}
           to == [i \in 0..n |-> (off + 1) + at[i]]
<1>1. off \in Nat /\ at[0] = 0
  BY DEF Holds, Laid, Placed
<1>2. Len(ss) = n /\ \A i \in 1..n : ss[i] = <<Field(a, x[i]), Field(b, y[i])>>
  <2>1. ss = [i \in 1..n |-> <<Field(a, x[i]), Field(b, y[i])>>]
    BY DEF Pairs
  <2> HIDE DEF ss
  <2> QED BY <2>1
<1>3. Len(g) = n /\ g \in Seq(G) /\ \A i \in 1..n : g[i] = <<x[i], y[i]>>
  <2>1. g = [i \in 1..n |-> <<x[i], y[i]>>]
    BY DEF PairGroups
  <2> HIDE DEF g
  <2>2. g = [i \in 1..n |-> g[i]]
    BY <2>1
  <2>3. \A i \in 1..n : g[i] \in G
    OBVIOUS
  <2> HIDE DEF G
  <2>4. g \in Seq(G) /\ Len(g) = n
    BY <2>2, <2>3
  <2> QED BY <2>1, <2>4
<1>4. to[0] = off + 1 /\ to[n] = (off + 1) + at[n]
      /\ \A i \in 1..n : to[i - 1] = (off + 1) + at[i - 1] /\ to[i] = (off + 1) + at[i]
  <2>1. 0 \in 0..n /\ n \in 0..n /\ \A i \in 1..n : i \in 0..n /\ i - 1 \in 0..n
    OBVIOUS
  <2>2. (off + 1) + 0 = off + 1
    BY <1>1
  <2> QED BY <1>1, <2>1, <2>2
<1> HIDE DEF ss, g, G, to
<1>5. GroupTurns(rec, to, G, g, <<a, b>>)
  <2> SUFFICES ASSUME NEW i \in 1..Len(g), NEW u \in Seq(G)
               PROVE  ReadGroup(Cur(rec, to[i - 1], u), <<a, b>>) = Cur(rec, to[i], Append(u, g[i]))
    BY DEF GroupTurns
  <2>1. i \in 1..n /\ i \in 1..Len(ss)
    BY <1>2, <1>3
  <2> DEFINE p == off + 1
             o == p + at[i - 1]
             s == ss[i]
  <2>2. Laid(rec, p, F, ss, at)
    BY DEF ss
  <2> HIDE DEF p
  <2>3. Holds(rec, o, s) /\ o \in Nat /\ o + Len(s) = p + at[i]
    BY <2>1, <2>2, HoldsFlat
  <2>4. s = <<Field(a, x[i]), Field(b, y[i])>>
    BY <1>2, <2>1
  <2>5. Pair(rec, o, a, x[i], b, y[i]) /\ Len(s) = 2
    <3> HIDE DEF o, s
    <3>1. Len(s) = 2
      BY <2>4
    <3> QED BY <2>4, <2>3, <3>1 DEF Pair
  <2> HIDE DEF o, s
  <2> DEFINE xi == x[i]
             yi == y[i]
             h == <<xi, yi>>
             e == << >>
             q == (o + 1) + 1
  <2>6. Append(Append(e, xi), yi) = h
    BY AppendTwo
  <2>7. Pair(rec, o, a, xi, b, yi)
    BY <2>5
  <2> HIDE DEF xi, yi, h, e
  <2>8. ReadFields(Cur(rec, o, e), <<a, b>>) = Cur(rec, (o + 1) + 1, Append(Append(e, xi), yi))
    BY <2>7, ReadPair
  <2>9. ReadFields(Cur(rec, o, e), <<a, b>>) = Cur(rec, q, h)
    BY <2>6, <2>8
  <2>10. q = p + at[i]
    BY <2>3, <2>5
  <2> HIDE DEF q
  <2>11. ReadGroup(Cur(rec, o, u), <<a, b>>) = Cur(rec, q, Append(u, h))
    <3>1. ReadFields(Cur(rec, o, << >>), <<a, b>>) = Cur(rec, q, h)
      BY <2>9 DEF e
    <3> DEFINE v == <<a, b>>
    <3> HIDE DEF v
    <3>2. ReadFields(Cur(rec, o, << >>), v) = Cur(rec, q, h)
      BY <3>1 DEF v
    <3>3. ReadGroup(Cur(rec, o, u), v) = Cur(rec, q, Append(u, h))
      BY <3>2, GroupRead
    <3> QED BY <3>3 DEF v
  <2>12. to[i - 1] = o /\ to[i] = q /\ g[i] = h
    BY <1>3, <1>4, <2>1, <2>10 DEF o, p, h, xi, yi
  <2> QED BY <2>11, <2>12
<1>6. Holds(rec, off, <<Field(w, Len(g))>>)
  BY <1>3
<1>7. ReadCounted(Cur(rec, off, out), w, <<a, b>>) = Cur(rec, to[Len(g)], Append(out, g))
  <2> DEFINE v == <<a, b>>
  <2>1. GroupTurns(rec, to, G, g, v)
    BY <1>5
  <2> HIDE DEF v
  <2>2. ReadCounted(Cur(rec, off, out), w, v) = Cur(rec, to[Len(g)], Append(out, g))
    BY <1>3, <1>4, <1>6, <2>1, CountedGroups
  <2> QED BY <2>2 DEF v
<1> QED BY <1>3, <1>4, <1>7 DEF g

LEMMA TriplesRead ==
    ASSUME NEW rec, NEW off, NEW out, NEW w, NEW a, NEW x, NEW b, NEW y, NEW d, NEW z, NEW n \in Nat, NEW F, NEW at,
           Holds(rec, off, <<Field(w, n)>>), Laid(rec, off + 1, F, Triples(a, x, b, y, d, z, n), at)
    PROVE  ReadCounted(Cur(rec, off, out), w, <<a, b, d>>) =
             Cur(rec, (off + 1) + at[n], Append(out, TripleGroups(x, y, z, n)))
<1> DEFINE ss == Triples(a, x, b, y, d, z, n)
           g == TripleGroups(x, y, z, n)
           G == {g[i] : i \in 1..n}
           to == [i \in 0..n |-> (off + 1) + at[i]]
<1>1. off \in Nat /\ at[0] = 0
  BY DEF Holds, Laid, Placed
<1>2. Len(ss) = n /\ \A i \in 1..n : ss[i] = <<Field(a, x[i]), Field(b, y[i]), Field(d, z[i])>>
  <2>1. ss = [i \in 1..n |-> <<Field(a, x[i]), Field(b, y[i]), Field(d, z[i])>>]
    BY DEF Triples
  <2> HIDE DEF ss
  <2> QED BY <2>1
<1>3. Len(g) = n /\ g \in Seq(G) /\ \A i \in 1..n : g[i] = <<x[i], y[i], z[i]>>
  <2>1. g = [i \in 1..n |-> <<x[i], y[i], z[i]>>]
    BY DEF TripleGroups
  <2> HIDE DEF g
  <2>2. g = [i \in 1..n |-> g[i]]
    BY <2>1
  <2>3. \A i \in 1..n : g[i] \in G
    OBVIOUS
  <2> HIDE DEF G
  <2>4. g \in Seq(G) /\ Len(g) = n
    BY <2>2, <2>3
  <2> QED BY <2>1, <2>4
<1>4. to[0] = off + 1 /\ to[n] = (off + 1) + at[n]
      /\ \A i \in 1..n : to[i - 1] = (off + 1) + at[i - 1] /\ to[i] = (off + 1) + at[i]
  <2>1. 0 \in 0..n /\ n \in 0..n /\ \A i \in 1..n : i \in 0..n /\ i - 1 \in 0..n
    OBVIOUS
  <2>2. (off + 1) + 0 = off + 1
    BY <1>1
  <2> QED BY <1>1, <2>1, <2>2
<1> HIDE DEF ss, g, G, to
<1>5. GroupTurns(rec, to, G, g, <<a, b, d>>)
  <2> SUFFICES ASSUME NEW i \in 1..Len(g), NEW u \in Seq(G)
               PROVE  ReadGroup(Cur(rec, to[i - 1], u), <<a, b, d>>) = Cur(rec, to[i], Append(u, g[i]))
    BY DEF GroupTurns
  <2>1. i \in 1..n /\ i \in 1..Len(ss)
    BY <1>2, <1>3
  <2> DEFINE p == off + 1
             o == p + at[i - 1]
             s == ss[i]
  <2>2. Laid(rec, p, F, ss, at)
    BY DEF ss
  <2> HIDE DEF p
  <2>3. Holds(rec, o, s) /\ o \in Nat /\ o + Len(s) = p + at[i]
    BY <2>1, <2>2, HoldsFlat
  <2>4. s = <<Field(a, x[i]), Field(b, y[i]), Field(d, z[i])>>
    BY <1>2, <2>1
  <2>5. Triple(rec, o, a, x[i], b, y[i], d, z[i]) /\ Len(s) = 3
    <3> HIDE DEF o, s
    <3>1. Len(s) = 3
      BY <2>4
    <3> QED BY <2>4, <2>3, <3>1 DEF Triple
  <2> HIDE DEF o, s
  <2> DEFINE xi == x[i]
             yi == y[i]
             zi == z[i]
             h == <<xi, yi, zi>>
             e == << >>
             q == ((o + 1) + 1) + 1
  <2>6. Append(Append(Append(e, xi), yi), zi) = h
    BY AppendThree
  <2>7. Triple(rec, o, a, xi, b, yi, d, zi)
    BY <2>5
  <2> HIDE DEF xi, yi, zi, h, e
  <2>8. ReadFields(Cur(rec, o, e), <<a, b, d>>) = Cur(rec, ((o + 1) + 1) + 1, Append(Append(Append(e, xi), yi), zi))
    BY <2>7, ReadTriple
  <2>9. ReadFields(Cur(rec, o, e), <<a, b, d>>) = Cur(rec, q, h)
    BY <2>6, <2>8
  <2>10. q = p + at[i]
    BY <2>3, <2>5
  <2> HIDE DEF q
  <2>11. ReadGroup(Cur(rec, o, u), <<a, b, d>>) = Cur(rec, q, Append(u, h))
    <3>1. ReadFields(Cur(rec, o, << >>), <<a, b, d>>) = Cur(rec, q, h)
      BY <2>9 DEF e
    <3> DEFINE v == <<a, b, d>>
    <3> HIDE DEF v
    <3>2. ReadFields(Cur(rec, o, << >>), v) = Cur(rec, q, h)
      BY <3>1 DEF v
    <3>3. ReadGroup(Cur(rec, o, u), v) = Cur(rec, q, Append(u, h))
      BY <3>2, GroupRead
    <3> QED BY <3>3 DEF v
  <2>12. to[i - 1] = o /\ to[i] = q /\ g[i] = h
    BY <1>3, <1>4, <2>1, <2>10 DEF o, p, h, xi, yi, zi
  <2> QED BY <2>11, <2>12
<1>6. Holds(rec, off, <<Field(w, Len(g))>>)
  BY <1>3
<1>7. ReadCounted(Cur(rec, off, out), w, <<a, b, d>>) = Cur(rec, to[Len(g)], Append(out, g))
  <2> DEFINE v == <<a, b, d>>
  <2>1. GroupTurns(rec, to, G, g, v)
    BY <1>5
  <2> HIDE DEF v
  <2>2. ReadCounted(Cur(rec, off, out), w, v) = Cur(rec, to[Len(g)], Append(out, g))
    BY <1>3, <1>4, <1>6, <2>1, CountedGroups
  <2> QED BY <2>2 DEF v
<1> QED BY <1>3, <1>4, <1>7 DEF g

-----------------------------------------------------------------------------
(* The storage object of a relation. *)

Widths == {"magic", "u8", "u16", "u32", "u64", "string"}
CatValue == Int \cup Names \cup ColumnNames \cup Types \cup DOMAIN Builtin
              \cup {"", "RDBC", "INDEX_KEY", "static"}
CatField == [width : Widths, value : CatValue]

LEMMA CatValues ==
    /\ Int \subseteq CatValue /\ Names \subseteq CatValue /\ ColumnNames \subseteq CatValue
    /\ Types \subseteq CatValue /\ DOMAIN Builtin \subseteq CatValue
    /\ {"", "RDBC", "INDEX_KEY", "static"} \subseteq CatValue
  BY DEF CatValue

LEMMA FieldIn == \A w \in Widths : \A v \in CatValue : Field(w, v) \in CatField
  BY DEF Field, CatField

LEMMA OnesIn ==
    ASSUME NEW a \in Widths, NEW S, S \subseteq CatValue, NEW s \in Seq(S)
    PROVE  Ones(a, s) \in Seq(CatField) /\ Len(Ones(a, s)) = Len(s)
<1> DEFINE n == Len(s)
           f == Ones(a, s)
<1>1. n \in Nat /\ DOMAIN s = 1..n /\ \A i \in 1..n : s[i] \in CatValue
  OBVIOUS
<1> HIDE DEF n
<1>2. \A i \in 1..n : Field(a, s[i]) \in CatField
  BY <1>1, FieldIn
<1>3. f = [i \in 1..n |-> Field(a, s[i])]
  BY <1>1 DEF Ones
<1> HIDE DEF f
<1>4. f = [i \in 1..n |-> f[i]] /\ \A i \in 1..n : f[i] \in CatField
  BY <1>2, <1>3
<1>5. f \in Seq(CatField) /\ Len(f) = n
  BY <1>1, <1>4
<1> QED BY <1>5 DEF f, n

LEMMA OneGroupsFacts ==
    ASSUME NEW S, NEW s \in Seq(S)
    PROVE  /\ [k \in DOMAIN OneGroups(s) |-> OneGroups(s)[k][1]] = s
           /\ s # << >> => OneGroups(s) # << >>
<1> DEFINE n == Len(s)
           g == OneGroups(s)
<1>1. n \in Nat /\ DOMAIN s = 1..n /\ s = [k \in 1..n |-> s[k]]
  OBVIOUS
<1>2. DOMAIN g = DOMAIN s /\ \A k \in DOMAIN s : g[k][1] = s[k]
  BY DEF OneGroups
<1>3. [k \in DOMAIN g |-> g[k][1]] = s
  <2> HIDE DEF n, g
  <2> QED BY <1>1, <1>2
<1>4. s # << >> => n # 0
  OBVIOUS
<1>5. s # << >> => g # << >>
  <2> HIDE DEF n, g
  <2>1. DOMAIN g = 1..n
    BY <1>1, <1>2
  <2>2. ASSUME g = << >> PROVE n = 0
    <3>1. 1..n = {}
      BY <2>1, <2>2
    <3> QED BY <1>1, <3>1
  <2> QED BY <1>4, <2>2
<1> QED BY <1>3, <1>5

\* A heap with its pages, behind its kind.
HeapFields(pages) == <<Field("u8", StorageHeap), Field("u32", Len(pages))>> \o Ones("u64", pages)
IndexFields(table, root, column) ==
    <<Field("u8", StorageIndex), Field("u64", table), Field("u64", root), Field("string", column)>>

LEMMA HeapFieldsIn ==
    ASSUME NEW S, S \subseteq CatValue, NEW pages \in Seq(S)
    PROVE  /\ HeapFields(pages) \in Seq(CatField)
           /\ Len(HeapFields(pages)) = 2 + Len(pages)
<1> DEFINE f == Field("u8", StorageHeap)
           g == Field("u32", Len(pages))
           h == <<f, g>>
           t == Ones("u64", pages)
<1>1. f \in CatField /\ g \in CatField
  <2>1. StorageHeap \in CatValue /\ Len(pages) \in CatValue
    BY DEF StorageHeap, CatValue
  <2> DEFINE a == "u8"
             b == "u32"
  <2>2. a \in Widths /\ b \in Widths
    BY DEF Widths
  <2> HIDE DEF a, b
  <2> QED BY <2>1, <2>2, FieldIn DEF a, b
<1>2. t \in Seq(CatField) /\ Len(t) = Len(pages)
  <2> DEFINE a == "u64"
  <2>1. a \in Widths
    BY DEF Widths
  <2> HIDE DEF a
  <2>2. Ones(a, pages) \in Seq(CatField) /\ Len(Ones(a, pages)) = Len(pages)
    BY <2>1, OnesIn
  <2> QED BY <2>2 DEF a
<1> HIDE DEF f, g, t
<1>3. h \in Seq(CatField) /\ Len(h) = 2
  BY <1>1
<1> HIDE DEF h
<1>4. h \o t \in Seq(CatField) /\ Len(h \o t) = Len(h) + Len(t)
  BY <1>2, <1>3, ConcatFacts
<1>5. h \o t \in Seq(CatField) /\ Len(h \o t) = 2 + Len(pages)
  BY <1>2, <1>3, <1>4
<1> QED BY <1>5 DEF HeapFields, h, f, g, t

HeapStorage(pages) == [pages |-> pages, table |-> 0, root |-> 0, column |-> ""]

LEMMA HeapRead ==
    ASSUME NEW rec, NEW off, NEW out, NEW S, S \subseteq CatValue, NEW pages \in Seq(S),
           pages # << >>, Holds(rec, off, HeapFields(pages))
    PROVE  DecodeStorage(Cur(rec, off, out)) =
             Cur(rec, off + Len(HeapFields(pages)),
                 Append(out, HeapStorage(pages)))
<1> DEFINE f == Field("u8", StorageHeap)
           g == Field("u32", Len(pages))
           h == <<f, g>>
           t == Ones("u64", pages)
           n == Len(pages)
           gs == OneGroups(pages)
           o == off + 1
<1>1. f \in CatField /\ g \in CatField
  <2>1. StorageHeap \in CatValue /\ Len(pages) \in CatValue
    BY DEF StorageHeap, CatValue
  <2> DEFINE a == "u8"
             b == "u32"
  <2>2. a \in Widths /\ b \in Widths
    BY DEF Widths
  <2> HIDE DEF a, b
  <2> QED BY <2>1, <2>2, FieldIn DEF a, b
<1>2. t \in Seq(CatField) /\ Len(t) = Len(pages)
  <2> DEFINE a == "u64"
  <2>1. a \in Widths
    BY DEF Widths
  <2> HIDE DEF a
  <2>2. Ones(a, pages) \in Seq(CatField) /\ Len(Ones(a, pages)) = Len(pages)
    BY <2>1, OnesIn
  <2> QED BY <2>2 DEF a
<1>3. Holds(rec, off, h \o t)
  BY DEF HeapFields
<1>4. h \in Seq(CatField) /\ Len(h) = 2
  <2> HIDE DEF f, g
  <2> QED BY <1>1
<1>5. Holds(rec, off, h) /\ Holds(rec, off + 2, t)
  <2> HIDE DEF h, t
  <2> QED BY <1>2, <1>3, <1>4, HoldsParts
<1>6. Holds(rec, off, <<f>>) /\ Holds(rec, o, <<g>>) /\ off \in Nat /\ n \in Nat
  <2> HIDE DEF f, g
  <2>1. Holds(rec, off, <<f>>) /\ Holds(rec, o, <<g>>)
    BY <1>5, HoldsTwo
  <2> QED BY <2>1 DEF Holds
<1>7. Holds(rec, o + 1, t)
  <2>1. off + 2 = o + 1
    BY <1>6
  <2> QED BY <1>5, <2>1
<1>8. ReadField(Cur(rec, off, << >>), "u8") = Cur(rec, o, <<StorageHeap>>)
  <2> DEFINE k == StorageHeap
             w == "u8"
  <2>1. Holds(rec, off, <<Field(w, k)>>)
    BY <1>6
  <2> HIDE DEF k, w
  <2>2. ReadField(Cur(rec, off, << >>), w) = Cur(rec, off + 1, <<k>>)
    BY <2>1, ReadFirst
  <2> QED BY <2>2 DEF k, w
<1> DEFINE kind == Cur(rec, o, <<StorageHeap>>)
           q == (o + 1) + n
           st == Cur(rec, q, <<StorageHeap, gs>>)
<1>9. ReadCounted(kind, "u32", <<"u64">>) = st
  <2> DEFINE w == "u32"
             a == "u64"
             u == <<StorageHeap>>
             v == <<StorageHeap, gs>>
  <2>1. Append(u, gs) = v
    BY AppendToOne
  <2>2. Holds(rec, o, <<Field(w, Len(pages))>>)
    BY <1>6
  <2>3. Holds(rec, o + 1, Ones(a, pages))
    BY <1>7
  <2> HIDE DEF w, a, u, v, o
  <2>4. ReadCounted(Cur(rec, o, u), w, <<a>>) = Cur(rec, (o + 1) + Len(pages), Append(u, OneGroups(pages)))
    BY <2>2, <2>3, OnesRead
  <2>5. ReadCounted(Cur(rec, o, u), w, <<a>>) = Cur(rec, q, v)
    BY <2>1, <2>4
  <2> QED BY <2>5 DEF w, a, u, v
<1>10. kind.ok /\ kind.out = <<StorageHeap>> /\ st.ok /\ st.out = <<StorageHeap, gs>>
  BY CurIn
<1>11. gs # << >> /\ [k \in DOMAIN gs |-> gs[k][1]] = pages
  BY OneGroupsFacts
<1> DEFINE c == Cur(rec, off, out)
           build == HeapStorage(pages)
<1>12. c.out = out /\ Fresh(c) = Cur(rec, off, << >>)
  BY CurIn, FreshIs
<1> HIDE DEF kind, st, gs, c
<1>13. StorageFields(kind) = st
  BY <1>9, <1>10 DEF StorageFields
<1>14. SomePages(st) = st
  BY <1>10, <1>11 DEF SomePages
<1>15. AsStorage(st.out) = build
  <2>1. st.out[1] = StorageHeap /\ st.out[2] = gs
    BY <1>10
  <2> HIDE DEF build
  <2> QED BY <1>11, <2>1 DEF AsStorage, build, HeapStorage
<1> HIDE DEF build
<1>16. DecodeStorage(c) = [st EXCEPT !.out = Append(out, build)]
  BY <1>8, <1>10, <1>12, <1>13, <1>14, <1>15 DEF DecodeStorage, AddGroup, kind
<1>17. [st EXCEPT !.out = Append(out, build)] = Cur(rec, q, Append(out, build))
  <2> DEFINE u == Append(out, build)
             x == <<StorageHeap, gs>>
  <2> HIDE DEF u, x, q
  <2>1. [Cur(rec, q, x) EXCEPT !.out = u] = Cur(rec, q, u)
    BY CurOut
  <2> QED BY <2>1 DEF u, x, st
<1>18. q = off + Len(HeapFields(pages))
  <2>1. Len(HeapFields(pages)) = 2 + n
    BY HeapFieldsIn
  <2> HIDE DEF n
  <2> QED BY <1>6, <2>1
<1> QED BY <1>16, <1>17, <1>18 DEF c, build

LEMMA AppendToThree ==
    ASSUME NEW a, NEW b, NEW c, NEW d
    PROVE  Append(<<a, b, c>>, d) = <<a, b, c, d>>
<1> DEFINE S == {a, b, c, d}
           s == <<a, b, c>>
           t == <<a, b, c, d>>
<1>1. s \in Seq(S) /\ d \in S
  OBVIOUS
<1>2. Len(s) = 3
  OBVIOUS
<1>3. s[1] = a /\ s[2] = b /\ s[3] = c
  OBVIOUS
<1>4. t \in Seq(S) /\ Len(t) = 4
  OBVIOUS
<1>5. t[1] = a /\ t[2] = b /\ t[3] = c /\ t[4] = d
  OBVIOUS
<1> HIDE DEF s, t, S
<1> DEFINE u == Append(s, d)
<1>6. /\ u \in Seq(S) /\ Len(u) = Len(s) + 1
      /\ u[Len(s) + 1] = d /\ \A i \in 1..Len(s) : u[i] = s[i]
  BY <1>1
<1> HIDE DEF u
<1>7. 1 \in 1..Len(s) /\ 2 \in 1..Len(s) /\ 3 \in 1..Len(s) /\ Len(s) + 1 = 4
  BY <1>2
<1>8. Len(u) = 4 /\ u[1] = a /\ u[2] = b /\ u[3] = c /\ u[4] = d
  BY <1>3, <1>6, <1>7
<1>9. \A i \in 1..4 : i = 1 \/ i = 2 \/ i = 3 \/ i = 4
  OBVIOUS
<1>10. \A i \in 1..Len(u) : u[i] = t[i]
  BY <1>5, <1>8, <1>9
<1>11. u = t
  BY <1>4, <1>6, <1>8, <1>10, SameSeq
<1> QED BY <1>11 DEF s, t, u

LEMMA AppendToFour ==
    ASSUME NEW a, NEW b, NEW c, NEW d, NEW e
    PROVE  Append(<<a, b, c, d>>, e) = <<a, b, c, d, e>>
<1> DEFINE S == {a, b, c, d, e}
           s == <<a, b, c, d>>
           t == <<a, b, c, d, e>>
<1>1. s \in Seq(S) /\ e \in S
  OBVIOUS
<1>2. Len(s) = 4
  OBVIOUS
<1>3. s[1] = a /\ s[2] = b /\ s[3] = c /\ s[4] = d
  OBVIOUS
<1>4. t \in Seq(S) /\ Len(t) = 5
  OBVIOUS
<1>5. t[1] = a /\ t[2] = b /\ t[3] = c /\ t[4] = d /\ t[5] = e
  OBVIOUS
<1> HIDE DEF s, t, S
<1> DEFINE u == Append(s, e)
<1>6. /\ u \in Seq(S) /\ Len(u) = Len(s) + 1
      /\ u[Len(s) + 1] = e /\ \A i \in 1..Len(s) : u[i] = s[i]
  BY <1>1
<1> HIDE DEF u
<1>7. 1 \in 1..Len(s) /\ 2 \in 1..Len(s) /\ 3 \in 1..Len(s) /\ 4 \in 1..Len(s) /\ Len(s) + 1 = 5
  BY <1>2
<1>8. Len(u) = 5 /\ u[1] = a /\ u[2] = b /\ u[3] = c /\ u[4] = d /\ u[5] = e
  BY <1>3, <1>6, <1>7
<1>9. \A i \in 1..5 : i = 1 \/ i = 2 \/ i = 3 \/ i = 4 \/ i = 5
  OBVIOUS
<1>10. \A i \in 1..Len(u) : u[i] = t[i]
  BY <1>5, <1>8, <1>9
<1>11. u = t
  BY <1>4, <1>6, <1>8, <1>10, SameSeq
<1> QED BY <1>11 DEF s, t, u

LEMMA AppendToFive ==
    ASSUME NEW a, NEW b, NEW c, NEW d, NEW e, NEW f
    PROVE  Append(<<a, b, c, d, e>>, f) = <<a, b, c, d, e, f>>
<1> DEFINE S == {a, b, c, d, e, f}
           s == <<a, b, c, d, e>>
           t == <<a, b, c, d, e, f>>
<1>1. s \in Seq(S) /\ f \in S
  OBVIOUS
<1>2. Len(s) = 5
  OBVIOUS
<1>3. s[1] = a /\ s[2] = b /\ s[3] = c /\ s[4] = d /\ s[5] = e
  OBVIOUS
<1>4. t \in Seq(S) /\ Len(t) = 6
  OBVIOUS
<1>5. t[1] = a /\ t[2] = b /\ t[3] = c /\ t[4] = d /\ t[5] = e /\ t[6] = f
  OBVIOUS
<1> HIDE DEF s, t, S
<1> DEFINE u == Append(s, f)
<1>6. /\ u \in Seq(S) /\ Len(u) = Len(s) + 1
      /\ u[Len(s) + 1] = f /\ \A i \in 1..Len(s) : u[i] = s[i]
  BY <1>1
<1> HIDE DEF u
<1>7. 1 \in 1..Len(s) /\ 2 \in 1..Len(s) /\ 3 \in 1..Len(s) /\ 4 \in 1..Len(s) /\ 5 \in 1..Len(s) /\ Len(s) + 1 = 6
  BY <1>2
<1>8. Len(u) = 6 /\ u[1] = a /\ u[2] = b /\ u[3] = c /\ u[4] = d /\ u[5] = e /\ u[6] = f
  BY <1>3, <1>6, <1>7
<1>9. \A i \in 1..6 : i = 1 \/ i = 2 \/ i = 3 \/ i = 4 \/ i = 5 \/ i = 6
  OBVIOUS
<1>10. \A i \in 1..Len(u) : u[i] = t[i]
  BY <1>5, <1>8, <1>9
<1>11. u = t
  BY <1>4, <1>6, <1>8, <1>10, SameSeq
<1> QED BY <1>11 DEF s, t, u

LEMMA AppendToSix ==
    ASSUME NEW a, NEW b, NEW c, NEW d, NEW e, NEW f, NEW g
    PROVE  Append(<<a, b, c, d, e, f>>, g) = <<a, b, c, d, e, f, g>>
<1> DEFINE S == {a, b, c, d, e, f, g}
           s == <<a, b, c, d, e, f>>
           t == <<a, b, c, d, e, f, g>>
<1>1. s \in Seq(S) /\ g \in S
  OBVIOUS
<1>2. Len(s) = 6
  OBVIOUS
<1>3. s[1] = a /\ s[2] = b /\ s[3] = c /\ s[4] = d /\ s[5] = e /\ s[6] = f
  OBVIOUS
<1>4. t \in Seq(S) /\ Len(t) = 7
  OBVIOUS
<1>5. t[1] = a /\ t[2] = b /\ t[3] = c /\ t[4] = d /\ t[5] = e /\ t[6] = f /\ t[7] = g
  OBVIOUS
<1> HIDE DEF s, t, S
<1> DEFINE u == Append(s, g)
<1>6. /\ u \in Seq(S) /\ Len(u) = Len(s) + 1
      /\ u[Len(s) + 1] = g /\ \A i \in 1..Len(s) : u[i] = s[i]
  BY <1>1
<1> HIDE DEF u
<1>7. 1 \in 1..Len(s) /\ 2 \in 1..Len(s) /\ 3 \in 1..Len(s) /\ 4 \in 1..Len(s) /\ 5 \in 1..Len(s) /\ 6 \in 1..Len(s) /\ Len(s) + 1 = 7
  BY <1>2
<1>8. Len(u) = 7 /\ u[1] = a /\ u[2] = b /\ u[3] = c /\ u[4] = d /\ u[5] = e /\ u[6] = f /\ u[7] = g
  BY <1>3, <1>6, <1>7
<1>9. \A i \in 1..7 : i = 1 \/ i = 2 \/ i = 3 \/ i = 4 \/ i = 5 \/ i = 6 \/ i = 7
  OBVIOUS
<1>10. \A i \in 1..Len(u) : u[i] = t[i]
  BY <1>5, <1>8, <1>9
<1>11. u = t
  BY <1>4, <1>6, <1>8, <1>10, SameSeq
<1> QED BY <1>11 DEF s, t, u

\* One field of what a record holds.
LEMMA HoldsAt ==
    ASSUME NEW rec, NEW off, NEW s, Len(s) \in Nat, Holds(rec, off, s), NEW k \in 1..Len(s)
    PROVE  Holds(rec, off + (k - 1), <<s[k]>>)
<1> DEFINE f == s[k]
           t == <<f>>
           o == off + (k - 1)
<1>1. /\ off \in Nat /\ Len(rec) \in Nat /\ off + Len(s) <= Len(rec) /\ k \in Nat /\ k <= Len(s)
      /\ rec[off + k] = f
  BY DEF Holds
<1>2. o \in Nat /\ o + 1 <= Len(rec) /\ o + 1 = off + k
  BY <1>1
<1>3. Len(t) = 1 /\ t[1] = f /\ \A i \in 1..1 : i = 1
  OBVIOUS
<1> HIDE DEF t, f, o
<1>4. Holds(rec, o, t)
  BY <1>1, <1>2, <1>3 DEF Holds
<1> QED BY <1>4 DEF t, f, o

LEMMA IndexFieldsIn ==
    ASSUME NEW table \in CatValue, NEW root \in CatValue, NEW column \in CatValue
    PROVE  /\ IndexFields(table, root, column) \in Seq(CatField)
           /\ Len(IndexFields(table, root, column)) = 4
<1> DEFINE f1 == Field("u8", StorageIndex)
           f2 == Field("u64", table)
           f3 == Field("u64", root)
           f4 == Field("string", column)
<1>1. f1 \in CatField /\ f2 \in CatField /\ f3 \in CatField /\ f4 \in CatField
  <2>1. StorageIndex \in CatValue
    BY DEF StorageIndex, CatValue
  <2> DEFINE a == "u8"
             b == "u64"
             c == "string"
  <2>2. a \in Widths /\ b \in Widths /\ c \in Widths
    BY DEF Widths
  <2> HIDE DEF a, b, c
  <2> QED BY <2>1, <2>2, FieldIn DEF a, b, c
<1> HIDE DEF f1, f2, f3, f4
<1> DEFINE s == <<f1, f2, f3, f4>>
<1>2. s \in Seq(CatField) /\ Len(s) = 4
  BY <1>1
<1> QED BY <1>2 DEF IndexFields, f1, f2, f3, f4

LEMMA IndexRead ==
    ASSUME NEW rec, NEW off, NEW out, NEW table \in CatValue, NEW root \in CatValue,
           NEW column \in CatValue, Holds(rec, off, IndexFields(table, root, column))
    PROVE  DecodeStorage(Cur(rec, off, out)) =
             Cur(rec, off + 4,
                 Append(out, [pages |-> << >>, table |-> table, root |-> root, column |-> column]))
<1> DEFINE f1 == Field("u8", StorageIndex)
           f2 == Field("u64", table)
           f3 == Field("u64", root)
           f4 == Field("string", column)
           s == <<f1, f2, f3, f4>>
<1>1. Len(s) = 4 /\ s[1] = f1 /\ s[2] = f2 /\ s[3] = f3 /\ s[4] = f4
  <2> HIDE DEF f1, f2, f3, f4
  <2> QED OBVIOUS
<1>2. Holds(rec, off, s)
  BY DEF IndexFields
<1>3. off \in Nat
  BY <1>2 DEF Holds
<1> HIDE DEF f1, f2, f3, f4
<1> DEFINE t == <<f2, f3, f4>>
           h == <<f1>>
<1>4. Holds(rec, off, h) /\ Holds(rec, off + 1, t)
  <2> DEFINE S == {f1, f2, f3, f4}
  <2>1. h \in Seq(S) /\ Len(h) = 1 /\ h[1] = f1
    OBVIOUS
  <2>2. t \in Seq(S) /\ Len(t) = 3 /\ t[1] = f2 /\ t[2] = f3 /\ t[3] = f4
    OBVIOUS
  <2>3. /\ Len(rec) \in Nat /\ off + 4 <= Len(rec) /\ rec[off + 1] = f1 /\ rec[off + 2] = f2
        /\ rec[off + 3] = f3 /\ rec[off + 4] = f4
    <3> HIDE DEF s
    <3>1. 1 \in 1..Len(s) /\ 2 \in 1..Len(s) /\ 3 \in 1..Len(s) /\ 4 \in 1..Len(s)
      BY <1>1
    <3> QED BY <1>1, <1>2, <3>1 DEF Holds
  <2> HIDE DEF h, t, S
  <2>4. Holds(rec, off, h)
    <3>1. \A k \in 1..1 : k = 1
      OBVIOUS
    <3> QED BY <1>3, <2>1, <2>3, <3>1 DEF Holds
  <2>5. Holds(rec, off + 1, t)
    <3>1. /\ (off + 1) + 1 = off + 2 /\ (off + 1) + 2 = off + 3 /\ (off + 1) + 3 = off + 4
          /\ off + 1 \in Nat
      BY <1>3
    <3>2. \A k \in 1..3 : k = 1 \/ k = 2 \/ k = 3
      OBVIOUS
    <3>3. \A k \in 1..3 : rec[(off + 1) + k] = t[k]
      BY <2>2, <2>3, <3>1, <3>2
    <3> QED BY <2>2, <2>3, <3>1, <3>3 DEF Holds
  <2> QED BY <2>4, <2>5
<1> HIDE DEF s
<1> DEFINE o == off + 1
           q == ((o + 1) + 1) + 1
           k == StorageIndex
           st == Cur(rec, q, <<k, table, root, column>>)
           kind == Cur(rec, o, <<k>>)
           build == [pages |-> << >>, table |-> table, root |-> root, column |-> column]
<1>5. ReadField(Cur(rec, off, << >>), "u8") = kind
  <2> DEFINE w == "u8"
  <2>1. Holds(rec, off, <<Field(w, k)>>)
    BY <1>4 DEF f1
  <2> HIDE DEF k, w
  <2>2. ReadField(Cur(rec, off, << >>), w) = Cur(rec, off + 1, <<k>>)
    BY <2>1, ReadFirst
  <2> QED BY <2>2 DEF w
<1>6. ReadFields(kind, <<"u64", "u64", "string">>) = st
  <2> DEFINE a == "u64"
             c == "string"
             u == <<k>>
             v == <<k, table, root, column>>
  <2>1. Append(Append(Append(u, table), root), column) = v
    <3> HIDE DEF k
    <3>1. Append(u, table) = <<k, table>>
      BY AppendToOne
    <3>2. Append(<<k, table>>, root) = <<k, table, root>>
      BY AppendToTwo
    <3>3. Append(<<k, table, root>>, column) = v
      BY AppendToThree
    <3> QED BY <3>1, <3>2, <3>3
  <2>2. Triple(rec, o, a, table, a, root, c, column)
    BY <1>4 DEF Triple, f2, f3, f4
  <2> HIDE DEF a, c, u, v, o
  <2>3. ReadFields(Cur(rec, o, u), <<a, a, c>>) =
          Cur(rec, q, Append(Append(Append(u, table), root), column))
    BY <2>2, ReadTriple
  <2>4. ReadFields(Cur(rec, o, u), <<a, a, c>>) = Cur(rec, q, v)
    BY <2>1, <2>3
  <2> QED BY <2>4 DEF a, c, u, v
<1>7. kind.ok /\ kind.out = <<k>> /\ st.ok /\ st.out = <<k, table, root, column>>
  BY CurIn
<1> DEFINE c == Cur(rec, off, out)
<1>8. c.out = out /\ Fresh(c) = Cur(rec, off, << >>)
  BY CurIn, FreshIs
<1> HIDE DEF kind, st, c
<1>9. StorageFields(kind) = st
  BY <1>6, <1>7 DEF StorageFields, StorageHeap, StorageIndex
<1>10. /\ st.out[1] = 2 /\ st.out[2] = table /\ st.out[3] = root /\ st.out[4] = column
  BY <1>7 DEF StorageIndex
<1>11. SomePages(st) = st
  <2>1. st.out # <<StorageHeap, << >>>>
    BY <1>10 DEF StorageHeap
  <2> QED BY <2>1 DEF SomePages
<1>12. AsStorage(st.out) = build
  BY <1>10 DEF AsStorage, StorageHeap
<1> HIDE DEF build
<1>13. DecodeStorage(c) = [st EXCEPT !.out = Append(out, build)]
  BY <1>5, <1>7, <1>8, <1>9, <1>11, <1>12 DEF DecodeStorage, AddGroup
<1>14. [st EXCEPT !.out = Append(out, build)] = Cur(rec, q, Append(out, build))
  <2> DEFINE u == Append(out, build)
             x == <<k, table, root, column>>
  <2> HIDE DEF u, x, q
  <2>1. [Cur(rec, q, x) EXCEPT !.out = u] = Cur(rec, q, u)
    BY CurOut
  <2> QED BY <2>1 DEF u, x, st
<1>15. q = off + 4
  BY <1>3
<1> QED BY <1>13, <1>14, <1>15 DEF c, build

-----------------------------------------------------------------------------
(* One relation. *)

\* A relation as the catalog holds it: a table has pages, an index has none, and the
\* fields of the other kind are empty.
WellFormed(r) ==
    /\ r \in Relation
    /\ r.kind = "table" => r.pages # << >> /\ r.table = 0 /\ r.root = 0 /\ r.column = ""
    /\ r.kind = "index" => r.pages = << >>

StorageOf(r) == [pages |-> r.pages, table |-> r.table, root |-> r.root, column |-> r.column]

LEMMA Bounds ==
    /\ PageCapacity \in Nat /\ KeyCapacity \in Nat /\ CatalogCapacity \in Nat
    /\ MaxPage \in Nat /\ MaxRows \in Nat
  BY SqlAssumption

LEMMA StorageRead ==
    ASSUME NEW r, WellFormed(r)
    PROVE  /\ EncodeStorage(r) \in Seq(CatField)
           /\ \A rec, off, out : Holds(rec, off, EncodeStorage(r)) =>
                DecodeStorage(Cur(rec, off, out)) =
                  Cur(rec, off + Len(EncodeStorage(r)), Append(out, StorageOf(r)))
<1> DEFINE pages == r.pages
           table == r.table
           root == r.root
           column == r.column
           s == EncodeStorage(r)
<1>1. /\ r.kind \in {"table", "index"} /\ pages \in Seq(1..MaxPage) /\ table \in 0..CatalogCapacity
      /\ root \in 0..MaxPage /\ column \in ColumnNames \cup {""}
  BY DEF WellFormed, Relation
<1>2. table \in CatValue /\ root \in CatValue /\ column \in CatValue /\ 1..MaxPage \subseteq CatValue
  <2>1. table \in CatValue /\ root \in CatValue
    <3> HIDE DEF table, root
    <3>1. table \in 0..CatalogCapacity /\ root \in 0..MaxPage
      BY <1>1
    <3>2. table \in Int /\ root \in Int
      BY <3>1
    <3> QED BY <3>2, CatValues
  <2>2. column \in CatValue
    BY <1>1 DEF CatValue
  <2>3. 1..MaxPage \subseteq CatValue
    <3>1. 1..MaxPage \subseteq Int
      BY Bounds
    <3> QED BY <3>1, CatValues
  <2> QED BY <2>1, <2>2, <2>3
<1>3. CASE r.kind = "table"
  <2>1. s = HeapFields(pages)
    BY <1>3 DEF EncodeStorage, HeapFields, Ones
  <2>2. s \in Seq(CatField)
    BY <1>1, <1>2, <2>1, HeapFieldsIn
  <2>3. StorageOf(r) = HeapStorage(pages) /\ pages # << >>
    BY <1>3 DEF WellFormed, StorageOf, HeapStorage
  <2> HIDE DEF s, pages
  <2>4. ASSUME NEW rec, NEW off, NEW out, Holds(rec, off, s)
        PROVE  DecodeStorage(Cur(rec, off, out)) = Cur(rec, off + Len(s), Append(out, StorageOf(r)))
    <3>1. DecodeStorage(Cur(rec, off, out)) =
             Cur(rec, off + Len(HeapFields(pages)),
                 Append(out, HeapStorage(pages)))
      <4> DEFINE S == 1..MaxPage
      <4>1. S \subseteq CatValue /\ pages \in Seq(S) /\ pages # << >>
        BY <1>1, <1>2, <2>3 DEF pages
      <4>2. Holds(rec, off, HeapFields(pages))
        BY <2>1, <2>4
      <4> HIDE DEF S
      <4> QED BY <4>1, <4>2, HeapRead
    <3> QED BY <2>1, <2>3, <3>1
  <2> QED BY <2>2, <2>4 DEF s
<1>4. CASE r.kind = "index"
  <2>1. s = IndexFields(table, root, column)
    BY <1>4 DEF EncodeStorage, IndexFields
  <2>2. s \in Seq(CatField) /\ Len(s) = 4
    <3> HIDE DEF s, table, root, column
    <3> QED BY <1>2, <2>1, IndexFieldsIn
  <2>3. StorageOf(r) = [pages |-> << >>, table |-> table, root |-> root, column |-> column]
    BY <1>4 DEF WellFormed, StorageOf
  <2> HIDE DEF s, pages, table, root, column
  <2>4. ASSUME NEW rec, NEW off, NEW out, Holds(rec, off, s)
        PROVE  DecodeStorage(Cur(rec, off, out)) = Cur(rec, off + Len(s), Append(out, StorageOf(r)))
    <3>1. DecodeStorage(Cur(rec, off, out)) =
             Cur(rec, off + 4,
                 Append(out, [pages |-> << >>, table |-> table, root |-> root, column |-> column]))
      BY <1>2, <2>1, <2>4, IndexRead
    <3> QED BY <2>2, <2>3, <3>1
  <2> QED BY <2>2, <2>4 DEF s
<1> QED BY <1>1, <1>3, <1>4

\* The fields of the columns.
NamesOf(columns) == [i \in 1..Len(columns) |-> columns[i].name]
TypesOf(columns) == [i \in 1..Len(columns) |-> columns[i].type]
ColumnFields(columns) == Pairs("string", NamesOf(columns), "string", TypesOf(columns), Len(columns))
ColumnGroups(columns) == PairGroups(NamesOf(columns), TypesOf(columns), Len(columns))

LEMMA PairsIn ==
    ASSUME NEW n \in Nat, NEW a \in Widths, NEW b \in Widths, NEW x, NEW y,
           \A i \in 1..n : x[i] \in CatValue /\ y[i] \in CatValue
    PROVE  Pairs(a, x, b, y, n) \in Seq(Seq(CatField)) /\ Len(Pairs(a, x, b, y, n)) = n
<1> DEFINE f == Pairs(a, x, b, y, n)
<1>1. ASSUME NEW i \in 1..n PROVE <<Field(a, x[i]), Field(b, y[i])>> \in Seq(CatField)
  <2> DEFINE g == Field(a, x[i])
             h == Field(b, y[i])
  <2>1. g \in CatField /\ h \in CatField
    BY FieldIn
  <2> HIDE DEF g, h
  <2>2. <<g, h>> \in Seq(CatField)
    BY <2>1
  <2> QED BY <2>2 DEF g, h
<1>2. f = [i \in 1..n |-> <<Field(a, x[i]), Field(b, y[i])>>]
  BY DEF Pairs
<1> HIDE DEF f
<1> DEFINE T == Seq(CatField)
<1>3. f = [i \in 1..n |-> f[i]] /\ \A i \in 1..n : f[i] \in T
  BY <1>1, <1>2
<1> HIDE DEF T
<1>4. f \in Seq(T) /\ Len(f) = n
  BY <1>3
<1> QED BY <1>4 DEF f, T

LEMMA ColumnsIn ==
    ASSUME NEW columns \in Seq(Column)
    PROVE  /\ ColumnFields(columns) \in Seq(Seq(CatField))
           /\ FlattenSeq(ColumnFields(columns)) \in Seq(CatField)
           /\ ColumnFields(columns) = [i \in DOMAIN columns |->
                <<Field("string", columns[i].name), Field("string", columns[i].type)>>]
           /\ [k \in DOMAIN ColumnGroups(columns) |->
                 [name |-> ColumnGroups(columns)[k][1], type |-> ColumnGroups(columns)[k][2]]] = columns
<1> DEFINE n == Len(columns)
           x == NamesOf(columns)
           y == TypesOf(columns)
           a == "string"
           ss == ColumnFields(columns)
           g == ColumnGroups(columns)
<1>1. n \in Nat /\ DOMAIN columns = 1..n /\ columns = [i \in 1..n |-> columns[i]]
  OBVIOUS
<1>2. \A i \in 1..n : columns[i] \in Column
  OBVIOUS
<1>3. \A i \in 1..n : x[i] = columns[i].name /\ y[i] = columns[i].type
  BY DEF NamesOf, TypesOf
<1>4. \A i \in 1..n : x[i] \in CatValue /\ y[i] \in CatValue
  BY <1>2, <1>3 DEF Column, CatValue
<1>5. a \in Widths
  BY DEF Widths
<1>6. ss = Pairs(a, x, a, y, n) /\ g = PairGroups(x, y, n)
  BY DEF ColumnFields, ColumnGroups
<1>7. ss = [i \in DOMAIN columns |-> <<Field(a, columns[i].name), Field(a, columns[i].type)>>]
  <2> HIDE DEF ss, n, x, y, a
  <2> QED BY <1>1, <1>3, <1>6 DEF Pairs
<1>8. ss \in Seq(Seq(CatField))
  <2> HIDE DEF ss, n, x, y, a
  <2> QED BY <1>1, <1>4, <1>5, <1>6, PairsIn
<1>9. FlattenSeq(ss) \in Seq(CatField)
  <2> HIDE DEF ss
  <2> QED BY <1>8, FlattenPlaces
<1>10. [k \in DOMAIN g |-> [name |-> g[k][1], type |-> g[k][2]]] = columns
  <2> HIDE DEF g, n, x, y
  <2>1. DOMAIN g = 1..n /\ \A k \in 1..n : g[k] = <<x[k], y[k]>>
    BY <1>6 DEF PairGroups
  <2>2. ASSUME NEW k \in 1..n PROVE [name |-> g[k][1], type |-> g[k][2]] = columns[k]
    <3>1. g[k][1] = columns[k].name /\ g[k][2] = columns[k].type
      BY <1>3, <2>1
    <3> QED BY <1>2, <3>1 DEF Column
  <2> QED BY <1>1, <2>1, <2>2
<1> QED BY <1>7, <1>8, <1>9, <1>10

LEMMA ColumnsRead ==
    ASSUME NEW rec, NEW off, NEW out, NEW columns \in Seq(Column),
           Holds(rec, off, <<Field("u16", Len(columns))>>),
           Holds(rec, off + 1, FlattenSeq(ColumnFields(columns)))
    PROVE  ReadCounted(Cur(rec, off, out), "u16", <<"string", "string">>) =
             Cur(rec, (off + 1) + Len(FlattenSeq(ColumnFields(columns))), Append(out, ColumnGroups(columns)))
<1> DEFINE n == Len(columns)
           x == NamesOf(columns)
           y == TypesOf(columns)
           a == "string"
           w == "u16"
           ss == ColumnFields(columns)
           g == ColumnGroups(columns)
           t == FlattenSeq(ss)
<1>1. ss = Pairs(a, x, a, y, n) /\ g = PairGroups(x, y, n) /\ n \in Nat
  BY DEF ColumnFields, ColumnGroups
<1>2. ss \in Seq(Seq(CatField))
  BY ColumnsIn
<1>3. PICK at : Placed(ss, at, t)
  <2> HIDE DEF ss
  <2> QED BY <1>2, FlattenPlaces
<1>4. Laid(rec, off + 1, CatField, ss, at)
  BY <1>2, <1>3 DEF Laid
<1>5. Holds(rec, off, <<Field(w, n)>>)
  OBVIOUS
<1> HIDE DEF ss, g, n, x, y, a, w
<1>6. Len(ss) = n
  <2>1. ss = [i \in 1..n |-> <<Field(a, x[i]), Field(a, y[i])>>]
    BY <1>1 DEF Pairs
  <2> QED BY <1>1, <2>1
<1>7. Len(t) = at[n]
  BY <1>3, <1>6 DEF Placed
<1>8. ReadCounted(Cur(rec, off, out), w, <<a, a>>) = Cur(rec, (off + 1) + at[n], Append(out, g))
  BY <1>1, <1>4, <1>5, PairsRead
<1> QED BY <1>7, <1>8 DEF w, a, ss, g

LEMMA FourParts ==
    ASSUME NEW S, NEW a \in Seq(S), NEW b \in Seq(S), NEW c \in Seq(S), NEW d \in Seq(S)
    PROVE  /\ ((a \o b) \o c) \o d \in Seq(S)
           /\ Len(((a \o b) \o c) \o d) = ((Len(a) + Len(b)) + Len(c)) + Len(d)
           /\ \A rec, off : Holds(rec, off, ((a \o b) \o c) \o d) =>
                /\ Holds(rec, off, a) /\ Holds(rec, off + Len(a), b)
                /\ Holds(rec, off + (Len(a) + Len(b)), c)
                /\ Holds(rec, off + ((Len(a) + Len(b)) + Len(c)), d)
<1> DEFINE x == a \o b
<1>1. x \in Seq(S) /\ Len(x) = Len(a) + Len(b)
  BY ConcatFacts
<1>2. \A rec, off : Holds(rec, off, a \o b) => Holds(rec, off, a) /\ Holds(rec, off + Len(a), b)
  BY HoldsParts
<1> HIDE DEF x
<1> DEFINE y == x \o c
<1>3. y \in Seq(S) /\ Len(y) = Len(x) + Len(c)
  BY <1>1, ConcatFacts
<1>4. \A rec, off : Holds(rec, off, x \o c) => Holds(rec, off, x) /\ Holds(rec, off + Len(x), c)
  BY <1>1, HoldsParts
<1> HIDE DEF y
<1>5. y \o d \in Seq(S) /\ Len(y \o d) = Len(y) + Len(d)
  BY <1>3, ConcatFacts
<1>6. \A rec, off : Holds(rec, off, y \o d) => Holds(rec, off, y) /\ Holds(rec, off + Len(y), d)
  BY <1>3, HoldsParts
<1>7. y \o d = ((a \o b) \o c) \o d
  BY DEF x, y
<1>8. ASSUME NEW rec, NEW off, Holds(rec, off, y \o d)
      PROVE  /\ Holds(rec, off, a) /\ Holds(rec, off + Len(a), b)
             /\ Holds(rec, off + (Len(a) + Len(b)), c)
             /\ Holds(rec, off + ((Len(a) + Len(b)) + Len(c)), d)
  <2>1. Holds(rec, off, y) /\ Holds(rec, off + Len(y), d)
    BY <1>6, <1>8
  <2>2. Holds(rec, off, x) /\ Holds(rec, off + Len(x), c)
    BY <1>4, <2>1 DEF y
  <2>3. Holds(rec, off, a) /\ Holds(rec, off + Len(a), b)
    BY <1>2, <2>2 DEF x
  <2> QED BY <1>1, <1>3, <2>1, <2>2, <2>3
<1>9. Len(y \o d) = ((Len(a) + Len(b)) + Len(c)) + Len(d)
  BY <1>1, <1>3, <1>5
<1> QED BY <1>5, <1>7, <1>8, <1>9

LEMMA KindBack == \A kind \in {"table", "index"} : KindOf(KindCode[kind]) = kind /\ KindCode[kind] \in Int
<1>1. KindCode["table"] = 1 /\ KindCode["index"] = 2 /\ DOMAIN KindCode = {"table", "index"}
  BY DEF KindCode
<1> QED BY <1>1 DEF KindOf

\* The four parts of a relation's record.
RelHead(r) == <<Field("u64", r.id), Field("u8", KindCode[r.kind])>>
RelName(r) == <<Field("string", r.name), Field("u16", Len(r.columns))>>

LEMMA RelationParts ==
    ASSUME NEW r, WellFormed(r)
    PROVE  /\ EncodeRelation(r) =
                ((RelHead(r) \o EncodeStorage(r)) \o RelName(r)) \o FlattenSeq(ColumnFields(r.columns))
           /\ RelHead(r) \in Seq(CatField) /\ Len(RelHead(r)) = 2
           /\ EncodeStorage(r) \in Seq(CatField)
           /\ RelName(r) \in Seq(CatField) /\ Len(RelName(r)) = 2
           /\ FlattenSeq(ColumnFields(r.columns)) \in Seq(CatField)
           /\ r.columns \in Seq(Column)
<1> DEFINE id == r.id
           code == KindCode[r.kind]
           name == r.name
           columns == r.columns
           n == Len(columns)
<1>1. r.kind \in {"table", "index"} /\ id \in 1..CatalogCapacity /\ name \in Names /\ columns \in Seq(Column)
  BY DEF WellFormed, Relation
<1>2. columns \in Seq(Column)
  BY <1>1
<1>3. id \in Int /\ code \in Int /\ name \in Names /\ n \in Int
  <2>1. id \in 1..CatalogCapacity
    BY <1>1
  <2>2. id \in Int
    BY <2>1
  <2>3. code \in Int
    BY <1>1, KindBack
  <2>4. n \in Int
    BY <1>2
  <2> QED BY <1>1, <2>2, <2>3, <2>4
<1>4. id \in CatValue /\ code \in CatValue /\ name \in CatValue /\ n \in CatValue
  BY <1>3, CatValues
<1> DEFINE a == "u64"
           b == "u8"
           c == "string"
           d == "u16"
<1>5. a \in Widths /\ b \in Widths /\ c \in Widths /\ d \in Widths
  BY DEF Widths
<1> DEFINE f1 == Field(a, id)
           f2 == Field(b, code)
           f3 == Field(c, name)
           f4 == Field(d, n)
<1>6. f1 \in CatField /\ f2 \in CatField /\ f3 \in CatField /\ f4 \in CatField
  <2> HIDE DEF a, b, c, d, id, code, name, n
  <2> QED BY <1>4, <1>5, FieldIn
<1>7. RelHead(r) = <<f1, f2>> /\ RelName(r) = <<f3, f4>>
  BY DEF RelHead, RelName
<1> HIDE DEF f1, f2, f3, f4
<1> DEFINE h == <<f1, f2>>
           k == <<f3, f4>>
<1>8. h \in Seq(CatField) /\ Len(h) = 2
  BY <1>6
<1>9. k \in Seq(CatField) /\ Len(k) = 2
  BY <1>6
<1>10. /\ EncodeStorage(r) \in Seq(CatField)
      /\ FlattenSeq(ColumnFields(columns)) \in Seq(CatField)
  BY <1>2, StorageRead, ColumnsIn
<1>11. ColumnFields(columns) = [i \in DOMAIN columns |->
                <<Field("string", columns[i].name), Field("string", columns[i].type)>>]
  BY <1>2, ColumnsIn
<1>12. EncodeRelation(r) =
         ((RelHead(r) \o EncodeStorage(r)) \o RelName(r)) \o FlattenSeq(ColumnFields(columns))
  BY <1>11 DEF EncodeRelation, RelHead, RelName
<1> HIDE DEF h, k
<1>13. RelHead(r) = h /\ RelName(r) = k
  BY <1>7 DEF h, k
<1> QED BY <1>2, <1>8, <1>9, <1>10, <1>12, <1>13

RelationOut(r) == <<r.id, KindCode[r.kind], StorageOf(r), r.name, ColumnGroups(r.columns)>>

LEMMA AsRelationBack ==
    ASSUME NEW r, WellFormed(r)
    PROVE  AsRelation(RelationOut(r)) = r
<1> DEFINE out == RelationOut(r)
           st == StorageOf(r)
           g == ColumnGroups(r.columns)
           code == KindCode[r.kind]
<1>1. out = <<r.id, code, st, r.name, g>>
  BY DEF RelationOut
<1>2. st.pages = r.pages /\ st.table = r.table /\ st.root = r.root /\ st.column = r.column
  BY DEF StorageOf
<1>3. r \in Relation /\ r.kind \in {"table", "index"} /\ r.columns \in Seq(Column)
  BY DEF WellFormed, Relation
<1>4. KindOf(code) = r.kind
  BY <1>3, KindBack
<1>5. [k \in DOMAIN g |-> [name |-> g[k][1], type |-> g[k][2]]] = r.columns
  BY <1>3, ColumnsIn
<1> HIDE DEF out, st, g, code
<1>6. out[1] = r.id /\ out[2] = code /\ out[3] = st /\ out[4] = r.name /\ out[5] = g
  BY <1>1
<1> DEFINE cols == [k \in DOMAIN out[5] |-> [name |-> out[5][k][1], type |-> out[5][k][2]]]
<1>7. cols = r.columns
  BY <1>5, <1>6
<1>8. AsRelation(out) =
    [id |-> out[1], kind |-> KindOf(out[2]), pages |-> out[3].pages, table |-> out[3].table,
     root |-> out[3].root, column |-> out[3].column, name |-> out[4], columns |-> cols]
  BY DEF AsRelation
<1> HIDE DEF cols
<1>9. AsRelation(out) =
    [id |-> r.id, kind |-> r.kind, pages |-> r.pages, table |-> r.table,
     root |-> r.root, column |-> r.column, name |-> r.name, columns |-> r.columns]
  BY <1>2, <1>4, <1>6, <1>7, <1>8
<1>10. r = [id |-> r.id, kind |-> r.kind, pages |-> r.pages, table |-> r.table,
     root |-> r.root, column |-> r.column, name |-> r.name, columns |-> r.columns]
  BY <1>3 DEF Relation
<1> QED BY <1>9, <1>10 DEF out

LEMMA RelationRead ==
    ASSUME NEW r, WellFormed(r), NEW rec, NEW off, NEW out, NEW i, Holds(rec, off, EncodeRelation(r))
    PROVE  DecodeRelation(Cur(rec, off, out), i) = Cur(rec, off + Len(EncodeRelation(r)), Append(out, r))
<1> DEFINE a == RelHead(r)
           b == EncodeStorage(r)
           c == RelName(r)
           d == FlattenSeq(ColumnFields(r.columns))
<1>1. a \in Seq(CatField) /\ b \in Seq(CatField) /\ c \in Seq(CatField) /\ d \in Seq(CatField)
  BY RelationParts
<1>2. /\ Len(a) = 2 /\ Len(c) = 2
      /\ EncodeRelation(r) = ((a \o b) \o c) \o d
      /\ r.columns \in Seq(Column)
  BY RelationParts
<1> HIDE DEF a, b, c, d
<1>3. Len(EncodeRelation(r)) = ((Len(a) + Len(b)) + Len(c)) + Len(d)
  <2>1. Len(((a \o b) \o c) \o d) = ((Len(a) + Len(b)) + Len(c)) + Len(d)
    BY <1>1, FourParts
  <2> QED BY <1>2, <2>1
<1>4. /\ Holds(rec, off, a) /\ Holds(rec, off + Len(a), b)
      /\ Holds(rec, off + (Len(a) + Len(b)), c)
      /\ Holds(rec, off + ((Len(a) + Len(b)) + Len(c)), d)
  <2>1. Holds(rec, off, ((a \o b) \o c) \o d)
    BY <1>2
  <2> QED BY <1>1, <2>1, FourParts
<1>5. off \in Nat /\ Len(b) \in Nat /\ Len(d) \in Nat
  <2>1. Len(b) \in Nat /\ Len(d) \in Nat
    BY <1>1
  <2> QED BY <1>4, <2>1 DEF Holds
<1> DEFINE o2 == (off + 1) + 1
           o3 == o2 + Len(b)
           o4 == o3 + 1
           o5 == (o4 + 1) + Len(d)
<1>6. /\ off + Len(a) = o2 /\ off + (Len(a) + Len(b)) = o3
      /\ off + ((Len(a) + Len(b)) + Len(c)) = o4 + 1 /\ off + Len(EncodeRelation(r)) = o5
  BY <1>2, <1>3, <1>5
<1>7. Holds(rec, o2, b) /\ Holds(rec, o3, c) /\ Holds(rec, o4 + 1, d)
  BY <1>4, <1>6
<1> HIDE DEF o2, o3, o4, o5
<1> DEFINE id == r.id
           code == KindCode[r.kind]
           st == StorageOf(r)
           name == r.name
           g == ColumnGroups(r.columns)
           n == Len(r.columns)
<1>8. ReadFields(Cur(rec, off, << >>), <<"u64", "u8">>) = Cur(rec, o2, <<id, code>>)
  <2> DEFINE w == "u64"
             v == "u8"
             e == << >>
             u == <<id, code>>
  <2>1. Append(Append(e, id), code) = u
    BY AppendTwo
  <2>2. Pair(rec, off, w, id, v, code)
    BY <1>4 DEF Pair, a, RelHead
  <2> HIDE DEF w, v, e, u, id, code
  <2>3. ReadFields(Cur(rec, off, e), <<w, v>>) = Cur(rec, (off + 1) + 1, Append(Append(e, id), code))
    BY <2>2, ReadPair
  <2>4. ReadFields(Cur(rec, off, e), <<w, v>>) = Cur(rec, o2, u)
    BY <2>1, <2>3 DEF o2
  <2> QED BY <2>4 DEF w, v, e, u
<1>9. DecodeStorage(Cur(rec, o2, <<id, code>>)) = Cur(rec, o3, <<id, code, st>>)
  <2> DEFINE u == <<id, code>>
             v == <<id, code, st>>
  <2>1. Append(u, st) = v
    <3> HIDE DEF id, code, st
    <3> QED BY AppendToTwo
  <2> HIDE DEF u, v
  <2>2. DecodeStorage(Cur(rec, o2, u)) = Cur(rec, o2 + Len(EncodeStorage(r)), Append(u, StorageOf(r)))
    BY <1>7, StorageRead DEF b
  <2>3. DecodeStorage(Cur(rec, o2, u)) = Cur(rec, o3, v)
    BY <2>1, <2>2 DEF o3, b
  <2> QED BY <2>3 DEF u, v
<1>10. Holds(rec, o3, <<Field("string", name)>>) /\ Holds(rec, o3 + 1, <<Field("u16", n)>>)
  <2> DEFINE f == Field("string", name)
             h == Field("u16", n)
  <2>1. c = <<f, h>>
    BY DEF c, RelName
  <2> HIDE DEF f, h
  <2>2. Holds(rec, o3, <<f>>) /\ Holds(rec, o3 + 1, <<h>>)
    BY <1>7, <2>1, HoldsTwo
  <2> QED BY <2>2 DEF f, h
<1>11. ReadField(Cur(rec, o3, <<id, code, st>>), "string") = Cur(rec, o4, <<id, code, st, name>>)
  <2> DEFINE w == "string"
             u == <<id, code, st>>
             v == <<id, code, st, name>>
  <2>1. Append(u, name) = v
    <3> HIDE DEF id, code, st, name
    <3> QED BY AppendToThree
  <2>2. Holds(rec, o3, <<Field(w, name)>>)
    BY <1>10
  <2> HIDE DEF u, v, w, name
  <2>3. ReadField(Cur(rec, o3, u), w) = Cur(rec, o3 + 1, Append(u, name))
    BY <2>2, ReadOne
  <2>4. ReadField(Cur(rec, o3, u), w) = Cur(rec, o4, v)
    BY <2>1, <2>3 DEF o4
  <2> QED BY <2>4 DEF u, v, w
<1>12. ReadCounted(Cur(rec, o4, <<id, code, st, name>>), "u16", <<"string", "string">>) =
         Cur(rec, o5, RelationOut(r))
  <2> DEFINE u == <<id, code, st, name>>
             v == RelationOut(r)
  <2>1. Append(u, g) = <<id, code, st, name, g>>
    <3> HIDE DEF id, code, st, name, g
    <3> QED BY AppendToFour
  <2>2. Append(u, g) = v
    BY <2>1 DEF RelationOut
  <2>3. Holds(rec, o4, <<Field("u16", Len(r.columns))>>)
    BY <1>10 DEF o4
  <2>4. Holds(rec, o4 + 1, FlattenSeq(ColumnFields(r.columns)))
    BY <1>7 DEF d
  <2> HIDE DEF u, v
  <2>5. ReadCounted(Cur(rec, o4, u), "u16", <<"string", "string">>) =
          Cur(rec, (o4 + 1) + Len(FlattenSeq(ColumnFields(r.columns))), Append(u, ColumnGroups(r.columns)))
    BY <1>2, <2>3, <2>4, ColumnsRead
  <2>6. ReadCounted(Cur(rec, o4, u), "u16", <<"string", "string">>) = Cur(rec, o5, v)
    BY <2>2, <2>5 DEF o5, d
  <2> QED BY <2>6 DEF u, v
<1> DEFINE x == Cur(rec, off, out)
           inner == Cur(rec, o5, RelationOut(r))
<1>13. x.out = out /\ Fresh(x) = Cur(rec, off, << >>) /\ inner.ok /\ inner.out = RelationOut(r)
  BY CurIn, FreshIs
<1>14. [inner EXCEPT !.out = Append(out, r)] = Cur(rec, o5, Append(out, r))
  <2> DEFINE u == Append(out, r)
             y == RelationOut(r)
  <2> HIDE DEF u, y
  <2>1. [Cur(rec, o5, y) EXCEPT !.out = u] = Cur(rec, o5, u)
    BY CurOut
  <2> QED BY <2>1 DEF u, y
<1>15. ReadCounted(ReadField(DecodeStorage(ReadFields(Fresh(x), <<"u64", "u8">>)), "string"),
                   "u16", <<"string", "string">>) = inner
  <2> HIDE DEF id, code, st, name
  <2> QED BY <1>8, <1>9, <1>11, <1>12, <1>13
<1> HIDE DEF x, inner
<1>16. DecodeRelation(x, i) = [inner EXCEPT !.out = Append(out, r)]
  BY <1>13, <1>15, AsRelationBack DEF DecodeRelation, AddGroup
<1> QED BY <1>6, <1>14, <1>16 DEF x

-----------------------------------------------------------------------------
(* The relations of a catalog. *)

RelationFold == INSTANCE FoldProofs WITH Op <- DecodeRelation, Inv <- PartsRead

LEMMA RelationFoldIs == \A c, s : RelationFold!Fold(c, s) = FoldLeft(DecodeRelation, c, s)
  BY DEF RelationFold!Fold, FoldLeft, MapThenFoldSet, RelationFold!MapThenFoldSet,
         Max, RelationFold!Greatest

RelationTurns(rec, at, G, items) ==
    \A i \in 1..Len(items) : \A out \in Seq(G) : \A j :
        DecodeRelation(Cur(rec, at[i - 1], out), j) = Cur(rec, at[i], Append(out, items[i]))

CountUp(n) == [i \in 1..n |-> i]

LEMMA RelationsTurned ==
    ASSUME NEW rec, NEW n \in Nat, NEW at, NEW G, NEW items \in Seq(G), Len(items) = n,
           RelationTurns(rec, at, G, items)
    PROVE  RelationFold!Fold(Cur(rec, at[0], << >>), CountUp(n)) = Cur(rec, at[n], items)
<1> DEFINE p == [rec |-> rec, at |-> at, items |-> items]
           s == CountUp(n)
           base == Cur(rec, at[0], << >>)
<1>1. s \in Seq(Nat) /\ Len(s) = n
  BY DEF CountUp
<1>2. p.rec = rec /\ p.at = at /\ p.items = items
  OBVIOUS
<1> HIDE DEF p, s
<1>3. PartsRead(p, 0, base)
  BY <1>2, FirstItems DEF PartsRead
<1>4. ASSUME NEW i \in 1..Len(s), NEW x, PartsRead(p, i - 1, x)
      PROVE  PartsRead(p, i, DecodeRelation(x, s[i]))
  <2>1. x = Cur(rec, at[i - 1], SubSeq(items, 1, i - 1))
    BY <1>2, <1>4 DEF PartsRead
  <2>2. /\ i \in 1..n /\ SubSeq(items, 1, i - 1) \in Seq(G)
        /\ SubSeq(items, 1, i) = Append(SubSeq(items, 1, i - 1), items[i])
    BY <1>1, FirstItems
  <2>3. DecodeRelation(x, s[i]) = Cur(rec, at[i], Append(SubSeq(items, 1, i - 1), items[i]))
    BY <2>1, <2>2 DEF RelationTurns
  <2> QED BY <1>2, <2>2, <2>3 DEF PartsRead
<1> HIDE DEF base
<1>5. PartsRead(p, Len(s), RelationFold!Fold(base, s))
  BY <1>1, <1>3, <1>4, RelationFold!FoldKeeps
<1>6. SubSeq(items, 1, n) = items
  BY FirstItems
<1>7. RelationFold!Fold(base, s) = Cur(rec, at[n], items)
  BY <1>1, <1>2, <1>5, <1>6 DEF PartsRead
<1> QED BY <1>7 DEF base, s

AllWellFormed(relations) == relations \in Seq(Relation) /\ \A i \in 1..Len(relations) : WellFormed(relations[i])
RelationFields(relations) == [i \in DOMAIN relations |-> EncodeRelation(relations[i])]

LEMMA RelationFieldsIn ==
    ASSUME NEW relations, AllWellFormed(relations)
    PROVE  /\ RelationFields(relations) \in Seq(Seq(CatField))
           /\ Len(RelationFields(relations)) = Len(relations)
           /\ FlattenSeq(RelationFields(relations)) \in Seq(CatField)
           /\ \A i \in 1..Len(relations) : RelationFields(relations)[i] = EncodeRelation(relations[i])
<1> DEFINE n == Len(relations)
           f == RelationFields(relations)
<1>1. n \in Nat /\ DOMAIN relations = 1..n
  BY DEF AllWellFormed
<1>2. ASSUME NEW i \in 1..n PROVE EncodeRelation(relations[i]) \in Seq(CatField)
  <2> DEFINE r == relations[i]
  <2>1. WellFormed(r)
    BY DEF AllWellFormed
  <2> HIDE DEF r
  <2> DEFINE a == RelHead(r)
             b == EncodeStorage(r)
             c == RelName(r)
             d == FlattenSeq(ColumnFields(r.columns))
  <2>2. /\ a \in Seq(CatField) /\ b \in Seq(CatField) /\ c \in Seq(CatField) /\ d \in Seq(CatField)
    BY <2>1, RelationParts
  <2>3. EncodeRelation(r) = ((a \o b) \o c) \o d
    BY <2>1, RelationParts
  <2> HIDE DEF a, b, c, d
  <2>4. ((a \o b) \o c) \o d \in Seq(CatField)
    BY <2>2, FourParts
  <2> QED BY <2>3, <2>4 DEF r
<1> HIDE DEF n
<1>3. f = [i \in 1..n |-> EncodeRelation(relations[i])]
  BY <1>1 DEF RelationFields
<1> HIDE DEF f
<1> DEFINE T == Seq(CatField)
<1>4. f = [i \in 1..n |-> f[i]] /\ \A i \in 1..n : f[i] \in T
  BY <1>2, <1>3
<1> HIDE DEF T
<1>5. f \in Seq(T) /\ Len(f) = n
  BY <1>1, <1>4
<1>6. FlattenSeq(f) \in Seq(CatField)
  <2>1. f \in Seq(Seq(CatField))
    BY <1>5 DEF T
  <2> QED BY <2>1, FlattenPlaces
<1> QED BY <1>3, <1>5, <1>6 DEF f, n, T

LEMMA RelationsRead ==
    ASSUME NEW rec, NEW off, NEW relations, AllWellFormed(relations),
           Holds(rec, off, FlattenSeq(RelationFields(relations)))
    PROVE  FoldLeft(DecodeRelation, Cur(rec, off, << >>), [i \in 1..Len(relations) |-> i]) =
             Cur(rec, off + Len(FlattenSeq(RelationFields(relations))), relations)
<1> DEFINE n == Len(relations)
           ss == RelationFields(relations)
           t == FlattenSeq(ss)
<1>1. /\ ss \in Seq(Seq(CatField)) /\ Len(ss) = n
      /\ \A i \in 1..n : ss[i] = EncodeRelation(relations[i])
  BY RelationFieldsIn
<1>2. relations \in Seq(Relation) /\ n \in Nat /\ \A i \in 1..n : WellFormed(relations[i])
  BY DEF AllWellFormed
<1>3. PICK at : Placed(ss, at, t)
  <2> HIDE DEF ss
  <2> QED BY <1>1, FlattenPlaces
<1>4. Laid(rec, off, CatField, ss, at)
  BY <1>1, <1>3 DEF Laid
<1>5. off \in Nat
  BY DEF Holds
<1> HIDE DEF n, ss
<1> DEFINE to == [i \in 0..n |-> off + at[i]]
<1>6. to[0] = off /\ to[n] = off + Len(t) /\ \A i \in 1..n : to[i] = off + at[i] /\ to[i - 1] = off + at[i - 1]
  <2>1. at[0] = 0 /\ Len(t) = at[n]
    BY <1>1, <1>3 DEF Placed
  <2>2. 0 \in 0..n /\ n \in 0..n /\ \A i \in 1..n : i \in 0..n /\ i - 1 \in 0..n
    BY <1>2
  <2> QED BY <1>5, <2>1, <2>2
<1> HIDE DEF to
<1>7. ASSUME NEW i \in 1..n, NEW out \in Seq(Relation), NEW j
      PROVE  DecodeRelation(Cur(rec, to[i - 1], out), j) = Cur(rec, to[i], Append(out, relations[i]))
  <2>1. i \in 1..Len(ss)
    BY <1>1
  <2>2. Holds(rec, off + at[i - 1], ss[i]) /\ (off + at[i - 1]) + Len(ss[i]) = off + at[i]
    BY <1>4, <2>1, HoldsFlat
  <2> DEFINE r == relations[i]
             o == to[i - 1]
             s == EncodeRelation(r)
  <2>3. WellFormed(r) /\ Holds(rec, o, s) /\ o + Len(s) = to[i]
    BY <1>1, <1>2, <1>6, <2>2
  <2> HIDE DEF r, o
  <2>4. DecodeRelation(Cur(rec, o, out), j) = Cur(rec, o + Len(s), Append(out, r))
    BY <2>3, RelationRead
  <2> HIDE DEF s
  <2> QED BY <2>3, <2>4 DEF r, o
<1>8. RelationTurns(rec, to, Relation, relations)
  BY <1>7 DEF RelationTurns, n
<1>9. RelationFold!Fold(Cur(rec, to[0], << >>), CountUp(n)) = Cur(rec, to[n], relations)
  <2>1. Len(relations) = n
    BY DEF n
  <2> QED BY <1>2, <1>8, <2>1, RelationsTurned
<1>10. FoldLeft(DecodeRelation, Cur(rec, off, << >>), [i \in 1..n |-> i]) = Cur(rec, off + Len(t), relations)
  <2>1. RelationFold!Fold(Cur(rec, off, << >>), CountUp(n)) = Cur(rec, off + Len(t), relations)
    BY <1>6, <1>9
  <2> QED BY <2>1, RelationFoldIs DEF CountUp
<1> QED BY <1>10 DEF n, ss

-----------------------------------------------------------------------------
(* The catalog. *)

\* A catalog that encode_catalog is given.
CatalogFormed(cat) ==
    /\ cat \in Catalog
    /\ \A i \in 1..Len(cat.relations) : WellFormed(cat.relations[i])

CatHead(cat) ==
    <<Field("magic", "RDBC"), Field("u16", 1), Field("u64", cat.nextRelation),
      Field("u64", cat.nextPage), Field("u32", Len(cat.relations))>>
CatRelations(cat) == FlattenSeq(RelationFields(cat.relations))
CatCount(cat) == <<Field("u32", Len(cat.extensions))>>

ExtNames(s) == [i \in 1..Len(s) |-> s[i].name]
ExtAbis(s) == [i \in 1..Len(s) |-> s[i].abi]
ExtKinds(s) == [i \in 1..Len(s) |-> s[i].kind]
ExtFields(s) == Triples("string", ExtNames(s), "u32", ExtAbis(s), "string", ExtKinds(s), Len(s))
ExtGroups(s) == TripleGroups(ExtNames(s), ExtAbis(s), ExtKinds(s), Len(s))

LEMMA TriplesIn ==
    ASSUME NEW n \in Nat, NEW a \in Widths, NEW b \in Widths, NEW d \in Widths, NEW x, NEW y, NEW z,
           \A i \in 1..n : x[i] \in CatValue /\ y[i] \in CatValue /\ z[i] \in CatValue
    PROVE  Triples(a, x, b, y, d, z, n) \in Seq(Seq(CatField)) /\ Len(Triples(a, x, b, y, d, z, n)) = n
<1> DEFINE f == Triples(a, x, b, y, d, z, n)
<1>1. ASSUME NEW i \in 1..n PROVE <<Field(a, x[i]), Field(b, y[i]), Field(d, z[i])>> \in Seq(CatField)
  <2> DEFINE g == Field(a, x[i])
             h == Field(b, y[i])
             k == Field(d, z[i])
  <2>1. g \in CatField /\ h \in CatField /\ k \in CatField
    BY FieldIn
  <2> HIDE DEF g, h, k
  <2>2. <<g, h, k>> \in Seq(CatField)
    BY <2>1
  <2> QED BY <2>2 DEF g, h, k
<1>2. f = [i \in 1..n |-> <<Field(a, x[i]), Field(b, y[i]), Field(d, z[i])>>]
  BY DEF Triples
<1> HIDE DEF f
<1> DEFINE T == Seq(CatField)
<1>3. f = [i \in 1..n |-> f[i]] /\ \A i \in 1..n : f[i] \in T
  BY <1>1, <1>2
<1> HIDE DEF T
<1>4. f \in Seq(T) /\ Len(f) = n
  BY <1>3
<1> QED BY <1>4 DEF f, T

LEMMA ExtensionsIn ==
    ASSUME NEW exts \in Seq(Extension)
    PROVE  /\ ExtFields(exts) \in Seq(Seq(CatField)) /\ Len(ExtFields(exts)) = Len(exts)
           /\ FlattenSeq(ExtFields(exts)) \in Seq(CatField)
           /\ ExtFields(exts) = [i \in DOMAIN exts |-> EncodeExtension(exts[i])]
           /\ [k \in DOMAIN ExtGroups(exts) |->
                 [name |-> ExtGroups(exts)[k][1], abi |-> ExtGroups(exts)[k][2],
                  kind |-> ExtGroups(exts)[k][3]]] = exts
<1> DEFINE n == Len(exts)
           x == ExtNames(exts)
           y == ExtAbis(exts)
           z == ExtKinds(exts)
           a == "string"
           b == "u32"
           ss == ExtFields(exts)
           g == ExtGroups(exts)
<1>1. n \in Nat /\ DOMAIN exts = 1..n /\ exts = [i \in 1..n |-> exts[i]]
  OBVIOUS
<1>2. \A i \in 1..n : exts[i] \in Extension
  OBVIOUS
<1>3. \A i \in 1..n : x[i] = exts[i].name /\ y[i] = exts[i].abi /\ z[i] = exts[i].kind
  BY DEF ExtNames, ExtAbis, ExtKinds
<1>4. \A i \in 1..n : x[i] \in CatValue /\ y[i] \in CatValue /\ z[i] \in CatValue
  <2>1. \A i \in 1..n : x[i] \in DOMAIN Builtin /\ y[i] \in Nat /\ z[i] \in {"static"}
    <3> HIDE DEF n, x, y, z
    <3> QED BY <1>2, <1>3 DEF Extension
  <2> HIDE DEF n, x, y, z
  <2>2. \A v \in DOMAIN Builtin : v \in CatValue
    BY CatValues
  <2>3. \A v \in Nat : v \in CatValue
    <3>1. Int \subseteq CatValue
      BY CatValues
    <3> HIDE DEF a, b, ss, g
    <3> QED BY <3>1
  <2>4. \A v \in {"static"} : v \in CatValue
    BY CatValues
  <2> QED BY <2>1, <2>2, <2>3, <2>4
<1>5. a \in Widths /\ b \in Widths
  BY DEF Widths
<1>6. ss = Triples(a, x, b, y, a, z, n) /\ g = TripleGroups(x, y, z, n)
  BY DEF ExtFields, ExtGroups
<1>7. ss = [i \in DOMAIN exts |-> EncodeExtension(exts[i])]
  <2>1. \A i \in DOMAIN exts : EncodeExtension(exts[i]) =
          <<Field(a, exts[i].name), Field(b, exts[i].abi), Field(a, exts[i].kind)>>
    BY DEF EncodeExtension
  <2> HIDE DEF ss, n, x, y, z, a, b
  <2> QED BY <1>1, <1>3, <1>6, <2>1 DEF Triples
<1>8. ss \in Seq(Seq(CatField)) /\ Len(ss) = n
  <2> HIDE DEF ss, n, x, y, z, a, b
  <2> QED BY <1>1, <1>4, <1>5, <1>6, TriplesIn
<1>9. FlattenSeq(ss) \in Seq(CatField)
  <2> HIDE DEF ss
  <2> QED BY <1>8, FlattenPlaces
<1>10. [k \in DOMAIN g |-> [name |-> g[k][1], abi |-> g[k][2], kind |-> g[k][3]]] = exts
  <2> HIDE DEF g, n, x, y, z
  <2>1. DOMAIN g = 1..n /\ \A k \in 1..n : g[k] = <<x[k], y[k], z[k]>>
    BY <1>6 DEF TripleGroups
  <2>2. ASSUME NEW k \in 1..n
        PROVE [name |-> g[k][1], abi |-> g[k][2], kind |-> g[k][3]] = exts[k]
    <3>1. g[k][1] = exts[k].name /\ g[k][2] = exts[k].abi /\ g[k][3] = exts[k].kind
      BY <1>3, <2>1
    <3> QED BY <1>2, <3>1 DEF Extension
  <2> QED BY <1>1, <2>1, <2>2
<1> QED BY <1>7, <1>8, <1>9, <1>10

LEMMA CatalogParts ==
    ASSUME NEW cat, CatalogFormed(cat)
    PROVE  /\ EncodeRelations(cat) = CatHead(cat) \o CatRelations(cat)
           /\ EncodeCatalog(cat) =
                ((CatHead(cat) \o CatRelations(cat)) \o CatCount(cat)) \o FlattenSeq(ExtFields(cat.extensions))
           /\ CatHead(cat) \in Seq(CatField) /\ Len(CatHead(cat)) = 5
           /\ CatRelations(cat) \in Seq(CatField)
           /\ CatCount(cat) \in Seq(CatField) /\ Len(CatCount(cat)) = 1
           /\ FlattenSeq(ExtFields(cat.extensions)) \in Seq(CatField)
           /\ AllWellFormed(cat.relations) /\ cat.extensions \in Seq(Extension)
<1> DEFINE nr == cat.nextRelation
           np == cat.nextPage
           n == Len(cat.relations)
           m == Len(cat.extensions)
<1>1. /\ nr \in Nat /\ np \in 1..(MaxPage + 1) /\ cat.relations \in Seq(Relation)
      /\ cat.extensions \in Seq(Extension)
  BY DEF CatalogFormed, Catalog
<1>2. AllWellFormed(cat.relations)
  BY <1>1 DEF AllWellFormed, CatalogFormed
<1>3. nr \in CatValue /\ np \in CatValue /\ n \in CatValue /\ m \in CatValue /\ 1 \in CatValue
      /\ "RDBC" \in CatValue
  <2>1. nr \in Int /\ n \in Int /\ m \in Int /\ 1 \in Int
    BY <1>1
  <2>2. np \in Int
    <3>1. np \in 1..(MaxPage + 1)
      BY <1>1
    <3> QED BY <3>1, Bounds
  <2> QED BY <2>1, <2>2, CatValues
<1> DEFINE a == "magic"
           b == "u16"
           c == "u64"
           d == "u32"
           rd == "RDBC"
           one == 1
<1>4. a \in Widths /\ b \in Widths /\ c \in Widths /\ d \in Widths
  BY DEF Widths
<1> DEFINE f1 == Field(a, rd)
           f2 == Field(b, one)
           f3 == Field(c, nr)
           f4 == Field(c, np)
           f5 == Field(d, n)
           f6 == Field(d, m)
<1>5. f1 \in CatField /\ f2 \in CatField /\ f3 \in CatField /\ f4 \in CatField /\ f5 \in CatField
      /\ f6 \in CatField
  <2>1. rd \in CatValue /\ one \in CatValue
    BY <1>3
  <2> HIDE DEF a, b, c, d, nr, np, n, m, rd, one
  <2> QED BY <1>3, <1>4, <2>1, FieldIn
<1>6. CatHead(cat) = <<f1, f2, f3, f4, f5>> /\ CatCount(cat) = <<f6>>
  BY DEF CatHead, CatCount
<1> HIDE DEF f1, f2, f3, f4, f5, f6
<1> DEFINE h == <<f1, f2, f3, f4, f5>>
           k == <<f6>>
<1>7. h \in Seq(CatField) /\ Len(h) = 5
  BY <1>5
<1>8. k \in Seq(CatField) /\ Len(k) = 1
  BY <1>5
<1> HIDE DEF h, k
<1>9. CatHead(cat) = h /\ CatCount(cat) = k
  BY <1>6 DEF h, k
<1>10. CatRelations(cat) \in Seq(CatField)
  BY <1>2, RelationFieldsIn DEF CatRelations
<1>11. /\ FlattenSeq(ExtFields(cat.extensions)) \in Seq(CatField)
       /\ ExtFields(cat.extensions) = [i \in DOMAIN cat.extensions |-> EncodeExtension(cat.extensions[i])]
  BY <1>1, ExtensionsIn
<1>12. EncodeRelations(cat) = CatHead(cat) \o CatRelations(cat)
  BY DEF EncodeRelations, CatHead, CatRelations, RelationFields
<1>13. EncodeCatalog(cat) =
         ((CatHead(cat) \o CatRelations(cat)) \o CatCount(cat)) \o FlattenSeq(ExtFields(cat.extensions))
  BY <1>11, <1>12 DEF EncodeCatalog, CatCount
<1> QED BY <1>1, <1>2, <1>7, <1>8, <1>9, <1>10, <1>11, <1>12, <1>13

LEMMA ReadFive ==
    ASSUME NEW rec, NEW off, NEW a, NEW x, NEW b, NEW y, NEW d, NEW z, NEW e, NEW p, NEW g, NEW q,
           Holds(rec, off, <<Field(a, x), Field(b, y), Field(d, z), Field(e, p), Field(g, q)>>)
    PROVE  ReadFields(Cur(rec, off, << >>), <<a, b, d, e, g>>) = Cur(rec, off + 5, <<x, y, z, p, q>>)
<1> DEFINE f1 == Field(a, x)
           f2 == Field(b, y)
           f3 == Field(d, z)
           f4 == Field(e, p)
           f5 == Field(g, q)
           s == <<f1, f2, f3, f4, f5>>
<1>1. Len(s) = 5
  <2> HIDE DEF f1, f2, f3, f4, f5
  <2> QED OBVIOUS
<1>2. s[1] = f1 /\ s[2] = f2 /\ s[3] = f3 /\ s[4] = f4 /\ s[5] = f5
  <2> HIDE DEF f1, f2, f3, f4, f5
  <2> QED OBVIOUS
<1>3. Holds(rec, off, s)
  OBVIOUS
<1>4. off \in Nat
  BY <1>3 DEF Holds
<1> HIDE DEF s
<1> DEFINE o1 == off + 1
           o2 == o1 + 1
           o3 == o2 + 1
           o4 == o3 + 1
<1>5. Len(s) \in Nat /\ 1 \in 1..Len(s) /\ 2 \in 1..Len(s) /\ 3 \in 1..Len(s) /\ 4 \in 1..Len(s)
      /\ 5 \in 1..Len(s)
  BY <1>1
<1>6. off + (1 - 1) = off /\ off + (2 - 1) = o1 /\ off + (3 - 1) = o2 /\ off + (4 - 1) = o3
      /\ off + (5 - 1) = o4 /\ o4 + 1 = off + 5
  BY <1>4
<1>7. \A k \in 1..Len(s) : Holds(rec, off + (k - 1), <<s[k]>>)
  BY <1>3, <1>5, HoldsAt
<1> HIDE DEF f1, f2, f3, f4, f5
<1>8. /\ Holds(rec, off + (1 - 1), <<f1>>) /\ Holds(rec, off + (2 - 1), <<f2>>)
      /\ Holds(rec, off + (3 - 1), <<f3>>) /\ Holds(rec, off + (4 - 1), <<f4>>)
      /\ Holds(rec, off + (5 - 1), <<f5>>)
  BY <1>2, <1>5, <1>7
<1>9. Holds(rec, off, <<f1>>) /\ Holds(rec, o1, <<f2>>) /\ Holds(rec, o2, <<f3>>)
      /\ Holds(rec, o3, <<f4>>) /\ Holds(rec, o4, <<f5>>)
  BY <1>6, <1>8
<1> HIDE DEF o1, o2, o3, o4
<1>10. ReadField(Cur(rec, off, << >>), a) = Cur(rec, o1, <<x>>)
  BY <1>9, ReadFirst DEF f1, o1
<1>11. ReadField(Cur(rec, o1, <<x>>), b) = Cur(rec, o2, <<x, y>>)
  <2> DEFINE u == <<x>>
             v == <<x, y>>
  <2>1. Append(u, y) = v
    BY AppendToOne
  <2> HIDE DEF u, v
  <2>2. ReadField(Cur(rec, o1, u), b) = Cur(rec, o1 + 1, Append(u, y))
    BY <1>9, ReadOne DEF f2
  <2> QED BY <2>1, <2>2 DEF u, v, o2
<1>12. ReadField(Cur(rec, o2, <<x, y>>), d) = Cur(rec, o3, <<x, y, z>>)
  <2> DEFINE u == <<x, y>>
             v == <<x, y, z>>
  <2>1. Append(u, z) = v
    BY AppendToTwo
  <2> HIDE DEF u, v
  <2>2. ReadField(Cur(rec, o2, u), d) = Cur(rec, o2 + 1, Append(u, z))
    BY <1>9, ReadOne DEF f3
  <2> QED BY <2>1, <2>2 DEF u, v, o3
<1>13. ReadField(Cur(rec, o3, <<x, y, z>>), e) = Cur(rec, o4, <<x, y, z, p>>)
  <2> DEFINE u == <<x, y, z>>
             v == <<x, y, z, p>>
  <2>1. Append(u, p) = v
    BY AppendToThree
  <2> HIDE DEF u, v
  <2>2. ReadField(Cur(rec, o3, u), e) = Cur(rec, o3 + 1, Append(u, p))
    BY <1>9, ReadOne DEF f4
  <2> QED BY <2>1, <2>2 DEF u, v, o4
<1>14. ReadField(Cur(rec, o4, <<x, y, z, p>>), g) = Cur(rec, o4 + 1, <<x, y, z, p, q>>)
  <2> DEFINE u == <<x, y, z, p>>
             v == <<x, y, z, p, q>>
  <2>1. Append(u, q) = v
    BY AppendToFour
  <2> HIDE DEF u, v
  <2>2. ReadField(Cur(rec, o4, u), g) = Cur(rec, o4 + 1, Append(u, q))
    BY <1>9, ReadOne DEF f5
  <2> QED BY <2>1, <2>2 DEF u, v
<1>15. o4 + 1 = off + 5
  BY <1>4 DEF o1, o2, o3, o4
<1> QED BY <1>10, <1>11, <1>12, <1>13, <1>14, <1>15, Fields5

HeadOut(cat) == <<"RDBC", 1, cat.nextRelation, cat.nextPage, Len(cat.relations)>>
RelationsOut(cat) == <<"RDBC", 1, cat.nextRelation, cat.nextPage, Len(cat.relations), cat.relations>>

\* The header and the relations are read back, whatever follows them.
LEMMA RelationsDecoded ==
    ASSUME NEW cat, CatalogFormed(cat), NEW rec,
           Holds(rec, 0, CatHead(cat)), Holds(rec, 5, CatRelations(cat))
    PROVE  DecodeRelations(ReadFields(Cursor(rec), <<"magic", "u16", "u64", "u64", "u32">>)) =
             Cur(rec, 5 + Len(CatRelations(cat)), RelationsOut(cat))
<1> DEFINE nr == cat.nextRelation
           np == cat.nextPage
           rels == cat.relations
           n == Len(rels)
           out == HeadOut(cat)
           head == Cur(rec, 5, out)
<1>1. ReadFields(Cursor(rec), <<"magic", "u16", "u64", "u64", "u32">>) = head
  <2> DEFINE a == "magic"
             b == "u16"
             c == "u64"
             d == "u32"
             rd == "RDBC"
             one == 1
             o == 0
  <2>1. Holds(rec, o, <<Field(a, rd), Field(b, one), Field(c, nr), Field(c, np), Field(d, n)>>)
    BY DEF CatHead
  <2>2. Cursor(rec) = Cur(rec, o, << >>) /\ o + 5 = 5
    BY CursorIs
  <2>3. out = <<rd, one, nr, np, n>>
    BY DEF HeadOut
  <2> HIDE DEF a, b, c, d, rd, one, o, nr, np, n, out
  <2>4. ReadFields(Cur(rec, o, << >>), <<a, b, c, c, d>>) = Cur(rec, o + 5, <<rd, one, nr, np, n>>)
    BY <2>1, ReadFive
  <2>5. ReadFields(Cursor(rec), <<a, b, c, c, d>>) = Cur(rec, 5, out)
    BY <2>2, <2>3, <2>4
  <2> QED BY <2>5 DEF a, b, c, d
<1>2. head.ok /\ head.out = out /\ Fresh(head) = Cur(rec, 5, << >>)
  BY CurIn, FreshIs
<1>3. /\ out = <<"RDBC", 1, nr, np, n>>
  BY DEF HeadOut
<1>4. out[5] = n /\ SubSeq(out, 1, 2) = <<"RDBC", 1>>
  <2> HIDE DEF nr, np, n, out
  <2>1. out[5] = n
    BY <1>3
  <2>2. SubSeq(out, 1, 2) = <<"RDBC", 1>>
    <3> DEFINE rd == "RDBC"
               one == 1
               S == {rd, one, nr, np, n}
               u == <<rd, one>>
               v == SubSeq(out, 1, 2)
    <3>1. out = <<rd, one, nr, np, n>>
      BY <1>3
    <3> HIDE DEF rd, one
    <3>2. out \in Seq(S) /\ Len(out) = 5
      BY <3>1
    <3>3. out[1] = rd /\ out[2] = one
      BY <3>1
    <3>4. u \in Seq(S) /\ Len(u) = 2
      OBVIOUS
    <3>5. u[1] = rd /\ u[2] = one
      OBVIOUS
    <3> HIDE DEF S, u
    <3>6. v \in Seq(S) /\ Len(v) = 2 /\ \A i \in 1..2 : v[i] = out[i]
      <4>1. 1 \in 1..(Len(out) + 1) /\ 2 \in 0..Len(out)
        BY <3>2
      <4> QED BY <3>2, <4>1
    <3> HIDE DEF v
    <3>7. \A i \in 1..2 : i = 1 \/ i = 2
      OBVIOUS
    <3>8. \A i \in 1..Len(v) : v[i] = u[i]
      BY <3>3, <3>5, <3>6, <3>7
    <3>9. v = u
      BY <3>4, <3>6, <3>8, SameSeq
    <3> QED BY <3>9 DEF v, u, rd, one
  <2> QED BY <2>1, <2>2
<1>5. AllWellFormed(rels)
  BY CatalogParts
<1> DEFINE q == 5 + Len(CatRelations(cat))
           inner == Cur(rec, q, rels)
<1>6. FoldLeft(DecodeRelation, Cur(rec, 5, << >>), [i \in 1..n |-> i]) = inner
  <2> DEFINE o == 5
  <2>1. Holds(rec, o, FlattenSeq(RelationFields(rels)))
    BY DEF CatRelations
  <2> HIDE DEF o
  <2>2. FoldLeft(DecodeRelation, Cur(rec, o, << >>), [i \in 1..Len(rels) |-> i]) =
             Cur(rec, o + Len(FlattenSeq(RelationFields(rels))), rels)
    BY <1>5, <2>1, RelationsRead
  <2> QED BY <2>2 DEF o, CatRelations
<1>7. inner.ok /\ inner.out = rels
  BY CurIn
<1>8. Append(out, rels) = RelationsOut(cat)
  <2> DEFINE rd == "RDBC"
             one == 1
  <2>1. out = <<rd, one, nr, np, n>> /\ RelationsOut(cat) = <<rd, one, nr, np, n, rels>>
    BY DEF HeadOut, RelationsOut
  <2> HIDE DEF rd, one, nr, np, n, rels, out
  <2>2. Append(<<rd, one, nr, np, n>>, rels) = <<rd, one, nr, np, n, rels>>
    BY AppendToFive
  <2> QED BY <2>1, <2>2
<1>9. [inner EXCEPT !.out = Append(out, rels)] = Cur(rec, q, Append(out, rels))
  <2> DEFINE u == Append(out, rels)
  <2> HIDE DEF u, q, rels
  <2>1. [Cur(rec, q, rels) EXCEPT !.out = u] = Cur(rec, q, u)
    BY CurOut
  <2> QED BY <2>1 DEF u
<1> HIDE DEF head, inner, out, n, q
<1>10. DecodeRelations(head) = [inner EXCEPT !.out = Append(out, rels)]
  BY <1>2, <1>4, <1>6, <1>7 DEF DecodeRelations, AddGroup
<1> QED BY <1>1, <1>8, <1>9, <1>10 DEF q

LEMMA ExtensionsDecoded ==
    ASSUME NEW rec, NEW off, NEW out, NEW exts \in Seq(Extension),
           Holds(rec, off, <<Field("u32", Len(exts))>>), Holds(rec, off + 1, FlattenSeq(ExtFields(exts)))
    PROVE  DecodeExtensions(Cur(rec, off, out)) =
             Cur(rec, (off + 1) + Len(FlattenSeq(ExtFields(exts))), Append(out, ExtGroups(exts)))
<1> DEFINE n == Len(exts)
           x == ExtNames(exts)
           y == ExtAbis(exts)
           z == ExtKinds(exts)
           a == "string"
           b == "u32"
           ss == ExtFields(exts)
           g == ExtGroups(exts)
           t == FlattenSeq(ss)
           c == Cur(rec, off, out)
<1>1. ss = Triples(a, x, b, y, a, z, n) /\ g = TripleGroups(x, y, z, n) /\ n \in Nat
  BY DEF ExtFields, ExtGroups
<1>2. ss \in Seq(Seq(CatField)) /\ Len(ss) = n
  BY ExtensionsIn
<1>3. PICK at : Placed(ss, at, t)
  <2> HIDE DEF ss
  <2> QED BY <1>2, FlattenPlaces
<1>4. Laid(rec, off + 1, CatField, ss, at)
  BY <1>2, <1>3 DEF Laid
<1>5. Holds(rec, off, <<Field(b, n)>>)
  OBVIOUS
<1>6. off # Len(rec)
  <2>1. off \in Nat /\ Len(rec) \in Nat /\ off + 1 <= Len(rec)
    BY <1>5 DEF Holds
  <2> QED BY <2>1
<1>7. ~IsFinished(c)
  BY <1>6, CurIn DEF IsFinished
<1> HIDE DEF ss, g, n, x, y, z, a, b
<1>8. Len(t) = at[n]
  BY <1>2, <1>3 DEF Placed
<1>9. ReadCounted(c, b, <<a, b, a>>) = Cur(rec, (off + 1) + at[n], Append(out, g))
  BY <1>1, <1>4, <1>5, TriplesRead
<1> HIDE DEF c
<1>10. DecodeExtensions(c) = ReadCounted(c, b, <<a, b, a>>)
  BY <1>7 DEF DecodeExtensions, a, b
<1> QED BY <1>8, <1>9, <1>10 DEF c, ss, g

\* Everything that has been read of a catalog with these extensions.
CatalogOut(cat, g) ==
    <<"RDBC", 1, cat.nextRelation, cat.nextPage, Len(cat.relations), cat.relations, g>>

LEMMA CatalogOutIs == \A cat, g : Append(RelationsOut(cat), g) = CatalogOut(cat, g)
<1> SUFFICES ASSUME NEW cat, NEW g PROVE Append(RelationsOut(cat), g) = CatalogOut(cat, g)
  OBVIOUS
<1> DEFINE rd == "RDBC"
           one == 1
           nr == cat.nextRelation
           np == cat.nextPage
           rels == cat.relations
           n == Len(rels)
<1>1. RelationsOut(cat) = <<rd, one, nr, np, n, rels>> /\ CatalogOut(cat, g) = <<rd, one, nr, np, n, rels, g>>
  BY DEF RelationsOut, CatalogOut
<1> HIDE DEF rd, one, nr, np, n, rels
<1>2. Append(<<rd, one, nr, np, n, rels>>, g) = <<rd, one, nr, np, n, rels, g>>
  BY AppendToSix
<1> QED BY <1>1, <1>2

LEMMA AsCatalogBack ==
    ASSUME NEW cat, CatalogFormed(cat)
    PROVE  /\ AsCatalog(CatalogOut(cat, ExtGroups(cat.extensions))) = cat
           /\ AsCatalog(CatalogOut(cat, << >>)) = [cat EXCEPT !.extensions = << >>]
<1> DEFINE nr == cat.nextRelation
           np == cat.nextPage
           rels == cat.relations
           exts == cat.extensions
<1>1. cat \in Catalog /\ exts \in Seq(Extension)
  BY DEF CatalogFormed, Catalog
<1>2. cat = [nextRelation |-> nr, nextPage |-> np, relations |-> rels, extensions |-> exts]
  BY <1>1 DEF Catalog
<1>3. ASSUME NEW g
      PROVE  AsCatalog(CatalogOut(cat, g)) =
               [nextRelation |-> nr, nextPage |-> np, relations |-> rels,
                extensions |-> [k \in DOMAIN g |->
                                  [name |-> g[k][1], abi |-> g[k][2], kind |-> g[k][3]]]]
  <2> DEFINE out == CatalogOut(cat, g)
             n == Len(rels)
  <2>1. out = <<"RDBC", 1, nr, np, n, rels, g>>
    BY DEF CatalogOut
  <2> HIDE DEF out, nr, np, rels, n
  <2>2. out[3] = nr /\ out[4] = np /\ out[6] = rels /\ out[7] = g
    BY <2>1
  <2> QED BY <2>2 DEF AsCatalog, out
<1>4. AsCatalog(CatalogOut(cat, ExtGroups(exts))) = cat
  <2> DEFINE g == ExtGroups(exts)
             e == [k \in DOMAIN g |-> [name |-> g[k][1], abi |-> g[k][2], kind |-> g[k][3]]]
  <2>1. e = exts
    BY <1>1, ExtensionsIn
  <2>2. AsCatalog(CatalogOut(cat, g)) =
          [nextRelation |-> nr, nextPage |-> np, relations |-> rels, extensions |-> e]
    BY <1>3
  <2> HIDE DEF e, g
  <2> QED BY <1>2, <2>1, <2>2 DEF g
<1>5. AsCatalog(CatalogOut(cat, << >>)) = [cat EXCEPT !.extensions = << >>]
  <2> DEFINE g == << >>
             e == [k \in DOMAIN g |-> [name |-> g[k][1], abi |-> g[k][2], kind |-> g[k][3]]]
  <2>1. e = << >>
    <3>1. DOMAIN g = 1..0
      OBVIOUS
    <3>2. e \in Seq({0}) /\ Len(e) = 0
      BY <3>1
    <3> HIDE DEF e
    <3> QED BY <3>2
  <2>2. AsCatalog(CatalogOut(cat, g)) =
          [nextRelation |-> nr, nextPage |-> np, relations |-> rels, extensions |-> e]
    BY <1>3
  <2>3. [cat EXCEPT !.extensions = << >>] =
          [nextRelation |-> nr, nextPage |-> np, relations |-> rels, extensions |-> << >>]
    <3> DEFINE x == << >>
    <3> HIDE DEF x
    <3>1. [cat EXCEPT !.extensions = x] =
            [nextRelation |-> nr, nextPage |-> np, relations |-> rels, extensions |-> x]
      BY <1>1 DEF Catalog
    <3> QED BY <3>1 DEF x
  <2> HIDE DEF e
  <2> QED BY <2>1, <2>2, <2>3
<1> QED BY <1>4, <1>5

\* A record that starts with a catalog is read to the end of it.
LEMMA CatalogDecoded ==
    ASSUME NEW cat, CatalogFormed(cat), NEW rec, Holds(rec, 0, EncodeCatalog(cat))
    PROVE  DecodeCatalog(rec) =
             CatalogRead(Cur(rec, Len(EncodeCatalog(cat)), CatalogOut(cat, ExtGroups(cat.extensions))))
<1> DEFINE a == CatHead(cat)
           b == CatRelations(cat)
           c == CatCount(cat)
           d == FlattenSeq(ExtFields(cat.extensions))
           exts == cat.extensions
<1>1. a \in Seq(CatField) /\ b \in Seq(CatField) /\ c \in Seq(CatField) /\ d \in Seq(CatField)
  BY CatalogParts
<1>2. Len(a) = 5 /\ Len(c) = 1 /\ EncodeCatalog(cat) = ((a \o b) \o c) \o d
  BY CatalogParts
<1>3. exts \in Seq(Extension)
  BY CatalogParts
<1> HIDE DEF a, b, c, d
<1>4. Len(EncodeCatalog(cat)) = ((Len(a) + Len(b)) + Len(c)) + Len(d)
  <2>1. Len(((a \o b) \o c) \o d) = ((Len(a) + Len(b)) + Len(c)) + Len(d)
    BY <1>1, FourParts
  <2> QED BY <1>2, <2>1
<1>5. /\ Holds(rec, 0, a) /\ Holds(rec, 0 + Len(a), b)
      /\ Holds(rec, 0 + (Len(a) + Len(b)), c)
      /\ Holds(rec, 0 + ((Len(a) + Len(b)) + Len(c)), d)
  <2> DEFINE o == 0
  <2>1. Holds(rec, o, ((a \o b) \o c) \o d)
    BY <1>2
  <2> HIDE DEF o
  <2>2. /\ Holds(rec, o, a) /\ Holds(rec, o + Len(a), b)
        /\ Holds(rec, o + (Len(a) + Len(b)), c)
        /\ Holds(rec, o + ((Len(a) + Len(b)) + Len(c)), d)
    BY <1>1, <2>1, FourParts
  <2> QED BY <2>2 DEF o
<1>6. Len(b) \in Nat /\ Len(d) \in Nat
  BY <1>1
<1> DEFINE o == 5 + Len(b)
           q == (o + 1) + Len(d)
<1>7. Holds(rec, 5, b) /\ Holds(rec, o, c) /\ Holds(rec, o + 1, d) /\ Len(EncodeCatalog(cat)) = q
  <2>1. /\ 0 + Len(a) = 5 /\ 0 + (Len(a) + Len(b)) = o /\ 0 + ((Len(a) + Len(b)) + Len(c)) = o + 1
        /\ ((Len(a) + Len(b)) + Len(c)) + Len(d) = q
    BY <1>2, <1>6
  <2> QED BY <1>4, <1>5, <2>1
<1>8. DecodeRelations(ReadFields(Cursor(rec), <<"magic", "u16", "u64", "u64", "u32">>)) =
             Cur(rec, o, RelationsOut(cat))
  BY <1>5, <1>7, RelationsDecoded DEF a, b
<1> HIDE DEF o
<1>9. DecodeExtensions(Cur(rec, o, RelationsOut(cat))) = Cur(rec, q, Append(RelationsOut(cat), ExtGroups(exts)))
  <2> DEFINE u == RelationsOut(cat)
  <2>1. Holds(rec, o, <<Field("u32", Len(exts))>>) /\ Holds(rec, o + 1, FlattenSeq(ExtFields(exts)))
    BY <1>7 DEF c, d, CatCount
  <2> HIDE DEF u, exts
  <2>2. DecodeExtensions(Cur(rec, o, u)) =
             Cur(rec, (o + 1) + Len(FlattenSeq(ExtFields(exts))), Append(u, ExtGroups(exts)))
    BY <1>3, <2>1, ExtensionsDecoded
  <2> QED BY <2>2 DEF u, d, exts
<1> QED BY <1>7, <1>8, <1>9, CatalogOutIs DEF DecodeCatalog

\* decode_catalog returns the catalog that encode_catalog wrote.
THEOREM CatalogRoundTrip ==
    ASSUME NEW cat, CatalogFormed(cat)
    PROVE  DecodeCatalog(EncodeCatalog(cat)) = [ok |-> TRUE, catalog |-> cat]
<1> DEFINE rec == EncodeCatalog(cat)
           out == CatalogOut(cat, ExtGroups(cat.extensions))
           cur == Cur(rec, Len(rec), out)
<1>1. rec \in Seq(CatField)
  <2> DEFINE a == CatHead(cat)
             b == CatRelations(cat)
             c == CatCount(cat)
             d == FlattenSeq(ExtFields(cat.extensions))
  <2>1. a \in Seq(CatField) /\ b \in Seq(CatField) /\ c \in Seq(CatField) /\ d \in Seq(CatField)
    BY CatalogParts
  <2>2. EncodeCatalog(cat) = ((a \o b) \o c) \o d
    BY CatalogParts
  <2> HIDE DEF a, b, c, d
  <2>3. ((a \o b) \o c) \o d \in Seq(CatField)
    BY <2>1, FourParts
  <2> QED BY <2>2, <2>3
<1>2. Holds(rec, 0, rec)
  <2> HIDE DEF rec
  <2>1. Len(rec) \in Nat /\ \A k \in 1..Len(rec) : 0 + k = k
    BY <1>1
  <2> QED BY <2>1 DEF Holds
<1>3. DecodeCatalog(rec) = CatalogRead(cur)
  BY <1>2, CatalogDecoded
<1>4. cur.ok /\ IsFinished(cur) /\ cur.out = out
  BY CurIn DEF IsFinished
<1>5. AsCatalog(out) = cat
  BY AsCatalogBack
<1> HIDE DEF cur, out
<1>6. CatalogRead(cur) = [ok |-> TRUE, catalog |-> cat]
  BY <1>4, <1>5 DEF CatalogRead
<1> QED BY <1>3, <1>6

LEMMA EncodedIn ==
    ASSUME NEW cat, CatalogFormed(cat)
    PROVE  EncodeCatalog(cat) \in Seq(CatField) /\ EncodeRelations(cat) \in Seq(CatField)
<1> DEFINE a == CatHead(cat)
           b == CatRelations(cat)
           c == CatCount(cat)
           d == FlattenSeq(ExtFields(cat.extensions))
<1>1. a \in Seq(CatField) /\ b \in Seq(CatField) /\ c \in Seq(CatField) /\ d \in Seq(CatField)
  BY CatalogParts
<1>2. EncodeCatalog(cat) = ((a \o b) \o c) \o d /\ EncodeRelations(cat) = a \o b
  BY CatalogParts
<1> HIDE DEF a, b, c, d
<1>3. ((a \o b) \o c) \o d \in Seq(CatField) /\ a \o b \in Seq(CatField)
  BY <1>1, FourParts, ConcatFacts
<1> QED BY <1>2, <1>3

\* A catalog of the time before extensions.
LEMMA OldCatalogRead ==
    ASSUME NEW cat, CatalogFormed(cat)
    PROVE  DecodeCatalog(EncodeRelations(cat)) =
             [ok |-> TRUE, catalog |-> [cat EXCEPT !.extensions = << >>]]
<1> DEFINE rec == EncodeRelations(cat)
           a == CatHead(cat)
           b == CatRelations(cat)
<1>1. a \in Seq(CatField) /\ b \in Seq(CatField)
  BY CatalogParts
<1>2. rec = a \o b /\ Len(a) = 5
  BY CatalogParts
<1>3. rec \in Seq(CatField)
  BY EncodedIn
<1> HIDE DEF rec, a, b
<1>4. Len(rec) = 5 + Len(b) /\ Len(b) \in Nat
  <2>1. Len(a \o b) = Len(a) + Len(b) /\ Len(b) \in Nat
    BY <1>1, ConcatFacts
  <2> QED BY <1>2, <2>1
<1>5. Holds(rec, 0, a) /\ Holds(rec, 5, b)
  <2>1. Holds(rec, 0, rec)
    <3>1. Len(rec) \in Nat /\ \A k \in 1..Len(rec) : 0 + k = k
      BY <1>3
    <3> QED BY <3>1 DEF Holds
  <2> DEFINE o == 0
  <2>2. Holds(rec, o, a \o b)
    BY <1>2, <2>1
  <2> HIDE DEF o
  <2>3. Holds(rec, o, a) /\ Holds(rec, o + Len(a), b)
    BY <1>1, <2>2, HoldsParts
  <2>4. Holds(rec, 0, a) /\ Holds(rec, 0 + Len(a), b)
    BY <2>3 DEF o
  <2> QED BY <1>2, <2>4
<1> DEFINE cur == Cur(rec, Len(rec), RelationsOut(cat))
           out == CatalogOut(cat, << >>)
           last == Cur(rec, Len(rec), out)
<1>6. DecodeRelations(ReadFields(Cursor(rec), <<"magic", "u16", "u64", "u64", "u32">>)) = cur
  <2>1. DecodeRelations(ReadFields(Cursor(rec), <<"magic", "u16", "u64", "u64", "u32">>)) =
          Cur(rec, 5 + Len(CatRelations(cat)), RelationsOut(cat))
    BY <1>5, RelationsDecoded DEF a, b
  <2> QED BY <1>4, <2>1 DEF b
<1>7. IsFinished(cur) /\ cur.out = RelationsOut(cat)
  BY CurIn DEF IsFinished
<1>8. Append(RelationsOut(cat), << >>) = out
  BY CatalogOutIs
<1>9. [cur EXCEPT !.out = out] = last
  <2> DEFINE y == RelationsOut(cat)
             o == Len(rec)
  <2> HIDE DEF y, o, out
  <2>1. [Cur(rec, o, y) EXCEPT !.out = out] = Cur(rec, o, out)
    BY CurOut
  <2> QED BY <2>1 DEF y, o
<1> HIDE DEF cur
<1>10. DecodeExtensions(cur) = [cur EXCEPT !.out = Append(cur.out, << >>)]
  BY <1>7 DEF DecodeExtensions
<1>11. DecodeExtensions(cur) = last
  BY <1>7, <1>8, <1>9, <1>10
<1>12. last.ok /\ IsFinished(last) /\ last.out = out
  BY CurIn DEF IsFinished
<1>13. AsCatalog(out) = [cat EXCEPT !.extensions = << >>]
  BY AsCatalogBack
<1> DEFINE c == [cat EXCEPT !.extensions = << >>]
<1> HIDE DEF last, out, c
<1>14. CatalogRead(last) = [ok |-> TRUE, catalog |-> c]
  BY <1>12, <1>13 DEF CatalogRead, c
<1>15. DecodeCatalog(rec) = [ok |-> TRUE, catalog |-> c]
  BY <1>6, <1>11, <1>14 DEF DecodeCatalog
<1> QED BY <1>15 DEF rec, c

\* Nothing may follow a catalog.
LEMMA LongCatalogRefused ==
    ASSUME NEW cat, CatalogFormed(cat), NEW f
    PROVE  ~DecodeCatalog(Append(EncodeCatalog(cat), f)).ok
<1> DEFINE s == EncodeCatalog(cat)
           S == CatField \cup {f}
           rec == Append(s, f)
           out == CatalogOut(cat, ExtGroups(cat.extensions))
           cur == Cur(rec, Len(s), out)
<1>1. s \in Seq(S) /\ f \in S
  <2>1. s \in Seq(CatField)
    BY EncodedIn
  <2> HIDE DEF s
  <2> QED BY <2>1
<1>2. /\ Len(rec) = Len(s) + 1 /\ Len(s) \in Nat /\ \A i \in 1..Len(s) : rec[i] = s[i]
  <2> HIDE DEF s, S
  <2> QED BY <1>1
<1>3. Holds(rec, 0, s)
  <2> HIDE DEF s, rec
  <2>1. \A k \in 1..Len(s) : 0 + k = k
    OBVIOUS
  <2> QED BY <1>2, <2>1 DEF Holds
<1> HIDE DEF rec
<1>4. DecodeCatalog(rec) = CatalogRead(cur)
  BY <1>3, CatalogDecoded
<1>5. ~IsFinished(cur)
  <2>1. cur.offset = Len(s) /\ cur.record = rec
    BY CurIn
  <2> HIDE DEF cur, s
  <2> QED BY <1>2, <2>1 DEF IsFinished
<1> HIDE DEF cur
<1>6. CatalogRead(cur) = [ok |-> FALSE]
  BY <1>5 DEF CatalogRead
<1> QED BY <1>4, <1>6 DEF rec

-----------------------------------------------------------------------------
(* A cursor that has not failed has read its fields. *)

IsCursor(c) == c = [record |-> c.record, offset |-> c.offset, ok |-> c.ok, out |-> c.out]

\* d is what c becomes by reading n fields.
Reads(c, n, d) ==
    /\ IsCursor(d) /\ d.record = c.record
    /\ d.ok => c.ok /\ d.offset = c.offset + n /\ d.offset <= Len(d.record)

LEMMA OneFieldRead ==
    ASSUME NEW c, NEW w, IsCursor(c), c.ok => c.offset \in Nat /\ c.offset <= Len(c.record), Len(c.record) \in Nat
    PROVE  Reads(c, 1, ReadField(c, w))
<1> DEFINE d == ReadField(c, w)
           yes == c.ok /\ ~IsFinished(c) /\ c.record[c.offset + 1].width = w
           o == c.offset + 1
           u == Append(c.out, c.record[c.offset + 1].value)
           R == c.record
<1>1. CASE yes
  <2>1. d = [c EXCEPT !.offset = o, !.out = u]
    BY <1>1 DEF ReadField
  <2>2. c.offset # Len(R)
    BY <1>1 DEF IsFinished
  <2>3. o <= Len(R)
    BY <1>1, <2>2
  <2> HIDE DEF d, o, u, R
  <2>4. d.record = c.record /\ d.offset = o /\ d.ok = c.ok /\ d.out = u /\ IsCursor(d)
    BY <2>1 DEF IsCursor
  <2>5. d.offset = c.offset + 1 /\ d.offset <= Len(d.record)
    BY <2>3, <2>4 DEF o, R
  <2> QED BY <2>4, <2>5, <1>1 DEF Reads, d
<1>2. CASE ~yes
  <2>1. d = [c EXCEPT !.ok = FALSE]
    BY <1>2 DEF ReadField, Failed
  <2> HIDE DEF d
  <2>2. d.record = c.record /\ ~d.ok /\ IsCursor(d)
    BY <2>1 DEF IsCursor
  <2> QED BY <2>2 DEF Reads, d
<1> QED BY <1>1, <1>2
LEMMA ThreeFieldsRead ==
    ASSUME NEW c, NEW a, NEW b, NEW d, IsCursor(c), c.ok => c.offset \in Nat /\ c.offset <= Len(c.record),
           Len(c.record) \in Nat
    PROVE  Reads(c, 3, ReadFields(c, <<a, b, d>>))
<1> DEFINE x == ReadField(c, a)
<1>1. Reads(c, 1, x)
  BY OneFieldRead
<1> HIDE DEF x
<1>2. /\ IsCursor(x) /\ x.record = c.record /\ Len(x.record) \in Nat
      /\ x.ok => c.ok /\ x.offset \in Nat /\ x.offset <= Len(x.record) /\ x.offset = c.offset + 1
  BY <1>1 DEF Reads
<1> DEFINE y == ReadField(x, b)
<1>3. Reads(x, 1, y)
  BY <1>2, OneFieldRead
<1> HIDE DEF y
<1>4. /\ IsCursor(y) /\ y.record = c.record /\ Len(y.record) \in Nat
      /\ y.ok => c.ok /\ y.offset \in Nat /\ y.offset <= Len(y.record) /\ y.offset = c.offset + 2
  BY <1>2, <1>3 DEF Reads
<1> DEFINE z == ReadField(y, d)
<1>5. Reads(y, 1, z)
  BY <1>4, OneFieldRead
<1> HIDE DEF z
<1>6. /\ IsCursor(z) /\ z.record = c.record
      /\ z.ok => c.ok /\ z.offset <= Len(z.record) /\ z.offset = c.offset + 3
  BY <1>4, <1>5 DEF Reads
<1>7. ReadFields(c, <<a, b, d>>) = z
  BY Fields3 DEF x, y, z
<1> QED BY <1>6, <1>7 DEF Reads

LEMMA ThreeGroupRead ==
    ASSUME NEW c, NEW a, NEW b, NEW d, IsCursor(c), c.ok => c.offset \in Nat /\ c.offset <= Len(c.record),
           Len(c.record) \in Nat
    PROVE  Reads(c, 3, ReadGroup(c, <<a, b, d>>))
<1> DEFINE e == Fresh(c)
           inner == ReadFields(e, <<a, b, d>>)
           g == ReadGroup(c, <<a, b, d>>)
<1>1. IsCursor(e) /\ e.record = c.record /\ e.ok = c.ok /\ e.offset = c.offset
  <2> DEFINE u == << >>
  <2>1. e = [c EXCEPT !.out = u]
    BY DEF Fresh
  <2> HIDE DEF e, u
  <2> QED BY <2>1 DEF IsCursor
<1> HIDE DEF e
<1>2. Reads(e, 3, inner)
  BY <1>1, ThreeFieldsRead
<1>3. g = IF inner.ok THEN [inner EXCEPT !.out = Append(c.out, inner.out)] ELSE inner
  BY DEF ReadGroup, AddGroup, e
<1> HIDE DEF inner, g
<1>4. IsCursor(g) /\ g.record = inner.record /\ g.ok = inner.ok /\ g.offset = inner.offset
  <2> DEFINE u == Append(c.out, inner.out)
  <2> HIDE DEF u
  <2>1. g = IF inner.ok THEN [inner EXCEPT !.out = u] ELSE inner
    BY <1>3 DEF u
  <2>2. IsCursor(inner)
    BY <1>2 DEF Reads
  <2> QED BY <2>1, <2>2 DEF IsCursor
<1> QED BY <1>1, <1>2, <1>4 DEF Reads, g

\* After i groups of three fields.
Advanced(p, i, x) ==
    /\ IsCursor(x) /\ x.record = p.rec
    /\ x.ok => x.offset = p.off + 3 * i /\ x.offset <= Len(p.rec)

ShortFold == INSTANCE FoldProofs WITH Op <- ReadGroup, Inv <- Advanced

LEMMA ShortFoldIs == \A c, s : ShortFold!Fold(c, s) = FoldLeft(ReadGroup, c, s)
  BY DEF ShortFold!Fold, FoldLeft, MapThenFoldSet, ShortFold!MapThenFoldSet,
         Max, ShortFold!Greatest

LEMMA GroupsNeedFields ==
    ASSUME NEW rec, NEW off \in Nat, NEW n \in Nat, NEW a, NEW b, NEW d,
           Len(rec) \in Nat, off <= Len(rec), off + 3 * n > Len(rec)
    PROVE  ~FoldLeft(ReadGroup, Cur(rec, off, << >>), Same(n, <<a, b, d>>)).ok
<1> DEFINE p == [rec |-> rec, off |-> off]
           w == <<a, b, d>>
           s == Same(n, w)
           base == Cur(rec, off, << >>)
<1>1. p.rec = rec /\ p.off = off
  OBVIOUS
<1>2. s \in Seq({w}) /\ Len(s) = n /\ \A i \in 1..n : s[i] = w
  <2> HIDE DEF w
  <2> QED BY DEF Same
<1> HIDE DEF p, s
<1>3. Advanced(p, 0, base)
  <2>1. base.record = rec /\ base.offset = off /\ base.ok
    BY CurIn
  <2>2. IsCursor(base)
    <3> DEFINE c == base
    <3>1. c = [record |-> rec, offset |-> off, ok |-> TRUE, out |-> << >>]
      BY DEF Cur
    <3> HIDE DEF c
    <3>2. c.ok = TRUE
      BY <3>1
    <3>3. c.record = rec /\ c.offset = off /\ c.out = << >>
      BY <3>1
    <3>4. IsCursor(c)
      BY <3>1, <3>2, <3>3 DEF IsCursor
    <3> QED BY <3>4 DEF c
  <2> HIDE DEF base
  <2>3. off = off + 3 * 0
    OBVIOUS
  <2> QED BY <1>1, <2>1, <2>2, <2>3 DEF Advanced
<1>4. ASSUME NEW i \in 1..Len(s), NEW x, Advanced(p, i - 1, x)
      PROVE  Advanced(p, i, ReadGroup(x, s[i]))
  <2> DEFINE k == i - 1
  <2>1. i \in 1..n /\ s[i] = w /\ k \in Nat /\ i = k + 1
    BY <1>2
  <2>2. /\ IsCursor(x) /\ x.record = rec
        /\ x.ok => x.offset = off + 3 * k /\ x.offset <= Len(rec)
    BY <1>1, <1>4 DEF Advanced
  <2> HIDE DEF k
  <2>3. x.ok => x.offset \in Nat /\ x.offset <= Len(x.record)
    BY <2>1, <2>2
  <2>4. Reads(x, 3, ReadGroup(x, w))
    BY <2>2, <2>3, ThreeGroupRead
  <2> DEFINE y == ReadGroup(x, w)
  <2> HIDE DEF y, w
  <2>5. /\ IsCursor(y) /\ y.record = rec
        /\ y.ok => y.offset = (off + 3 * k) + 3 /\ y.offset <= Len(rec)
    BY <2>2, <2>4 DEF Reads, y
  <2>6. (off + 3 * k) + 3 = off + 3 * i
    BY <2>1
  <2>7. Advanced(p, i, y)
    BY <1>1, <2>5, <2>6 DEF Advanced
  <2> QED BY <2>1, <2>7 DEF y
<1> HIDE DEF base
<1>5. Advanced(p, Len(s), ShortFold!Fold(base, s))
  BY <1>2, <1>3, <1>4, ShortFold!FoldKeeps
<1> DEFINE last == FoldLeft(ReadGroup, base, s)
<1>6. Advanced(p, n, last)
  BY <1>2, <1>5, ShortFoldIs
<1> HIDE DEF last
<1>7. ~last.ok
  BY <1>1, <1>6 DEF Advanced
<1> QED BY <1>7 DEF last, base, s

LEMMA ExtensionsLength ==
    ASSUME NEW exts \in Seq(Extension)
    PROVE  Len(FlattenSeq(ExtFields(exts))) = 3 * Len(exts)
<1> DEFINE n == Len(exts)
           ss == ExtFields(exts)
           t == FlattenSeq(ss)
<1>1. n \in Nat /\ DOMAIN exts = 1..n
  OBVIOUS
<1>2. ss \in Seq(Seq(CatField)) /\ Len(ss) = n /\ ss = [i \in DOMAIN exts |-> EncodeExtension(exts[i])]
  BY ExtensionsIn
<1> HIDE DEF n, ss
<1>3. PICK at : Placed(ss, at, t)
  BY <1>2, FlattenPlaces
<1>4. ASSUME NEW i \in 1..n PROVE Len(ss[i]) = 3
  <2>1. ss[i] = EncodeExtension(exts[i])
    BY <1>1, <1>2
  <2> DEFINE f == Field("string", exts[i].name)
             g == Field("u32", exts[i].abi)
             h == Field("string", exts[i].kind)
  <2>2. EncodeExtension(exts[i]) = <<f, g, h>>
    BY DEF EncodeExtension
  <2> HIDE DEF f, g, h
  <2>3. Len(<<f, g, h>>) = 3
    OBVIOUS
  <2> QED BY <2>1, <2>2, <2>3
<1> DEFINE T == {i \in 0..n : at[i] = 3 * i}
<1>5. 0 \in T
  BY <1>1, <1>3 DEF Placed
<1>6. ASSUME NEW i \in 0..(n - 1), i \in T PROVE i + 1 \in T
  <2> DEFINE k == i + 1
  <2>1. k \in 1..n /\ k - 1 = i /\ i \in Nat
    BY <1>1
  <2>2. at[k] = at[k - 1] + Len(ss[k])
    BY <1>2, <1>3, <2>1 DEF Placed
  <2>3. at[k] = 3 * i + 3
    BY <1>4, <1>6, <2>1, <2>2
  <2>4. 3 * i + 3 = 3 * k /\ k \in 0..n
    BY <1>1, <2>1
  <2> HIDE DEF k
  <2>5. k \in T
    BY <2>3, <2>4
  <2> QED BY <2>5 DEF k
<1> HIDE DEF T
<1>7. 0..n \subseteq T
  BY <1>1, <1>5, <1>6, FieldFold!CountTo
<1>8. at[n] = 3 * n
  <2>1. n \in T
    BY <1>1, <1>7
  <2> QED BY <2>1 DEF T
<1>9. Len(t) = at[n]
  BY <1>2, <1>3 DEF Placed
<1> QED BY <1>8, <1>9 DEF n, ss

\* A record that lacks its end is refused.
LEMMA ShortCatalogRefused ==
    ASSUME NEW cat, CatalogFormed(cat), cat.extensions # << >>
    PROVE  ~DecodeCatalog(Front(EncodeCatalog(cat))).ok
<1> DEFINE a == CatHead(cat)
           b == CatRelations(cat)
           c == CatCount(cat)
           exts == cat.extensions
           d == FlattenSeq(ExtFields(exts))
           s == EncodeCatalog(cat)
           rec == Front(s)
           m == Len(exts)
<1>1. a \in Seq(CatField) /\ b \in Seq(CatField) /\ c \in Seq(CatField) /\ d \in Seq(CatField)
  BY CatalogParts
<1>2. Len(a) = 5 /\ Len(c) = 1 /\ s = ((a \o b) \o c) \o d
  BY CatalogParts
<1>3. exts \in Seq(Extension)
  BY CatalogParts
<1>4. m \in Nat /\ m # 0 /\ Len(d) = 3 * m
  <2>1. Len(d) = 3 * m
    BY <1>3, ExtensionsLength
  <2> HIDE DEF d, exts
  <2>2. m \in Nat /\ m # 0
    BY <1>3 DEF exts
  <2> QED BY <2>1, <2>2
<1>5. s \in Seq(CatField)
  BY EncodedIn
<1>6. c = <<Field("u32", m)>>
  BY DEF CatCount
<1> HIDE DEF a, b, c, d, s, m, exts
<1> DEFINE o == 5 + Len(b)
<1>7. Len(s) = (o + 1) + 3 * m /\ Len(b) \in Nat
  <2>1. Len(((a \o b) \o c) \o d) = ((Len(a) + Len(b)) + Len(c)) + Len(d)
    BY <1>1, FourParts
  <2>2. Len(b) \in Nat
    BY <1>1
  <2> QED BY <1>2, <1>4, <2>1, <2>2
<1>8. Len(rec) = Len(s) - 1 /\ \A i \in 1..(Len(s) - 1) : rec[i] = s[i]
  <2>1. Len(s) \in Nat /\ Len(s) >= 1 /\ Len(s) - 1 \in 0..Len(s) /\ 1 \in 1..(Len(s) + 1)
    BY <1>4, <1>7
  <2> DEFINE n == Len(s) - 1
  <2>2. rec = SubSeq(s, 1, n)
    BY DEF Front
  <2> HIDE DEF n
  <2>3. n \in 0..Len(s)
    BY <2>1 DEF n
  <2>4. Len(SubSeq(s, 1, n)) = n /\ \A i \in 1..n : SubSeq(s, 1, n)[i] = s[i]
    BY <1>5, <2>3
  <2>5. Len(rec) = n /\ \A i \in 1..n : rec[i] = s[i]
    BY <2>2, <2>4
  <2> QED BY <2>5 DEF n
<1> HIDE DEF rec
<1>9. Len(rec) \in Nat /\ o + 1 <= Len(rec) /\ Len(rec) < (o + 1) + 3 * m
  BY <1>4, <1>7, <1>8
<1>10. Holds(s, 0, a) /\ Holds(s, 5, b) /\ Holds(s, o, c)
  <2>1. Holds(s, 0, s)
    <3>1. Len(s) \in Nat /\ \A k \in 1..Len(s) : 0 + k = k
      BY <1>5
    <3> QED BY <3>1 DEF Holds
  <2> DEFINE z == 0
  <2>2. Holds(s, z, ((a \o b) \o c) \o d)
    BY <1>2, <2>1
  <2> HIDE DEF z
  <2>3. Holds(s, z, a) /\ Holds(s, z + Len(a), b) /\ Holds(s, z + (Len(a) + Len(b)), c)
    BY <1>1, <2>2, FourParts
  <2>4. Holds(s, 0, a) /\ Holds(s, 0 + Len(a), b) /\ Holds(s, 0 + (Len(a) + Len(b)), c)
    BY <2>3 DEF z
  <2>5. 0 + Len(a) = 5 /\ 0 + (Len(a) + Len(b)) = o
    BY <1>2, <1>7
  <2> QED BY <2>4, <2>5
<1>11. ASSUME NEW off \in Nat, NEW x, Holds(s, off, x), Len(x) \in Nat, off + Len(x) <= Len(rec)
      PROVE  Holds(rec, off, x)
  <2>1. \A k \in 1..Len(x) : off + k \in 1..(Len(s) - 1)
    BY <1>7, <1>8, <1>9, <1>11
  <2>2. \A k \in 1..Len(x) : rec[off + k] = x[k]
    BY <1>8, <1>11, <2>1 DEF Holds
  <2> QED BY <1>9, <1>11, <2>2 DEF Holds
<1>12. Holds(rec, 0, a) /\ Holds(rec, 5, b) /\ Holds(rec, o, c)
  <2>1. Len(b) \in Nat /\ o \in Nat /\ 0 + Len(a) <= Len(rec) /\ 5 + Len(b) <= Len(rec)
        /\ o + Len(c) <= Len(rec) /\ Len(a) \in Nat /\ Len(c) \in Nat
    BY <1>2, <1>7, <1>9
  <2> QED BY <1>10, <1>11, <2>1
<1>13. DecodeRelations(ReadFields(Cursor(rec), <<"magic", "u16", "u64", "u64", "u32">>)) =
         Cur(rec, o, RelationsOut(cat))
  BY <1>12, RelationsDecoded DEF a, b
<1>14. o \in Nat
  BY <1>7
<1> HIDE DEF o
<1> DEFINE u == RelationsOut(cat)
           cur == Cur(rec, o, u)
           wd == <<"string", "u32", "string">>
           count == Cur(rec, o + 1, <<m>>)
           groups == FoldLeft(ReadGroup, Cur(rec, o + 1, << >>), Same(m, wd))
<1>15. ~groups.ok
  <2> DEFINE x == "string"
             y == "u32"
             q == o + 1
  <2>1. q \in Nat /\ q <= Len(rec) /\ q + 3 * m > Len(rec)
    BY <1>4, <1>9, <1>14
  <2> HIDE DEF x, y, q
  <2>2. ~FoldLeft(ReadGroup, Cur(rec, q, << >>), Same(m, <<x, y, x>>)).ok
    BY <1>4, <1>9, <2>1, GroupsNeedFields
  <2> QED BY <2>2 DEF x, y, q
<1>16. ReadField(Cur(rec, o, << >>), "u32") = count
  <2> DEFINE w == "u32"
  <2>1. Holds(rec, o, <<Field(w, m)>>)
    BY <1>12, <1>6
  <2> HIDE DEF w
  <2>2. ReadField(Cur(rec, o, << >>), w) = Cur(rec, o + 1, <<m>>)
    BY <2>1, ReadFirst
  <2> QED BY <2>2 DEF w
<1>17. /\ Fresh(cur) = Cur(rec, o, << >>) /\ ~IsFinished(cur)
       /\ count.ok /\ count.out = <<m>> /\ Fresh(count) = Cur(rec, o + 1, << >>)
  <2>1. cur.offset = o /\ cur.record = rec
    BY CurIn
  <2>2. ~IsFinished(cur)
    <3> HIDE DEF cur
    <3> QED BY <1>9, <1>14, <2>1 DEF IsFinished
  <2>3. count.ok /\ count.out = <<m>>
    BY CurIn
  <2> QED BY <2>2, <2>3, FreshIs
<1> HIDE DEF count, cur, wd
<1>18. ReadGroups(count, wd) = groups
  <2>1. count.out[1] = m
    BY <1>17
  <2> QED BY <1>17, <2>1 DEF ReadGroups, Same
<1> HIDE DEF groups
<1>19. ReadCounted(cur, "u32", wd) = groups
  BY <1>15, <1>16, <1>17, <1>18 DEF ReadCounted, AddGroup
<1>20. DecodeExtensions(cur) = groups
  BY <1>17, <1>19 DEF DecodeExtensions, wd
<1>21. CatalogRead(groups) = [ok |-> FALSE]
  BY <1>15 DEF CatalogRead
<1>22. DecodeCatalog(rec) = [ok |-> FALSE]
  BY <1>13, <1>20, <1>21 DEF DecodeCatalog, cur
<1> QED BY <1>22 DEF rec, s

-----------------------------------------------------------------------------
(* Helpers of the executor. *)

\* A set of numbers that is not empty has a least element.
LEMMA NatMin ==
    ASSUME NEW S, S \subseteq Nat, S # {}
    PROVE  LET m == CHOOSE i \in S : \A j \in S : i <= j
           IN  m \in S /\ \A j \in S : m <= j
<1>1. IsWellFoundedOn(OpToRel(<, Nat), Nat)
  BY NatLessThanWellFounded
<1>2. PICK x \in S : \A y \in S : ~ (<<y, x>> \in OpToRel(<, Nat))
  BY <1>1, WFMin
<1>3. \A y \in S : x <= y
  <2> SUFFICES ASSUME NEW y \in S, ~(x <= y) PROVE FALSE
    OBVIOUS
  <2>1. x \in Nat /\ y \in Nat
    OBVIOUS
  <2>2. y < x
    BY <2>1
  <2>3. <<y, x>> \in OpToRel(<, Nat)
    BY <2>1, <2>2 DEF OpToRel
  <2> QED BY <1>2, <2>3
<1> QED BY <1>3

\* resolve_column_index finds a column of that name if there is one.
LEMMA ColumnFound ==
    ASSUME NEW r, NEW S, r.columns \in Seq(S), NEW i \in 1..Len(r.columns)
    PROVE  LET k == ColumnIndex(r, r.columns[i].name)
           IN  k \in 1..Len(r.columns) /\ r.columns[k].name = r.columns[i].name
<1> DEFINE name == r.columns[i].name
           places == {k \in DOMAIN r.columns : r.columns[k].name = name}
<1>1. DOMAIN r.columns = 1..Len(r.columns) /\ Len(r.columns) \in Nat
  OBVIOUS
<1>2. i \in places /\ places \subseteq Nat
  BY <1>1
<1>3. ColumnIndex(r, name) = CHOOSE k \in places : \A j \in places : k <= j
  BY <1>2 DEF ColumnIndex
<1> HIDE DEF places
<1>4. ColumnIndex(r, name) \in places
  BY <1>2, <1>3, NatMin
<1> QED BY <1>1, <1>4 DEF places

\* ColumnIndex depends on the columns only.
LEMMA ColumnIndexSame ==
    ASSUME NEW r, NEW q, r.columns = q.columns, NEW name
    PROVE  ColumnIndex(r, name) = ColumnIndex(q, name)
  BY DEF ColumnIndex

LEMMA AppendRange ==
    ASSUME NEW S, NEW s \in Seq(S), NEW x \in S
    PROVE  Append(s, x) \in Seq(S) /\ Range(Append(s, x)) = Range(s) \cup {x}
<1> DEFINE t == Append(s, x)
           n == Len(s)
<1>1. n \in Nat /\ DOMAIN s = 1..n
  OBVIOUS
<1>2. t \in Seq(S) /\ Len(t) = n + 1 /\ t[n + 1] = x /\ \A i \in 1..n : t[i] = s[i]
  BY AppendLast
<1> HIDE DEF t, n
<1>3. DOMAIN t = 1..(n + 1) /\ 1..(n + 1) = (1..n) \cup {n + 1}
  BY <1>1, <1>2
<1>4. Range(t) = Range(s) \cup {x}
  BY <1>1, <1>2, <1>3 DEF Range
<1> QED BY <1>2, <1>4 DEF t

\* What IndexesOn has found in the first n relations.
Found(rs, id, on, n) ==
    /\ \A r \in Range(on[n]) : \E j \in 1..n : r = rs[j] /\ rs[j].kind = "index" /\ rs[j].table = id
    /\ \A j \in 1..n : rs[j].kind = "index" /\ rs[j].table = id => rs[j] \in Range(on[n])
Collected(rs, id, on, n) ==
    \A i \in 0..n : on[i] = IF i = 0 THEN << >>
                            ELSE IF rs[i].kind = "index" /\ rs[i].table = id
                            THEN Append(on[i - 1], rs[i]) ELSE on[i - 1]

LEMMA CollectedExists ==
    ASSUME NEW cat, NEW S, cat.relations \in Seq(S), NEW id
    PROVE  \E on : Collected(cat.relations, id, on, Len(cat.relations))
                   /\ IndexesOn(cat, id) = on[Len(cat.relations)]
<1> DEFINE rs == cat.relations
           n == Len(rs)
           val(t, i) == IF i = 0 THEN << >>
                        ELSE IF rs[i].kind = "index" /\ rs[i].table = id
                        THEN Append(t[i - 1], rs[i]) ELSE t[i - 1]
           body(t) == [i \in 0..n |-> val(t, i)]
           m == CHOOSE t : t = body(t)
           Run(t, k) == DOMAIN t = 0..k /\ \A i \in 0..k : t[i] = val(t, i)
           T == {k \in 0..n : \E t : Run(t, k)}
<1>1. n \in Nat
  OBVIOUS
<1>2. IndexesOn(cat, id) = m[n]
  BY DEF IndexesOn
<1> HIDE DEF n, rs
<1>3. 0 \in T
  <2>1. Run([i \in 0..0 |-> << >>], 0)
    <3>1. \A i \in 0..0 : i = 0
      OBVIOUS
    <3> QED BY <3>1
  <2>2. 0 \in 0..n
    BY <1>1
  <2> HIDE DEF Run
  <2>3. \E t : Run(t, 0)
    BY <2>1
  <2> QED BY <2>2, <2>3
<1>4. ASSUME NEW k \in 0..(n - 1), k \in T PROVE k + 1 \in T
  <2>1. PICK t : Run(t, k)
    BY <1>4
  <2> DEFINE u == [i \in 0..(k + 1) |-> IF i = k + 1 THEN val(t, k + 1) ELSE t[i]]
  <2>2. k \in Nat /\ k + 1 \in 0..n
    BY <1>1
  <2>3. DOMAIN u = 0..(k + 1) /\ u[k + 1] = val(t, k + 1) /\ \A i \in 0..k : u[i] = t[i]
    <3> HIDE DEF val
    <3> QED BY <2>2
  <2> HIDE DEF u
  <2>4. ASSUME NEW i \in 0..(k + 1) PROVE u[i] = val(u, i)
    <3>1. i = 0 \/ (i - 1 \in 0..k)
      BY <2>2
    <3>2. i # 0 => u[i - 1] = t[i - 1]
      <4> HIDE DEF val
      <4> QED BY <2>3, <3>1
    <3>3. val(u, i) = val(t, i)
      BY <3>2
    <3>4. CASE i = k + 1
      <4> HIDE DEF val
      <4> QED BY <2>3, <3>3, <3>4
    <3>5. CASE i # k + 1
      <4> HIDE DEF val
      <4>1. i \in 0..k
        BY <2>2, <3>5
      <4> QED BY <2>1, <2>3, <3>3, <4>1
    <3> QED BY <3>4, <3>5
  <2>5. Run(u, k + 1)
    <3> HIDE DEF val
    <3> QED BY <2>3, <2>4
  <2> HIDE DEF Run
  <2> QED BY <2>2, <2>5
<1>5. PICK t : Run(t, n)
  <2>1. n \in T
    <3> HIDE DEF T
    <3>1. 0..n \subseteq T
      BY <1>1, <1>3, <1>4, FieldFold!CountTo
    <3> QED BY <1>1, <3>1
  <2> HIDE DEF Run
  <2> QED BY <2>1
<1> DEFINE g == [i \in 0..n |-> t[i]]
<1>6. g = body(g)
  <2>1. \A i \in 0..n : g[i] = val(g, i)
    <3> TAKE i \in 0..n
    <3>1. i # 0 => i - 1 \in 0..n
      BY <1>1
    <3>2. i # 0 => g[i - 1] = t[i - 1]
      <4> HIDE DEF val
      <4> QED BY <3>1
    <3> HIDE DEF g
    <3>3. val(g, i) = val(t, i)
      BY <3>2
    <3>4. t[i] = val(t, i) /\ g[i] = t[i]
      <4> HIDE DEF val
      <4> QED BY <1>5 DEF g
    <3> HIDE DEF val
    <3> QED BY <3>3, <3>4
  <2> HIDE DEF g, val
  <2>2. g = [i \in 0..n |-> g[i]]
    BY DEF g
  <2> QED BY <2>1, <2>2
<1>7. m = body(m)
  <2> HIDE DEF body, g
  <2> QED BY <1>6
<1> HIDE DEF m
<1>8. \A i \in 0..n : m[i] = val(m, i)
  <2> HIDE DEF val
  <2>1. \A i \in 0..n : m[i] = body(m)[i]
    <3> HIDE DEF body
    <3> QED BY <1>7
  <2> QED BY <2>1
<1>9. Collected(rs, id, m, n)
  BY <1>8 DEF Collected
<1> QED BY <1>2, <1>9 DEF n, rs

\* indexes_on_table gives the indexes on the table and no other relation.
LEMMA IndexesOnFacts ==
    ASSUME NEW cat, NEW S, cat.relations \in Seq(S), NEW id
    PROVE  /\ IndexesOn(cat, id) \in Seq(S)
           /\ \A r \in Range(IndexesOn(cat, id)) : \E j \in 1..Len(cat.relations) :
                r = cat.relations[j] /\ cat.relations[j].kind = "index" /\ cat.relations[j].table = id
           /\ \A j \in 1..Len(cat.relations) :
                cat.relations[j].kind = "index" /\ cat.relations[j].table = id =>
                  cat.relations[j] \in Range(IndexesOn(cat, id))
<1> DEFINE rs == cat.relations
           n == Len(rs)
<1>1. n \in Nat /\ \A i \in 1..n : rs[i] \in S
  OBVIOUS
<1>2. PICK on : Collected(rs, id, on, n) /\ IndexesOn(cat, id) = on[n]
  BY CollectedExists
<1> HIDE DEF n, rs
<1> DEFINE T == {i \in 0..n : on[i] \in Seq(S) /\ Found(rs, id, on, i)}
<1>3. 0 \in T
  <2>1. on[0] = << >> /\ 0 \in 0..n
    BY <1>1, <1>2 DEF Collected
  <2>2. Range(on[0]) = {}
    BY <2>1 DEF Range
  <2>3. Found(rs, id, on, 0)
    BY <2>2 DEF Found
  <2>4. on[0] \in Seq(S)
    BY <2>1
  <2> HIDE DEF Found
  <2>5. 0 \in 0..n
    BY <2>1
  <2> QED BY <2>3, <2>4, <2>5
<1>4. ASSUME NEW i \in 0..(n - 1), i \in T PROVE i + 1 \in T
  <2> DEFINE k == i + 1
  <2>1. k \in 1..n /\ k \in 0..n /\ k - 1 = i /\ k # 0 /\ i \in Nat /\ 1..k = (1..i) \cup {k}
    BY <1>1
  <2> HIDE DEF k
  <2>2. on[k] = IF rs[k].kind = "index" /\ rs[k].table = id THEN Append(on[i], rs[k]) ELSE on[i]
    BY <1>2, <2>1 DEF Collected
  <2>3. on[i] \in Seq(S) /\ Found(rs, id, on, i) /\ rs[k] \in S
    BY <1>1, <1>4, <2>1
  <2>4. CASE rs[k].kind = "index" /\ rs[k].table = id
    <3>1. on[k] = Append(on[i], rs[k])
      BY <2>2, <2>4
    <3> DEFINE s == on[i]
               x == rs[k]
    <3> HIDE DEF s, x
    <3>2. s \in Seq(S) /\ x \in S
      BY <2>3 DEF s, x
    <3>3. Append(s, x) \in Seq(S) /\ Range(Append(s, x)) = Range(s) \cup {x}
      BY <3>2, AppendRange
    <3>4. Range(on[k]) = Range(on[i]) \cup {rs[k]} /\ on[k] \in Seq(S)
      BY <3>1, <3>3 DEF s, x
    <3>5. Found(rs, id, on, k)
      BY <2>1, <2>3, <2>4, <3>4 DEF Found
    <3> QED BY <2>1, <3>4, <3>5 DEF k
  <2>5. CASE ~(rs[k].kind = "index" /\ rs[k].table = id)
    <3>1. on[k] = on[i]
      BY <2>2, <2>5
    <3>2. Found(rs, id, on, k)
      BY <2>1, <2>3, <2>5, <3>1 DEF Found
    <3> QED BY <2>1, <2>3, <3>1, <3>2 DEF k
  <2> QED BY <2>4, <2>5
<1>5. n \in T
  <2> HIDE DEF T
  <2>1. 0..n \subseteq T
    BY <1>1, <1>3, <1>4, FieldFold!CountTo
  <2> QED BY <1>1, <2>1
<1>6. on[n] \in Seq(S) /\ Found(rs, id, on, n)
  BY <1>5
<1> QED BY <1>2, <1>6 DEF Found, n, rs

-----------------------------------------------------------------------------
(***************************************************************************)
(* The invariant.  A state st is "committed" or "work".                    *)
(***************************************************************************)

Rel(st, i) == st.catalog.relations[i]
Count(st) == Len(st.catalog.relations)
TablePlaces(st) == {i \in 1..Count(st) : Rel(st, i).kind = "table"}
IndexPlaces(st) == {i \in 1..Count(st) : Rel(st, i).kind = "index"}

States == [catalog : Catalog, heap : [1..MaxPage -> Seq(Seq(RowField))], index : Indexes]

\* What encode_row has written for a row of these columns.
Fits(type, value) ==
    \/ value.type = "null"
    \/ <<type, value.type>> \in {<<"INT", "int">>, <<"TEXT", "text">>, <<"DOUBLE", "double">>}
RowOf(bytes, columns) ==
    LET row == DecodeRow(bytes).values
    IN  /\ row \in Seq(Stored) /\ bytes = EncodeRow(row) /\ Len(row) = Len(columns)
        /\ \A i \in 1..Len(columns) : Fits(columns[i].type, row[i])

\* The relations are numbered in their order, under different names.
Numbered(st) ==
    /\ st.catalog.nextRelation = Count(st) + 1
    /\ \A i \in 1..Count(st) : Rel(st, i).id = i
    /\ \A i, j \in 1..Count(st) : Rel(st, i).name = Rel(st, j).name => i = j

\* The table of an index, and the place of its column.
TableOf(st, j) == Rel(st, Rel(st, j).table)
KeyColumn(st, j) == ColumnIndex(TableOf(st, j), Rel(st, j).column)

\* Every index is on a column of a table that has keys.
IndexesKeyed(st) ==
    \A j \in IndexPlaces(st) :
        /\ Rel(st, j).table \in TablePlaces(st)
        /\ KeyColumn(st, j) \in 1..Len(TableOf(st, j).columns)
        /\ TableOf(st, j).columns[KeyColumn(st, j)].type \in {"INT", "TEXT"}

\* The stdlib of this build is the only extension there can be.
Stdlib == [name |-> "stdlib", abi |-> 1, kind |-> "static"]
Installed(st) ==
    /\ Len(st.catalog.extensions) <= 1
    /\ \A i \in 1..Len(st.catalog.extensions) : st.catalog.extensions[i] = Stdlib

CatalogOK(st) == CatalogFormed(st.catalog) /\ Numbered(st) /\ IndexesKeyed(st) /\ Installed(st)

\* The pages of the relations are apart, below the counter; the others are empty.
Apart(st) ==
    \A i, j \in 1..Count(st) : i # j => PagesOf(st, Rel(st, i)) \cap PagesOf(st, Rel(st, j)) = {}
Below(st) ==
    \A i \in 1..Count(st) : \A p \in PagesOf(st, Rel(st, i)) : p < st.catalog.nextPage
Unused(st) ==
    /\ \A p \in 1..MaxPage : p >= st.catalog.nextPage => st.heap[p] = << >>
    /\ \A j \in 1..CatalogCapacity : j > Count(st) => st.index[j].entries = {} /\ st.index[j].pages = {}
PagesApart(st) == Apart(st) /\ Below(st) /\ Unused(st)

\* The pages of a table hold rows of its columns.
RowsTyped(st) ==
    \A i \in TablePlaces(st) : \A p \in Range(Rel(st, i).pages) : \A k \in 1..Len(st.heap[p]) :
        RowOf(st.heap[p][k], Rel(st, i).columns)

\* An index has the entries of the rows of its table that have a key, and lacks only
\* those that are pending.
ScanOf(st, j) == FullScan(st, TableOf(st, j))
KeyAt(st, j, r) == RowAt(st, r)[KeyColumn(st, j)]
EntriesRight(st, j) ==
    \A e \in st.index[j].entries :
        e.row \in ScanOf(st, j) /\ e.key = KeyAt(st, j, e.row) /\ HasKey(e.key)
EntriesThere(st, j, pending) ==
    \A r \in ScanOf(st, j) : HasKey(KeyAt(st, j, r)) =>
        \/ [key |-> KeyAt(st, j, r), row |-> r] \in st.index[j].entries
        \/ [index |-> j, row |-> r] \in pending
EntriesMatch(st, pending) ==
    \A j \in IndexPlaces(st) : EntriesRight(st, j) /\ EntriesThere(st, j, pending)

\* What is pending is about a row of the table of an index.
PendingOK(st, pending) ==
    \A x \in pending : x.index \in IndexPlaces(st) /\ x.row \in ScanOf(st, x.index)

StateOK(st, pending) ==
    /\ st \in States /\ CatalogOK(st) /\ PagesApart(st) /\ RowsTyped(st)
    /\ EntriesMatch(st, pending) /\ PendingOK(st, pending)

\* A later state has every relation and every row of an earlier one.
SameRelation(old, new) ==
    /\ new.id = old.id /\ new.name = old.name /\ new.kind = old.kind /\ new.columns = old.columns
    /\ new.table = old.table /\ new.column = old.column
    /\ Range(old.pages) \subseteq Range(new.pages)
Extends(old, new) ==
    /\ Count(old) <= Count(new)
    /\ \A i \in 1..Count(old) : SameRelation(Rel(old, i), Rel(new, i))
    /\ \A p \in 1..MaxPage :
         /\ Len(old.heap[p]) <= Len(new.heap[p])
         /\ \A k \in 1..Len(old.heap[p]) : new.heap[p][k] = old.heap[p][k]

Todo == Seq([index : 1..CatalogCapacity, row : RowId])

SqlInv ==
    /\ StateOK(committed, {}) /\ StateOK(work, Range(todo)) /\ Extends(committed, work)
    /\ todo \in Todo
    /\ pc \in {"idle", "entries"}
    /\ pc = "idle" => work = committed /\ todo = << >>

-----------------------------------------------------------------------------
(* What a state of the right type has. *)

LEMMA SeqParts ==
    ASSUME NEW S, NEW s \in Seq(S)
    PROVE  /\ Len(s) \in Nat /\ DOMAIN s = 1..Len(s) /\ \A i \in 1..Len(s) : s[i] \in S
           /\ Range(s) \subseteq S
<1>1. Len(s) \in Nat /\ DOMAIN s = 1..Len(s) /\ \A i \in 1..Len(s) : s[i] \in S
  OBVIOUS
<1> QED BY <1>1 DEF Range

LEMMA StateTypes ==
    ASSUME NEW st \in States
    PROVE  /\ Count(st) \in Nat /\ st.catalog \in Catalog /\ st.catalog.relations \in Seq(Relation)
           /\ DOMAIN st.catalog.relations = 1..Count(st)
           /\ st.catalog.nextRelation \in Nat /\ st.catalog.nextPage \in 1..(MaxPage + 1)
           /\ st.catalog.extensions \in Seq(Extension)
           /\ st.heap \in [1..MaxPage -> Seq(Seq(RowField))] /\ st.index \in Indexes
           /\ \A i \in 1..Count(st) : Rel(st, i) \in Relation
<1>1. st.catalog \in Catalog
  BY DEF States
<1>2. st.heap \in [1..MaxPage -> Seq(Seq(RowField))] /\ st.index \in Indexes
  BY DEF States
<1>3. /\ st.catalog.relations \in Seq(Relation) /\ st.catalog.extensions \in Seq(Extension)
      /\ st.catalog.nextRelation \in Nat /\ st.catalog.nextPage \in 1..(MaxPage + 1)
  BY <1>1 DEF Catalog
<1> DEFINE rs == st.catalog.relations
<1> HIDE DEF rs
<1>4. rs \in Seq(Relation)
  BY <1>3 DEF rs
<1>5. Len(rs) \in Nat /\ DOMAIN rs = 1..Len(rs) /\ \A i \in 1..Len(rs) : rs[i] \in Relation
  BY <1>4
<1> QED BY <1>1, <1>2, <1>3, <1>5 DEF rs, Count, Rel

LEMMA RelationTypes ==
    ASSUME NEW r \in Relation
    PROVE  /\ r.id \in 1..CatalogCapacity /\ r.name \in Names /\ r.kind \in {"table", "index"}
           /\ r.pages \in Seq(1..MaxPage) /\ r.columns \in Seq(Column)
           /\ r.table \in 0..CatalogCapacity /\ r.root \in 0..MaxPage
           /\ r.column \in ColumnNames \cup {""}
           /\ Range(r.pages) \subseteq 1..MaxPage /\ DOMAIN r.pages = 1..Len(r.pages)
           /\ Len(r.pages) \in Nat /\ DOMAIN r.columns = 1..Len(r.columns) /\ Len(r.columns) \in Nat
<1>1. /\ r.id \in 1..CatalogCapacity /\ r.name \in Names /\ r.kind \in {"table", "index"}
      /\ r.pages \in Seq(1..MaxPage) /\ r.columns \in Seq(Column)
      /\ r.table \in 0..CatalogCapacity /\ r.root \in 0..MaxPage
      /\ r.column \in ColumnNames \cup {""}
  BY DEF Relation
<1>2. Range(r.pages) \subseteq 1..MaxPage /\ DOMAIN r.pages = 1..Len(r.pages) /\ Len(r.pages) \in Nat
  BY <1>1, SeqParts
<1>3. DOMAIN r.columns = 1..Len(r.columns) /\ Len(r.columns) \in Nat
  BY <1>1, SeqParts
<1> QED BY <1>1, <1>2, <1>3

LEMMA HeapTypes ==
    ASSUME NEW st \in States, NEW p \in 1..MaxPage
    PROVE  /\ st.heap[p] \in Seq(Seq(RowField)) /\ Len(st.heap[p]) \in Nat
           /\ DOMAIN st.heap[p] = 1..Len(st.heap[p])
<1>1. st.heap[p] \in Seq(Seq(RowField))
  BY StateTypes
<1> DEFINE s == st.heap[p]
<1> HIDE DEF s
<1>2. s \in Seq(Seq(RowField))
  BY <1>1 DEF s
<1>3. Len(s) \in Nat /\ DOMAIN s = 1..Len(s)
  BY <1>2
<1> QED BY <1>1, <1>3 DEF s

LEMMA ScanFacts ==
    ASSUME NEW st, NEW r, NEW x
    PROVE  x \in FullScan(st, r) <=>
             /\ x \in [page : Range(r.pages), slot : 1..MaxRows] /\ x.slot <= Len(st.heap[x.page])
  BY DEF FullScan

\* The row at an address of a table is one of its columns.
LEMMA RowsAre ==
    ASSUME NEW st \in States, RowsTyped(st), NEW i \in TablePlaces(st),
           NEW x \in FullScan(st, Rel(st, i))
    PROVE  /\ x.page \in 1..MaxPage /\ x.page \in Range(Rel(st, i).pages)
           /\ x.slot \in 1..Len(st.heap[x.page]) /\ x \in RowId
           /\ RowOf(st.heap[x.page][x.slot], Rel(st, i).columns)
<1>1. x \in [page : Range(Rel(st, i).pages), slot : 1..MaxRows] /\ x.slot <= Len(st.heap[x.page])
  BY ScanFacts
<1>2. x.page \in Range(Rel(st, i).pages) /\ x.slot \in 1..MaxRows
  BY <1>1
<1>3. i \in 1..Count(st)
  BY DEF TablePlaces
<1>4. x.page \in 1..MaxPage
  BY <1>2, <1>3, StateTypes, RelationTypes
<1>5. Len(st.heap[x.page]) \in Nat
  BY <1>4, HeapTypes
<1>6. x.slot \in 1..Len(st.heap[x.page]) /\ x.slot \in Nat
  BY <1>1, <1>2, <1>5, Bounds
<1>7. x \in RowId
  BY <1>1, <1>4, <1>6 DEF RowId
<1> QED BY <1>2, <1>4, <1>6, <1>7 DEF RowsTyped

\* What a row that is there has.
LEMMA RowValues ==
    ASSUME NEW bytes, NEW columns, RowOf(bytes, columns)
    PROVE  LET row == DecodeRow(bytes).values
           IN  /\ DecodeRow(bytes).ok /\ row \in Seq(Stored) /\ Len(row) = Len(columns)
               /\ \A i \in 1..Len(columns) : Fits(columns[i].type, row[i]) /\ row[i] \in Stored
<1> DEFINE row == DecodeRow(bytes).values
<1>1. /\ row \in Seq(Stored) /\ bytes = EncodeRow(row) /\ Len(row) = Len(columns)
      /\ \A i \in 1..Len(columns) : Fits(columns[i].type, row[i])
  BY DEF RowOf
<1> HIDE DEF row
<1>2. DecodeRow(EncodeRow(row)).ok
  BY <1>1, RowReadsBack
<1>3. \A i \in 1..Len(row) : row[i] \in Stored
  <2>1. row \in Seq(Stored)
    BY <1>1
  <2> QED BY <2>1
<1>4. DecodeRow(bytes).ok
  BY <1>1, <1>2
<1>5. \A i \in 1..Len(columns) : Fits(columns[i].type, row[i]) /\ row[i] \in Stored
  BY <1>1, <1>3
<1> QED BY <1>1, <1>4, <1>5 DEF row

-----------------------------------------------------------------------------
(* Earlier and later states. *)

LEMMA ExtendsSelf == ASSUME NEW st \in States PROVE Extends(st, st)
<1>1. Count(st) <= Count(st)
  BY StateTypes
<1>2. \A i \in 1..Count(st) : SameRelation(Rel(st, i), Rel(st, i))
  BY DEF SameRelation
<1>3. \A p \in 1..MaxPage : Len(st.heap[p]) <= Len(st.heap[p])
  BY HeapTypes
<1> QED BY <1>1, <1>2, <1>3 DEF Extends

LEMMA ExtendsTrans ==
    ASSUME NEW a \in States, NEW b \in States, NEW c \in States, Extends(a, b), Extends(b, c)
    PROVE  Extends(a, c)
<1>1. Count(a) \in Nat /\ Count(b) \in Nat /\ Count(c) \in Nat /\ Count(a) <= Count(b) /\ Count(b) <= Count(c)
  BY StateTypes DEF Extends
<1>2. Count(a) <= Count(c)
  BY <1>1
<1>3. ASSUME NEW i \in 1..Count(a) PROVE SameRelation(Rel(a, i), Rel(c, i))
  <2>1. i \in 1..Count(b)
    BY <1>1
  <2>2. SameRelation(Rel(a, i), Rel(b, i)) /\ SameRelation(Rel(b, i), Rel(c, i))
    BY <2>1 DEF Extends
  <2> QED BY <2>2 DEF SameRelation
<1>4. ASSUME NEW p \in 1..MaxPage
      PROVE  /\ Len(a.heap[p]) <= Len(c.heap[p])
             /\ \A k \in 1..Len(a.heap[p]) : c.heap[p][k] = a.heap[p][k]
  <2> DEFINE s == a.heap[p]
             t == b.heap[p]
             u == c.heap[p]
  <2>1. Len(s) \in Nat /\ Len(t) \in Nat /\ Len(u) \in Nat
    BY HeapTypes
  <2>2. /\ Len(s) <= Len(t) /\ \A k \in 1..Len(s) : t[k] = s[k]
        /\ Len(t) <= Len(u) /\ \A k \in 1..Len(t) : u[k] = t[k]
    BY DEF Extends
  <2> HIDE DEF s, t, u
  <2>3. Len(s) <= Len(u) /\ \A k \in 1..Len(s) : k \in 1..Len(t)
    BY <2>1, <2>2
  <2>4. \A k \in 1..Len(s) : u[k] = s[k]
    BY <2>2, <2>3
  <2> QED BY <2>3, <2>4 DEF s, u
<1> QED BY <1>2, <1>3, <1>4 DEF Extends

\* The places of the relations stay.
LEMMA ExtendsPlaces ==
    ASSUME NEW old \in States, NEW new \in States, Extends(old, new)
    PROVE  /\ 1..Count(old) \subseteq 1..Count(new)
           /\ \A i \in 1..Count(old) : i \in TablePlaces(old) <=> i \in TablePlaces(new)
           /\ \A i \in 1..Count(old) : i \in IndexPlaces(old) <=> i \in IndexPlaces(new)
           /\ TablePlaces(old) \subseteq TablePlaces(new) /\ IndexPlaces(old) \subseteq IndexPlaces(new)
<1>1. Count(old) \in Nat /\ Count(new) \in Nat /\ Count(old) <= Count(new)
  BY StateTypes DEF Extends
<1>2. \A i \in 1..Count(old) : i \in 1..Count(new)
  BY <1>1
<1>3. \A i \in 1..Count(old) : Rel(new, i).kind = Rel(old, i).kind
  BY DEF Extends, SameRelation
<1> QED BY <1>2, <1>3 DEF TablePlaces, IndexPlaces

\* The rows stay.
LEMMA ExtendsRows ==
    ASSUME NEW old \in States, NEW new \in States, Extends(old, new), NEW i \in 1..Count(old),
           NEW x \in FullScan(old, Rel(old, i))
    PROVE  x \in FullScan(new, Rel(new, i)) /\ RowAt(new, x) = RowAt(old, x)
<1>1. x \in [page : Range(Rel(old, i).pages), slot : 1..MaxRows] /\ x.slot <= Len(old.heap[x.page])
  BY ScanFacts
<1>2. x.page \in Range(Rel(old, i).pages) /\ x.slot \in 1..MaxRows
  BY <1>1
<1>3. SameRelation(Rel(old, i), Rel(new, i))
  BY DEF Extends
<1>4. x \in [page : Range(Rel(new, i).pages), slot : 1..MaxRows]
  BY <1>1, <1>3 DEF SameRelation
<1>5. x.page \in 1..MaxPage
  BY <1>2, StateTypes, RelationTypes
<1> DEFINE s == old.heap[x.page]
           t == new.heap[x.page]
           k == x.slot
<1>6. Len(s) \in Nat /\ Len(t) \in Nat /\ Len(s) <= Len(t) /\ k \in 1..MaxRows /\ k <= Len(s)
  BY <1>1, <1>2, <1>5, HeapTypes DEF Extends
<1>7. \A l \in 1..Len(s) : t[l] = s[l]
  BY <1>5 DEF Extends
<1> HIDE DEF s, t, k
<1>8. k \in 1..Len(s) /\ k <= Len(t)
  BY <1>6, Bounds
<1>9. t[k] = s[k]
  BY <1>7, <1>8
<1>10. x \in FullScan(new, Rel(new, i))
  BY <1>4, <1>8, ScanFacts DEF t, k
<1>11. RowAt(new, x) = RowAt(old, x)
  BY <1>9 DEF RowAt, s, t, k
<1> QED BY <1>10, <1>11

\* An index stays on its column of its table.
LEMMA ExtendsIndex ==
    ASSUME NEW old \in States, NEW new \in States, IndexesKeyed(old), Extends(old, new),
           NEW j \in IndexPlaces(old)
    PROVE  /\ Rel(new, j).table = Rel(old, j).table /\ Rel(new, j).table \in TablePlaces(old)
           /\ TableOf(new, j).columns = TableOf(old, j).columns
           /\ KeyColumn(new, j) = KeyColumn(old, j)
           /\ ScanOf(old, j) \subseteq ScanOf(new, j)
           /\ \A r \in ScanOf(old, j) : KeyAt(new, j, r) = KeyAt(old, j, r)
           /\ KeyColumn(new, j) \in 1..Len(TableOf(new, j).columns)
           /\ TableOf(new, j).columns[KeyColumn(new, j)].type \in {"INT", "TEXT"}
<1>1. j \in 1..Count(old)
  BY DEF IndexPlaces
<1>2. Rel(new, j).table = Rel(old, j).table /\ Rel(new, j).column = Rel(old, j).column
  BY <1>1 DEF Extends, SameRelation
<1>3. Rel(old, j).table \in TablePlaces(old) /\ Rel(old, j).table \in 1..Count(old)
  BY DEF IndexesKeyed, TablePlaces
<1>4. TableOf(new, j).columns = TableOf(old, j).columns
  BY <1>2, <1>3 DEF Extends, SameRelation, TableOf
<1>5. KeyColumn(new, j) = KeyColumn(old, j)
  BY <1>2, <1>4, ColumnIndexSame DEF KeyColumn
<1>6. \A r \in ScanOf(old, j) : r \in ScanOf(new, j) /\ RowAt(new, r) = RowAt(old, r)
  BY <1>2, <1>3, ExtendsRows DEF ScanOf, TableOf
<1>7. \A r \in ScanOf(old, j) : KeyAt(new, j, r) = KeyAt(old, j, r)
  BY <1>5, <1>6 DEF KeyAt
<1>8. /\ KeyColumn(old, j) \in 1..Len(TableOf(old, j).columns)
      /\ TableOf(old, j).columns[KeyColumn(old, j)].type \in {"INT", "TEXT"}
  BY DEF IndexesKeyed
<1> QED BY <1>2, <1>3, <1>4, <1>5, <1>6, <1>7, <1>8

LEMMA KeyedKept ==
    ASSUME NEW old \in States, NEW new \in States, IndexesKeyed(old), Extends(old, new),
           \A j \in IndexPlaces(new) : j \in 1..Count(old)
    PROVE  IndexesKeyed(new)
<1> SUFFICES ASSUME NEW j \in IndexPlaces(new)
             PROVE  /\ Rel(new, j).table \in TablePlaces(new)
                    /\ KeyColumn(new, j) \in 1..Len(TableOf(new, j).columns)
                    /\ TableOf(new, j).columns[KeyColumn(new, j)].type \in {"INT", "TEXT"}
  BY DEF IndexesKeyed
<1>1. j \in IndexPlaces(old)
  BY ExtendsPlaces
<1> QED BY <1>1, ExtendsIndex, ExtendsPlaces

\* An index keeps its entries, and those that are new are right.
EntriesGrow(old, new, j) ==
    /\ old.index[j].entries \subseteq new.index[j].entries
    /\ \A e \in new.index[j].entries : e \notin old.index[j].entries =>
         e.row \in ScanOf(new, j) /\ e.key = KeyAt(new, j, e.row) /\ HasKey(e.key)
\* What has no entry yet is pending.
PendingGrow(old, new, j, before, pending) ==
    /\ \A r \in ScanOf(new, j) : r \notin ScanOf(old, j) => [index |-> j, row |-> r] \in pending
    /\ \A r \in ScanOf(old, j) : [index |-> j, row |-> r] \in before =>
         \/ [index |-> j, row |-> r] \in pending
         \/ HasKey(KeyAt(old, j, r)) => [key |-> KeyAt(old, j, r), row |-> r] \in new.index[j].entries

LEMMA EntriesKept ==
    ASSUME NEW old \in States, NEW new \in States, IndexesKeyed(old), Extends(old, new),
           NEW j \in IndexPlaces(old), NEW before, NEW pending,
           EntriesRight(old, j), EntriesThere(old, j, before),
           EntriesGrow(old, new, j), PendingGrow(old, new, j, before, pending)
    PROVE  EntriesRight(new, j) /\ EntriesThere(new, j, pending)
<1>1. /\ ScanOf(old, j) \subseteq ScanOf(new, j)
      /\ \A r \in ScanOf(old, j) : KeyAt(new, j, r) = KeyAt(old, j, r)
  BY ExtendsIndex
<1>2. EntriesRight(new, j)
  BY <1>1 DEF EntriesRight, EntriesGrow
<1>3. ASSUME NEW r \in ScanOf(new, j), HasKey(KeyAt(new, j, r))
      PROVE  \/ [key |-> KeyAt(new, j, r), row |-> r] \in new.index[j].entries
             \/ [index |-> j, row |-> r] \in pending
  <2>1. CASE r \notin ScanOf(old, j)
    BY <2>1 DEF PendingGrow
  <2>2. CASE r \in ScanOf(old, j)
    <3>1. KeyAt(new, j, r) = KeyAt(old, j, r)
      BY <1>1, <2>2
    <3>2. \/ [key |-> KeyAt(old, j, r), row |-> r] \in old.index[j].entries
          \/ [index |-> j, row |-> r] \in before
      BY <1>3, <2>2, <3>1 DEF EntriesThere
    <3>3. CASE [key |-> KeyAt(old, j, r), row |-> r] \in old.index[j].entries
      BY <3>1, <3>3 DEF EntriesGrow
    <3>4. CASE [index |-> j, row |-> r] \in before
      BY <1>3, <2>2, <3>1, <3>4 DEF PendingGrow
    <3> QED BY <3>2, <3>3, <3>4
  <2> QED BY <2>1, <2>2
<1> QED BY <1>2, <1>3 DEF EntriesThere

LEMMA PendingKept ==
    ASSUME NEW old \in States, NEW new \in States, IndexesKeyed(old), Extends(old, new),
           NEW pending, PendingOK(old, pending)
    PROVE  PendingOK(new, pending)
<1> SUFFICES ASSUME NEW x \in pending PROVE x.index \in IndexPlaces(new) /\ x.row \in ScanOf(new, x.index)
  BY DEF PendingOK
<1>1. x.index \in IndexPlaces(old) /\ x.row \in ScanOf(old, x.index)
  BY DEF PendingOK
<1> QED BY <1>1, ExtendsPlaces, ExtendsIndex

-----------------------------------------------------------------------------
(* Relations by their numbers. *)

LEMMA RelationsAre ==
    ASSUME NEW st \in States
    PROVE  /\ Range(st.catalog.relations) = {Rel(st, i) : i \in 1..Count(st)}
           /\ Tables(st.catalog) = {Rel(st, i) : i \in TablePlaces(st)}
<1>1. DOMAIN st.catalog.relations = 1..Count(st)
  BY StateTypes
<1>2. Range(st.catalog.relations) = {Rel(st, i) : i \in 1..Count(st)}
  BY <1>1 DEF Range, Rel
<1> QED BY <1>2 DEF Tables, TablePlaces

LEMMA ById ==
    ASSUME NEW st \in States, Numbered(st), NEW i \in 1..Count(st)
    PROVE  RelationById(st.catalog, i) = Rel(st, i)
<1>1. Rel(st, i) \in Range(st.catalog.relations) /\ Rel(st, i).id = i
  BY RelationsAre DEF Numbered
<1>2. \A r \in Range(st.catalog.relations) : r.id = i => r = Rel(st, i)
  BY RelationsAre DEF Numbered
<1> QED BY <1>1, <1>2 DEF RelationById

\* The size of the catalog is at least its number of relations.
SizeLeast(p, i, x) == x \in Nat /\ x >= i
SizeFold == INSTANCE FoldProofs WITH Op <- SizeWith, Inv <- SizeLeast

LEMMA SizeFoldIs == \A c, s : SizeFold!Fold(c, s) = FoldLeft(SizeWith, c, s)
  BY DEF SizeFold!Fold, FoldLeft, MapThenFoldSet, SizeFold!MapThenFoldSet,
         Max, SizeFold!Greatest

LEMMA FitsFew ==
    ASSUME NEW cat, NEW S, cat.relations \in Seq(S), cat.extensions \in Seq(Extension),
           \A r \in S : Len(r.pages) \in Nat, CatalogFits(cat)
    PROVE  Len(cat.relations) <= CatalogCapacity
<1> DEFINE rs == cat.relations
           base == Len(cat.extensions)
           p == 0
<1>1. rs \in Seq(S) /\ cat.extensions \in Seq(Extension)
  OBVIOUS
<1>2. base \in Nat
  BY <1>1, SeqParts
<1>3. Len(rs) \in Nat /\ \A i \in 1..Len(rs) : rs[i] \in S
  BY <1>1, SeqParts
<1>4. FoldLeft(SizeWith, base, rs) <= CatalogCapacity
  BY DEF CatalogFits
<1> HIDE DEF rs, base, p
<1>5. SizeLeast(p, 0, base)
  BY <1>2 DEF SizeLeast
<1>6. ASSUME NEW i \in 1..Len(rs), NEW x, SizeLeast(p, i - 1, x) PROVE SizeLeast(p, i, SizeWith(x, rs[i]))
  <2>1. Len(rs[i].pages) \in Nat
    BY <1>3
  <2>2. x \in Nat /\ x >= i - 1
    BY <1>6 DEF SizeLeast
  <2> DEFINE l == Len(rs[i].pages)
  <2> HIDE DEF l
  <2>3. l \in Nat /\ SizeWith(x, rs[i]) = x + 1 + l
    BY <2>1 DEF SizeWith, l
  <2> QED BY <1>3, <2>2, <2>3 DEF SizeLeast
<1>7. rs \in Seq(S)
  BY <1>1 DEF rs
<1>8. SizeLeast(p, Len(rs), SizeFold!Fold(base, rs))
  BY <1>5, <1>6, <1>7, SizeFold!FoldKeeps
<1>9. FoldLeft(SizeWith, base, rs) \in Nat /\ FoldLeft(SizeWith, base, rs) >= Len(rs)
  BY <1>8, SizeFoldIs DEF SizeLeast
<1> QED BY <1>3, <1>9, <1>4, Bounds DEF rs

-----------------------------------------------------------------------------
(* A new relation. *)

LEMMA IndexType ==
    ASSUME NEW st \in States, NEW j \in 1..CatalogCapacity
    PROVE  st.index[j] \in Index /\ st.index[j].pages \subseteq 1..MaxPage
           /\ st.index[j].entries \subseteq IndexEntry
<1>1. st.index \in [1..CatalogCapacity -> Index]
  BY StateTypes DEF Indexes
<1>2. st.index[j] \in Index
  BY <1>1
<1> QED BY <1>2 DEF Index

LEMMA PagesOfType ==
    ASSUME NEW st \in States, NEW i \in 1..Count(st)
    PROVE  PagesOf(st, Rel(st, i)) \subseteq 1..MaxPage
<1>1. Rel(st, i) \in Relation
  BY StateTypes
<1>2. Range(Rel(st, i).pages) \subseteq 1..MaxPage /\ Rel(st, i).id \in 1..CatalogCapacity
  BY <1>1, RelationTypes
<1>3. st.index[Rel(st, i).id].pages \subseteq 1..MaxPage
  BY <1>2, IndexType
<1> QED BY <1>2, <1>3 DEF PagesOf

LEMMA WithRelationFits ==
    ASSUME NEW cat \in Catalog, NEW r, Len(r.pages) \in Nat, CatalogFits(WithRelation(cat, r))
    PROVE  Len(cat.relations) + 1 <= CatalogCapacity
<1> DEFINE new == WithRelation(cat, r)
           S == Relation \cup {r}
           rs == cat.relations
<1>1. rs \in Seq(Relation) /\ cat.extensions \in Seq(Extension)
  BY DEF Catalog
<1>2. new.relations = Append(rs, r) /\ new.extensions = cat.extensions
  BY DEF WithRelation, Catalog
<1>3. \A q \in S : Len(q.pages) \in Nat
  BY RelationTypes
<1>4. rs \in Seq(S) /\ r \in S
  <2> HIDE DEF rs
  <2> QED BY <1>1
<1> HIDE DEF S, rs, new
<1>5. Append(rs, r) \in Seq(S) /\ Len(Append(rs, r)) = Len(rs) + 1
  BY <1>4, AppendLast
<1>6. Len(new.relations) <= CatalogCapacity
  <2>1. new.relations \in Seq(S) /\ new.extensions \in Seq(Extension) /\ CatalogFits(new)
    BY <1>1, <1>2, <1>5 DEF new
  <2> QED BY <1>3, <2>1, FitsFew
<1> QED BY <1>2, <1>5, <1>6 DEF rs

LEMMA WithRelationFacts ==
    ASSUME NEW cat \in Catalog, NEW r \in Relation, cat.nextPage <= MaxPage
    PROVE  LET new == WithRelation(cat, r)
               n == Len(cat.relations)
           IN  /\ new \in Catalog /\ Len(new.relations) = n + 1
               /\ \A i \in 1..n : new.relations[i] = cat.relations[i]
               /\ new.relations[n + 1] = r /\ new.nextRelation = cat.nextRelation + 1
               /\ new.nextPage = cat.nextPage + 1 /\ new.extensions = cat.extensions
<1> DEFINE new == WithRelation(cat, r)
           rs == cat.relations
           n == Len(rs)
           ts == Append(rs, r)
<1>1. /\ rs \in Seq(Relation) /\ cat.extensions \in Seq(Extension)
      /\ cat.nextRelation \in Nat /\ cat.nextPage \in 1..(MaxPage + 1)
  BY DEF Catalog
<1>2. /\ new.relations = ts /\ new.extensions = cat.extensions
      /\ new.nextRelation = cat.nextRelation + 1 /\ new.nextPage = cat.nextPage + 1
  BY DEF WithRelation, Catalog
<1>3. ts \in Seq(Relation) /\ Len(ts) = n + 1 /\ ts[n + 1] = r /\ \A i \in 1..n : ts[i] = rs[i]
  <2> HIDE DEF rs
  <2> QED BY <1>1, AppendLast
<1>4. cat.nextPage + 1 \in 1..(MaxPage + 1) /\ cat.nextRelation + 1 \in Nat
  BY <1>1, Bounds
<1> HIDE DEF ts
<1>5. new \in Catalog
  <2>1. new = [cat EXCEPT !.nextRelation = cat.nextRelation + 1, !.nextPage = cat.nextPage + 1,
                          !.relations = ts]
    BY DEF WithRelation, ts
  <2> QED BY <1>3, <1>4, <2>1 DEF Catalog
<1> HIDE DEF new
<1> QED BY <1>2, <1>3, <1>5 DEF new, n, rs

\* "new" is "st" with the relation r at the end of the catalog, which takes a page.
AddsRelation(st, new, r) ==
    /\ new \in States /\ new.catalog = WithRelation(st.catalog, r) /\ new.heap = st.heap
    /\ \A j \in 1..CatalogCapacity : j # Count(st) + 1 => new.index[j] = st.index[j]
    /\ WellFormed(r) /\ r.id = Count(st) + 1 /\ st.catalog.nextPage <= MaxPage
    /\ PagesOf(new, r) = {st.catalog.nextPage}
    /\ RelationsNamed(st.catalog, r.name) = {}

LEMMA AddsFacts ==
    ASSUME NEW st \in States, NEW new, NEW r, AddsRelation(st, new, r)
    PROVE  /\ Count(new) = Count(st) + 1 /\ Count(st) \in Nat
           /\ \A i \in 1..Count(st) : Rel(new, i) = Rel(st, i)
           /\ Rel(new, Count(st) + 1) = r /\ Count(st) + 1 \in 1..CatalogCapacity
           /\ new.catalog.nextRelation = st.catalog.nextRelation + 1
           /\ new.catalog.nextPage = st.catalog.nextPage + 1
           /\ new.catalog.extensions = st.catalog.extensions
           /\ \A i \in 1..Count(new) : i \in 1..Count(st) \/ i = Count(st) + 1
           /\ Extends(st, new)
<1>1. r \in Relation /\ st.catalog \in Catalog /\ st.catalog.nextPage <= MaxPage /\ Count(st) \in Nat
  BY StateTypes DEF AddsRelation, WellFormed
<1>2. LET c == WithRelation(st.catalog, r)
          n == Len(st.catalog.relations)
      IN  /\ Len(c.relations) = n + 1
          /\ \A i \in 1..n : c.relations[i] = st.catalog.relations[i]
          /\ c.relations[n + 1] = r /\ c.nextRelation = st.catalog.nextRelation + 1
          /\ c.nextPage = st.catalog.nextPage + 1 /\ c.extensions = st.catalog.extensions
  BY <1>1, WithRelationFacts
<1>3. /\ Count(new) = Count(st) + 1
      /\ \A i \in 1..Count(st) : Rel(new, i) = Rel(st, i)
      /\ Rel(new, Count(st) + 1) = r
      /\ new.catalog.nextRelation = st.catalog.nextRelation + 1
      /\ new.catalog.nextPage = st.catalog.nextPage + 1
      /\ new.catalog.extensions = st.catalog.extensions
  BY <1>2 DEF AddsRelation, Count, Rel
<1>4. Count(st) + 1 \in 1..CatalogCapacity
  BY <1>1, RelationTypes DEF AddsRelation
<1>5. \A i \in 1..Count(new) : i \in 1..Count(st) \/ i = Count(st) + 1
  BY <1>1, <1>3
<1>6. Extends(st, new)
  <2>1. Count(st) <= Count(new)
    BY <1>1, <1>3
  <2>2. \A i \in 1..Count(st) : SameRelation(Rel(st, i), Rel(new, i))
    BY <1>3 DEF SameRelation
  <2>3. \A p \in 1..MaxPage : new.heap[p] = st.heap[p] /\ Len(st.heap[p]) <= Len(st.heap[p])
    BY HeapTypes DEF AddsRelation
  <2> QED BY <2>1, <2>2, <2>3 DEF Extends
<1> QED BY <1>1, <1>3, <1>4, <1>5, <1>6

\* The catalog and the pages after it.
LEMMA AddsCatalog ==
    ASSUME NEW st, NEW pending, StateOK(st, pending), NEW new, NEW r, AddsRelation(st, new, r)
    PROVE  CatalogFormed(new.catalog) /\ Numbered(new) /\ Installed(new)
<1>1. st \in States /\ CatalogFormed(st.catalog) /\ Numbered(st) /\ Installed(st)
  BY DEF StateOK, CatalogOK
<1> DEFINE n == Count(st)
<1>2. /\ Count(new) = n + 1 /\ n \in Nat
      /\ \A i \in 1..n : Rel(new, i) = Rel(st, i)
      /\ Rel(new, n + 1) = r
      /\ new.catalog.nextRelation = st.catalog.nextRelation + 1
      /\ new.catalog.extensions = st.catalog.extensions
      /\ \A i \in 1..Count(new) : i \in 1..n \/ i = n + 1
  BY <1>1, AddsFacts
<1>3. new.catalog \in Catalog /\ WellFormed(r) /\ r.id = n + 1
  BY StateTypes DEF AddsRelation
<1>4. \A i \in 1..n : r.name # Rel(st, i).name
  <2>1. \A q \in Range(st.catalog.relations) : q.name # r.name
    BY DEF AddsRelation, RelationsNamed
  <2> QED BY <1>1, <2>1, RelationsAre
<1> HIDE DEF n
<1>5. CatalogFormed(new.catalog)
  <2>1. \A i \in 1..Count(new) : WellFormed(Rel(new, i))
    <3>1. \A i \in 1..n : WellFormed(Rel(st, i))
      BY <1>1 DEF CatalogFormed, n, Count, Rel
    <3> QED BY <1>2, <1>3, <3>1
  <2> QED BY <1>3, <2>1 DEF CatalogFormed, Count, Rel
<1>6. Numbered(new)
  <2>1. /\ st.catalog.nextRelation = n + 1
        /\ \A i \in 1..n : Rel(st, i).id = i
        /\ \A i, j \in 1..n : Rel(st, i).name = Rel(st, j).name => i = j
    BY <1>1 DEF Numbered, n
  <2>2. new.catalog.nextRelation = Count(new) + 1
    BY <1>2, <2>1
  <2>3. \A i \in 1..Count(new) : Rel(new, i).id = i
    BY <1>2, <1>3, <2>1
  <2>4. \A i, j \in 1..Count(new) : Rel(new, i).name = Rel(new, j).name => i = j
    BY <1>2, <1>4, <2>1
  <2> QED BY <2>2, <2>3, <2>4 DEF Numbered
<1>7. Installed(new)
  BY <1>1, <1>2 DEF Installed
<1> QED BY <1>5, <1>6, <1>7

LEMMA AddsPages ==
    ASSUME NEW st, NEW pending, StateOK(st, pending), NEW new, NEW r, AddsRelation(st, new, r)
    PROVE  PagesApart(new)
<1>1. st \in States /\ Apart(st) /\ Below(st) /\ Unused(st) /\ CatalogFormed(st.catalog) /\ Numbered(st)
  BY DEF StateOK, PagesApart, CatalogOK
<1> DEFINE n == Count(st)
           page == st.catalog.nextPage
<1>2. /\ Count(new) = n + 1 /\ n \in Nat
      /\ \A i \in 1..n : Rel(new, i) = Rel(st, i)
      /\ Rel(new, n + 1) = r
      /\ new.catalog.nextPage = page + 1
      /\ \A i \in 1..Count(new) : i \in 1..n \/ i = n + 1
      /\ n + 1 \in 1..CatalogCapacity
  BY <1>1, AddsFacts
<1>3. page \in Nat /\ page <= MaxPage
  BY <1>1, StateTypes, Bounds DEF AddsRelation
<1>4. \A i \in 1..n : PagesOf(new, Rel(new, i)) = PagesOf(st, Rel(st, i))
  <2> TAKE i \in 1..n
  <2>1. Rel(st, i).id = i /\ i # n + 1 /\ i \in 1..CatalogCapacity
    BY <1>1, <1>2, Bounds DEF Numbered
  <2>2. new.index[i] = st.index[i]
    BY <2>1 DEF AddsRelation
  <2> QED BY <1>2, <2>1, <2>2 DEF PagesOf
<1>5. PagesOf(new, Rel(new, n + 1)) = {page}
  BY <1>2 DEF AddsRelation
<1>6. \A i \in 1..n : \A p \in PagesOf(st, Rel(st, i)) : p < page /\ p # page /\ p < page + 1
  <2>1. \A i \in 1..n : PagesOf(st, Rel(st, i)) \subseteq Int
    <3>1. \A i \in 1..n : PagesOf(st, Rel(st, i)) \subseteq 1..MaxPage
      BY <1>1, PagesOfType
    <3>2. 1..MaxPage \subseteq Int
      BY Bounds
    <3> QED BY <3>1, <3>2
  <2>2. \A i \in 1..n : \A p \in PagesOf(st, Rel(st, i)) : p < page
    BY <1>1 DEF Below
  <2> QED BY <1>3, <2>1, <2>2
<1>7. Apart(new)
  <2>1. \A i, j \in 1..n : i # j => PagesOf(st, Rel(st, i)) \cap PagesOf(st, Rel(st, j)) = {}
    BY <1>1 DEF Apart
  <2> HIDE DEF n, page
  <2>2. \A i \in 1..n : page \notin PagesOf(st, Rel(st, i))
    BY <1>6
  <2> QED BY <1>2, <1>4, <1>5, <2>1, <2>2 DEF Apart
<1>8. Below(new)
  <2> HIDE DEF n, page
  <2>1. page < page + 1
    BY <1>3
  <2> QED BY <1>2, <1>4, <1>5, <1>6, <2>1 DEF Below
<1>9. Unused(new)
  <2>1. new.heap = st.heap
    BY DEF AddsRelation
  <2>2. \A p \in 1..MaxPage : p >= page + 1 => p >= page
    BY <1>3
  <2>3. \A j \in 1..CatalogCapacity : j > n + 1 => j > n /\ j # n + 1
    BY <1>2
  <2>4. \A j \in 1..CatalogCapacity : j > n + 1 => new.index[j] = st.index[j]
    BY <2>3 DEF AddsRelation
  <2> QED BY <1>1, <1>2, <2>1, <2>2, <2>3, <2>4 DEF Unused
<1> QED BY <1>7, <1>8, <1>9 DEF PagesApart

\* The old indexes after a new relation.
LEMMA AddsEntries ==
    ASSUME NEW st, NEW before, StateOK(st, before), NEW new, NEW r, AddsRelation(st, new, r),
           NEW pending, before \subseteq pending, NEW j \in IndexPlaces(st)
    PROVE  EntriesRight(new, j) /\ EntriesThere(new, j, pending)
<1>1. st \in States /\ IndexesKeyed(st) /\ EntriesRight(st, j) /\ EntriesThere(st, j, before) /\ new \in States
  BY DEF StateOK, CatalogOK, EntriesMatch, AddsRelation
<1>2. /\ \A i \in 1..Count(st) : Rel(new, i) = Rel(st, i)
      /\ Count(st) \in Nat /\ Count(st) + 1 \in 1..CatalogCapacity /\ Extends(st, new)
  BY <1>1, AddsFacts
<1>3. j \in 1..Count(st) /\ Rel(st, j).table \in 1..Count(st)
  BY <1>1 DEF IndexesKeyed, IndexPlaces, TablePlaces
<1>4. ScanOf(new, j) = ScanOf(st, j)
  BY <1>2, <1>3 DEF ScanOf, TableOf, FullScan, AddsRelation
<1>5. j # Count(st) + 1 /\ j \in 1..CatalogCapacity
  BY <1>2, <1>3, Bounds
<1>6. new.index[j] = st.index[j]
  BY <1>5 DEF AddsRelation
<1>7. EntriesGrow(st, new, j)
  BY <1>6 DEF EntriesGrow
<1>8. PendingGrow(st, new, j, before, pending)
  BY <1>4 DEF PendingGrow
<1> QED BY <1>1, <1>2, <1>7, <1>8, EntriesKept

\* The rows after a new relation, whose page is empty.
LEMMA AddsRows ==
    ASSUME NEW st, NEW pending, StateOK(st, pending), NEW new, NEW r, AddsRelation(st, new, r)
    PROVE  RowsTyped(new)
<1>1. st \in States /\ RowsTyped(st) /\ Unused(st)
  BY DEF StateOK, PagesApart
<1>2. /\ \A i \in 1..Count(st) : Rel(new, i) = Rel(st, i)
      /\ \A i \in 1..Count(new) : i \in 1..Count(st) \/ i = Count(st) + 1
      /\ Rel(new, Count(st) + 1) = r
  BY <1>1, AddsFacts
<1> SUFFICES ASSUME NEW i \in TablePlaces(new), NEW p \in Range(Rel(new, i).pages),
                    NEW k \in 1..Len(new.heap[p])
             PROVE  RowOf(new.heap[p][k], Rel(new, i).columns)
  BY DEF RowsTyped
<1>3. new.heap = st.heap /\ i \in 1..Count(new) /\ Rel(new, i).kind = "table"
  BY DEF AddsRelation, TablePlaces
<1>4. CASE i \in 1..Count(st)
  <2>1. i \in TablePlaces(st) /\ Rel(new, i) = Rel(st, i)
    BY <1>2, <1>3, <1>4 DEF TablePlaces
  <2> QED BY <1>1, <1>3, <2>1 DEF RowsTyped
<1>5. CASE i = Count(st) + 1
  <2>1. PagesOf(new, r) = Range(r.pages)
    BY <1>2, <1>3, <1>5 DEF PagesOf
  <2>2. p = st.catalog.nextPage /\ p <= MaxPage
    BY <1>2, <1>5, <2>1 DEF AddsRelation
  <2>3. p \in 1..MaxPage /\ p >= st.catalog.nextPage
    BY <1>1, <2>2, StateTypes, Bounds
  <2>4. st.heap[p] = << >>
    BY <1>1, <2>3 DEF Unused
  <2>5. 1..Len(<< >>) = {}
    OBVIOUS
  <2> QED BY <1>3, <2>4, <2>5
<1> QED BY <1>2, <1>3, <1>4, <1>5

\* CREATE TABLE.
LEMMA TableAdded ==
    ASSUME NEW st, NEW pending, StateOK(st, pending), NEW new, NEW r, AddsRelation(st, new, r),
           r.kind = "table"
    PROVE  StateOK(new, pending) /\ Extends(st, new)
<1>1. /\ st \in States /\ new \in States /\ IndexesKeyed(st) /\ PendingOK(st, pending)
  BY DEF StateOK, CatalogOK, AddsRelation
<1>2. /\ Extends(st, new) /\ Rel(new, Count(st) + 1) = r
      /\ \A i \in 1..Count(new) : i \in 1..Count(st) \/ i = Count(st) + 1
  BY <1>1, AddsFacts
<1>3. \A j \in IndexPlaces(new) : j \in 1..Count(st)
  BY <1>2 DEF IndexPlaces
<1>4. IndexesKeyed(new)
  BY <1>1, <1>2, <1>3, KeyedKept
<1>5. CatalogOK(new)
  BY <1>4, AddsCatalog DEF CatalogOK
<1>6. EntriesMatch(new, pending)
  <2>1. \A j \in IndexPlaces(new) : j \in IndexPlaces(st)
    BY <1>1, <1>2, <1>3, ExtendsPlaces
  <2>2. pending \subseteq pending
    OBVIOUS
  <2> QED BY <2>1, <2>2, AddsEntries DEF EntriesMatch
<1>7. PendingOK(new, pending)
  BY <1>1, <1>2, PendingKept
<1>8. PagesApart(new) /\ RowsTyped(new)
  BY AddsPages, AddsRows
<1> QED BY <1>1, <1>2, <1>5, <1>6, <1>7, <1>8 DEF StateOK

\* CREATE INDEX: every row of the table is pending.
LEMMA IndexAdded ==
    ASSUME NEW st, StateOK(st, {}), NEW new, NEW r, AddsRelation(st, new, r),
           r.kind = "index", r.table \in TablePlaces(st),
           ColumnIndex(Rel(st, r.table), r.column) \in 1..Len(Rel(st, r.table).columns),
           Rel(st, r.table).columns[ColumnIndex(Rel(st, r.table), r.column)].type \in {"INT", "TEXT"},
           new.index[Count(st) + 1].entries = {},
           NEW pending, \A x \in FullScan(st, Rel(st, r.table)) : [index |-> Count(st) + 1, row |-> x] \in pending,
           \A x \in pending : x.index = Count(st) + 1 /\ x.row \in FullScan(st, Rel(st, r.table))
    PROVE  StateOK(new, pending) /\ Extends(st, new)
<1> DEFINE n == Count(st)
<1>1. /\ st \in States /\ new \in States /\ IndexesKeyed(st) /\ new.heap = st.heap
  BY DEF StateOK, CatalogOK, AddsRelation
<1>2. /\ Extends(st, new) /\ Rel(new, n + 1) = r /\ Count(new) = n + 1 /\ n \in Nat
      /\ \A i \in 1..Count(new) : i \in 1..n \/ i = n + 1
      /\ \A i \in 1..n : Rel(new, i) = Rel(st, i)
  BY <1>1, AddsFacts
<1>3. r.table \in 1..n /\ Rel(new, r.table) = Rel(st, r.table) /\ r.table \in TablePlaces(new)
  BY <1>1, <1>2, ExtendsPlaces DEF TablePlaces
<1>4. /\ TableOf(new, n + 1) = Rel(st, r.table)
      /\ KeyColumn(new, n + 1) = ColumnIndex(Rel(st, r.table), r.column)
      /\ ScanOf(new, n + 1) = FullScan(st, Rel(st, r.table))
  BY <1>1, <1>2, <1>3 DEF TableOf, KeyColumn, ScanOf, FullScan
<1>5. \A j \in IndexPlaces(new) : j \in IndexPlaces(st) \/ j = n + 1
  BY <1>1, <1>2, ExtendsPlaces DEF IndexPlaces
<1>6. n + 1 \in IndexPlaces(new)
  BY <1>2 DEF IndexPlaces
<1> HIDE DEF n
<1>7. IndexesKeyed(new)
  <2> SUFFICES ASSUME NEW j \in IndexPlaces(new)
               PROVE  /\ Rel(new, j).table \in TablePlaces(new)
                      /\ KeyColumn(new, j) \in 1..Len(TableOf(new, j).columns)
                      /\ TableOf(new, j).columns[KeyColumn(new, j)].type \in {"INT", "TEXT"}
    BY DEF IndexesKeyed
  <2>1. CASE j \in IndexPlaces(st)
    BY <1>1, <1>2, <2>1, ExtendsIndex, ExtendsPlaces
  <2>2. CASE j = n + 1
    BY <1>2, <1>3, <1>4, <2>2
  <2> QED BY <1>5, <2>1, <2>2
<1>8. CatalogOK(new)
  BY <1>7, AddsCatalog DEF CatalogOK
<1>9. EntriesMatch(new, pending)
  <2>1. \A j \in IndexPlaces(st) : EntriesRight(new, j) /\ EntriesThere(new, j, pending)
    BY AddsEntries
  <2>2. EntriesRight(new, n + 1)
    BY DEF EntriesRight, n
  <2>3. EntriesThere(new, n + 1, pending)
    BY <1>4 DEF EntriesThere, n
  <2> QED BY <1>5, <2>1, <2>2, <2>3 DEF EntriesMatch
<1>10. PendingOK(new, pending)
  BY <1>4, <1>6 DEF PendingOK, n
<1>11. PagesApart(new) /\ RowsTyped(new)
  BY AddsPages, AddsRows
<1> QED BY <1>1, <1>2, <1>8, <1>9, <1>10, <1>11 DEF StateOK

-----------------------------------------------------------------------------
(* A new heap page. *)

LEMMA GrownFacts ==
    ASSUME NEW r \in Relation, NEW page \in 1..MaxPage
    PROVE  LET g == Grown(r, page)
           IN  /\ g \in Relation /\ SameRelation(r, g) /\ g.root = r.root /\ g.pages # << >>
               /\ Range(g.pages) = Range(r.pages) \cup {page}
<1> DEFINE g == Grown(r, page)
           s == r.pages
           S == 1..MaxPage
           t == Append(s, page)
<1>1. /\ g.id = r.id /\ g.name = r.name /\ g.kind = r.kind /\ g.columns = r.columns
      /\ g.table = r.table /\ g.column = r.column /\ g.root = r.root /\ g.pages = t
  BY DEF Grown, Relation
<1>2. s \in Seq(S) /\ page \in S
  BY RelationTypes
<1>3. g = [r EXCEPT !.pages = t]
  BY DEF Grown
<1> HIDE DEF s, S, g
<1>4. t \in Seq(S) /\ Range(t) = Range(s) \cup {page}
  BY <1>2, AppendRange
<1>5. t # << >>
  <2>1. Range(<< >>) = {}
    BY DEF Range
  <2> HIDE DEF t
  <2> QED BY <1>4, <2>1
<1> HIDE DEF t
<1>6. g \in Relation
  BY <1>3, <1>4 DEF Relation, S
<1>7. SameRelation(r, g)
  BY <1>1, <1>4 DEF SameRelation, s
<1> QED BY <1>1, <1>4, <1>5, <1>6, <1>7 DEF g, s

LEMMA WithHeapPageFacts ==
    ASSUME NEW cat \in Catalog, cat.nextPage <= MaxPage,
           \A k \in 1..Len(cat.relations) : cat.relations[k].id = k,
           NEW i \in 1..Len(cat.relations)
    PROVE  LET new == WithHeapPage(cat, i)
               n == Len(cat.relations)
           IN  /\ new \in Catalog /\ Len(new.relations) = n
               /\ \A k \in 1..n : k # i => new.relations[k] = cat.relations[k]
               /\ new.relations[i] = Grown(cat.relations[i], cat.nextPage)
               /\ new.nextRelation = cat.nextRelation
               /\ new.nextPage = cat.nextPage + 1 /\ new.extensions = cat.extensions
<1> DEFINE new == WithHeapPage(cat, i)
           rs == cat.relations
           n == Len(rs)
           page == cat.nextPage
           ts == [k \in DOMAIN rs |-> IF rs[k].id = i THEN Grown(rs[k], page) ELSE rs[k]]
<1>1. /\ rs \in Seq(Relation) /\ cat.extensions \in Seq(Extension)
      /\ cat.nextRelation \in Nat /\ cat.nextPage \in 1..(MaxPage + 1)
  BY DEF Catalog
<1>2. new = [cat EXCEPT !.nextPage = cat.nextPage + 1, !.relations = ts]
  BY DEF WithHeapPage
<1>3. n \in Nat /\ DOMAIN rs = 1..n /\ \A k \in 1..n : rs[k] \in Relation
  BY <1>1, SeqParts
<1>4. page \in 1..MaxPage /\ page + 1 \in 1..(MaxPage + 1)
  BY <1>1, Bounds
<1>5. ts = [k \in 1..n |-> IF rs[k].id = i THEN Grown(rs[k], page) ELSE rs[k]]
  BY <1>3
<1>6. \A k \in 1..n : rs[k].id = k
  OBVIOUS
<1> HIDE DEF ts, n, rs, page
<1>7. \A k \in 1..n : ts[k] = IF k = i THEN Grown(rs[k], page) ELSE rs[k]
  BY <1>6, <1>5
<1>8. \A k \in 1..n : ts[k] \in Relation
  BY <1>3, <1>4, <1>7, GrownFacts
<1>9. ts \in Seq(Relation) /\ Len(ts) = n
  <2>1. ts = [k \in 1..n |-> ts[k]]
    BY <1>5
  <2> DEFINE f(k) == ts[k]
  <2>2. ts \in [1..n -> Relation]
    BY <1>8, <2>1
  <2> QED BY <1>3, <2>2
<1>10. new \in Catalog
  BY <1>2, <1>4, <1>9 DEF Catalog, page
<1>11. /\ new.relations = ts /\ new.nextRelation = cat.nextRelation
       /\ new.nextPage = cat.nextPage + 1 /\ new.extensions = cat.extensions
  BY <1>2 DEF Catalog
<1>12. i \in 1..n
  BY DEF n, rs
<1> HIDE DEF new
<1> QED BY <1>7, <1>9, <1>10, <1>11, <1>12 DEF new, n, rs, page

GrowsTable(st, new, i) ==
    /\ new \in States /\ i \in TablePlaces(st) /\ st.catalog.nextPage <= MaxPage
    /\ new.catalog = WithHeapPage(st.catalog, i) /\ new.heap = st.heap /\ new.index = st.index

LEMMA GrowsFacts ==
    ASSUME NEW st \in States, Numbered(st), NEW new, NEW i, GrowsTable(st, new, i)
    PROVE  /\ Count(new) = Count(st) /\ Count(st) \in Nat /\ i \in 1..Count(st)
           /\ \A k \in 1..Count(st) : k # i => Rel(new, k) = Rel(st, k)
           /\ Rel(new, i) = Grown(Rel(st, i), st.catalog.nextPage) /\ SameRelation(Rel(st, i), Rel(new, i))
           /\ Rel(new, i).root = Rel(st, i).root /\ Rel(new, i).pages # << >>
           /\ Range(Rel(new, i).pages) = Range(Rel(st, i).pages) \cup {st.catalog.nextPage}
           /\ st.catalog.nextPage \in 1..MaxPage
           /\ new.catalog.nextRelation = st.catalog.nextRelation
           /\ new.catalog.nextPage = st.catalog.nextPage + 1
           /\ new.catalog.extensions = st.catalog.extensions
           /\ Extends(st, new)
<1>1. /\ Count(st) \in Nat /\ i \in 1..Count(st) /\ st.catalog \in Catalog /\ st.catalog.nextPage <= MaxPage
      /\ \A k \in 1..Count(st) : Rel(st, k).id = k
      /\ st.catalog.nextPage \in 1..(MaxPage + 1) /\ Rel(st, i) \in Relation
  BY StateTypes DEF Numbered, GrowsTable, TablePlaces
<1>2. st.catalog.nextPage \in 1..MaxPage
  BY <1>1, Bounds
<1>3. LET c == WithHeapPage(st.catalog, i)
          n == Len(st.catalog.relations)
      IN  /\ Len(c.relations) = n
          /\ \A k \in 1..n : k # i => c.relations[k] = st.catalog.relations[k]
          /\ c.relations[i] = Grown(st.catalog.relations[i], st.catalog.nextPage)
          /\ c.nextRelation = st.catalog.nextRelation
          /\ c.nextPage = st.catalog.nextPage + 1 /\ c.extensions = st.catalog.extensions
  <2>1. \A k \in 1..Len(st.catalog.relations) : st.catalog.relations[k].id = k
    BY <1>1 DEF Rel, Count
  <2>2. i \in 1..Len(st.catalog.relations)
    BY <1>1 DEF Count
  <2> QED BY <1>1, <2>1, <2>2, WithHeapPageFacts
<1>4. /\ Count(new) = Count(st)
      /\ \A k \in 1..Count(st) : k # i => Rel(new, k) = Rel(st, k)
      /\ Rel(new, i) = Grown(Rel(st, i), st.catalog.nextPage)
      /\ new.catalog.nextRelation = st.catalog.nextRelation
      /\ new.catalog.nextPage = st.catalog.nextPage + 1
      /\ new.catalog.extensions = st.catalog.extensions
  BY <1>3 DEF GrowsTable, Count, Rel
<1>5. /\ SameRelation(Rel(st, i), Rel(new, i))
      /\ Rel(new, i).root = Rel(st, i).root /\ Rel(new, i).pages # << >>
      /\ Range(Rel(new, i).pages) = Range(Rel(st, i).pages) \cup {st.catalog.nextPage}
  BY <1>1, <1>2, <1>4, GrownFacts
<1>6. Extends(st, new)
  <2>1. Count(st) <= Count(new)
    BY <1>1, <1>4
  <2>2. \A k \in 1..Count(st) : SameRelation(Rel(st, k), Rel(new, k))
    BY <1>4, <1>5 DEF SameRelation
  <2>3. \A p \in 1..MaxPage : new.heap[p] = st.heap[p] /\ Len(st.heap[p]) <= Len(st.heap[p])
    BY HeapTypes DEF GrowsTable
  <2> QED BY <2>1, <2>2, <2>3 DEF Extends
<1> QED BY <1>1, <1>2, <1>4, <1>5, <1>6

LEMMA NextPageEmpty ==
    ASSUME NEW st \in States, Unused(st), st.catalog.nextPage \in 1..MaxPage
    PROVE  st.heap[st.catalog.nextPage] = << >> /\ Len(st.heap[st.catalog.nextPage]) = 0
<1> DEFINE p == st.catalog.nextPage
<1>1. p >= p
  BY Bounds
<1>2. st.heap[p] = << >>
  BY <1>1 DEF Unused
<1> QED BY <1>2

\* The new page has no rows.
LEMMA GrowsRows ==
    ASSUME NEW st, NEW pending, StateOK(st, pending), NEW new, NEW i, GrowsTable(st, new, i)
    PROVE  /\ \A k \in 1..Count(st) : FullScan(new, Rel(new, k)) = FullScan(st, Rel(st, k))
           /\ RowsTyped(new)
<1>1. st \in States /\ RowsTyped(st) /\ Unused(st) /\ Numbered(st) /\ new.heap = st.heap /\ new \in States
  BY DEF StateOK, PagesApart, CatalogOK, GrowsTable
<1> DEFINE page == st.catalog.nextPage
<1>2. /\ Count(new) = Count(st) /\ i \in 1..Count(st)
      /\ \A k \in 1..Count(st) : k # i => Rel(new, k) = Rel(st, k)
      /\ SameRelation(Rel(st, i), Rel(new, i))
      /\ Range(Rel(new, i).pages) = Range(Rel(st, i).pages) \cup {page}
      /\ page \in 1..MaxPage /\ Extends(st, new)
  BY <1>1, GrowsFacts
<1>3. Len(st.heap[page]) = 0
  BY <1>1, <1>2, NextPageEmpty
<1> HIDE DEF page
<1>4. ASSUME NEW x \in FullScan(new, Rel(new, i)) PROVE x \in FullScan(st, Rel(st, i))
  <2>1. x \in [page : Range(Rel(new, i).pages), slot : 1..MaxRows] /\ x.slot <= Len(st.heap[x.page])
    BY <1>1, ScanFacts
  <2>2. x.page \in Range(Rel(st, i).pages) \cup {page} /\ x.slot \in 1..MaxRows
    BY <1>2, <2>1
  <2>3. x.page # page
    BY <1>3, <2>1, <2>2, Bounds
  <2>4. x \in [page : Range(Rel(st, i).pages), slot : 1..MaxRows]
    BY <2>1, <2>2, <2>3
  <2> QED BY <2>1, <2>4, ScanFacts
<1>5. \A k \in 1..Count(st) : FullScan(new, Rel(new, k)) = FullScan(st, Rel(st, k))
  <2> TAKE k \in 1..Count(st)
  <2>1. CASE k # i
    BY <1>1, <1>2, <2>1 DEF FullScan
  <2>2. CASE k = i
    BY <1>1, <1>2, <1>4, <2>2, ExtendsRows
  <2> QED BY <2>1, <2>2
<1>6. RowsTyped(new)
  <2> SUFFICES ASSUME NEW k \in TablePlaces(new), NEW p \in Range(Rel(new, k).pages),
                      NEW l \in 1..Len(new.heap[p])
               PROVE  RowOf(new.heap[p][l], Rel(new, k).columns)
    BY DEF RowsTyped
  <2>1. k \in TablePlaces(st) /\ k \in 1..Count(st)
    BY <1>1, <1>2, ExtendsPlaces DEF TablePlaces
  <2>2. CASE k # i
    BY <1>1, <1>2, <2>1, <2>2 DEF RowsTyped
  <2>3. CASE k = i /\ p # page
    <3>1. p \in Range(Rel(st, k).pages) /\ Rel(new, k).columns = Rel(st, k).columns
      BY <1>2, <2>3 DEF SameRelation
    <3> QED BY <1>1, <2>1, <3>1 DEF RowsTyped
  <2>4. CASE p = page
    <3>1. 1..0 = {}
      OBVIOUS
    <3> QED BY <1>1, <1>3, <2>4, <3>1
  <2> QED BY <2>2, <2>3, <2>4
<1> QED BY <1>5, <1>6

LEMMA GrowsPages ==
    ASSUME NEW st, NEW pending, StateOK(st, pending), NEW new, NEW i, GrowsTable(st, new, i)
    PROVE  PagesApart(new)
<1>1. /\ st \in States /\ Apart(st) /\ Below(st) /\ Unused(st) /\ Numbered(st) /\ new.heap = st.heap
      /\ new.index = st.index /\ Rel(st, i).kind = "table"
  BY DEF StateOK, PagesApart, CatalogOK, GrowsTable, TablePlaces
<1> DEFINE page == st.catalog.nextPage
           n == Count(st)
<1>2. /\ Count(new) = n /\ i \in 1..n
      /\ \A k \in 1..n : k # i => Rel(new, k) = Rel(st, k)
      /\ SameRelation(Rel(st, i), Rel(new, i))
      /\ Range(Rel(new, i).pages) = Range(Rel(st, i).pages) \cup {page}
      /\ page \in 1..MaxPage /\ new.catalog.nextPage = page + 1
  BY <1>1, GrowsFacts
<1>3. \A k \in 1..n : k # i => PagesOf(new, Rel(new, k)) = PagesOf(st, Rel(st, k))
  BY <1>1, <1>2 DEF PagesOf
<1>4. PagesOf(new, Rel(new, i)) = PagesOf(st, Rel(st, i)) \cup {page}
  BY <1>1, <1>2 DEF PagesOf, SameRelation
<1>5. \A k \in 1..n : \A p \in PagesOf(st, Rel(st, k)) : p < page /\ p # page /\ p < page + 1
  <2>1. \A k \in 1..n : PagesOf(st, Rel(st, k)) \subseteq Int
    <3>1. \A k \in 1..n : PagesOf(st, Rel(st, k)) \subseteq 1..MaxPage
      BY <1>1, PagesOfType
    <3>2. 1..MaxPage \subseteq Int
      BY Bounds
    <3> QED BY <3>1, <3>2
  <2>2. \A k \in 1..n : \A p \in PagesOf(st, Rel(st, k)) : p < page
    BY <1>1 DEF Below
  <2>3. page \in Int
    BY <1>2, Bounds
  <2> QED BY <2>1, <2>2, <2>3
<1>6. Unused(new)
  <2>1. \A p \in 1..MaxPage : p >= page + 1 => p >= page
    BY <1>2, Bounds
  <2> QED BY <1>1, <1>2, <2>1 DEF Unused
<1>7. \A k, j \in 1..n : k # j => PagesOf(st, Rel(st, k)) \cap PagesOf(st, Rel(st, j)) = {}
  BY <1>1 DEF Apart
<1>8. page < page + 1
  BY <1>2, Bounds
<1> HIDE DEF page, n
<1>9. Apart(new)
  <2>1. \A k \in 1..n : page \notin PagesOf(st, Rel(st, k))
    BY <1>5
  <2> SUFFICES ASSUME NEW k \in 1..n, NEW j \in 1..n, k # j
               PROVE  PagesOf(new, Rel(new, k)) \cap PagesOf(new, Rel(new, j)) = {}
    BY <1>2 DEF Apart
  <2>2. CASE k = i
    BY <1>3, <1>4, <1>7, <2>1, <2>2
  <2>3. CASE j = i
    BY <1>3, <1>4, <1>7, <2>1, <2>3
  <2>4. CASE k # i /\ j # i
    BY <1>3, <1>7, <2>4
  <2> QED BY <2>2, <2>3, <2>4
<1>10. Below(new)
  <2> SUFFICES ASSUME NEW k \in 1..n, NEW p \in PagesOf(new, Rel(new, k)) PROVE p < page + 1
    BY <1>2 DEF Below
  <2> QED BY <1>2, <1>3, <1>4, <1>5, <1>8
<1> QED BY <1>6, <1>9, <1>10 DEF PagesApart

\* append_heap_page.
LEMMA TableGrown ==
    ASSUME NEW st, NEW pending, StateOK(st, pending), NEW new, NEW i, GrowsTable(st, new, i)
    PROVE  StateOK(new, pending) /\ Extends(st, new)
<1>1. /\ st \in States /\ new \in States /\ IndexesKeyed(st) /\ PendingOK(st, pending) /\ Numbered(st)
      /\ Installed(st) /\ CatalogFormed(st.catalog) /\ EntriesMatch(st, pending)
      /\ new.index = st.index /\ Rel(st, i).kind = "table"
  BY DEF StateOK, CatalogOK, GrowsTable, TablePlaces
<1> DEFINE n == Count(st)
<1>2. /\ Count(new) = n /\ n \in Nat /\ i \in 1..n
      /\ \A k \in 1..n : k # i => Rel(new, k) = Rel(st, k)
      /\ SameRelation(Rel(st, i), Rel(new, i))
      /\ Rel(new, i).root = Rel(st, i).root /\ Rel(new, i).pages # << >>
      /\ new.catalog.nextRelation = st.catalog.nextRelation
      /\ new.catalog.extensions = st.catalog.extensions
      /\ Extends(st, new)
  BY <1>1, GrowsFacts
<1>3. IndexesKeyed(new)
  <2>1. \A j \in IndexPlaces(new) : j \in 1..Count(st)
    BY <1>2 DEF IndexPlaces
  <2> QED BY <1>1, <1>2, <2>1, KeyedKept
<1>4. CatalogFormed(new.catalog)
  <2>1. \A k \in 1..n : WellFormed(Rel(st, k))
    BY <1>1 DEF CatalogFormed, Count, Rel
  <2>2. Rel(new, i) \in Relation /\ new.catalog \in Catalog
    BY <1>1, <1>2, StateTypes
  <2>3. WellFormed(Rel(new, i))
    BY <1>1, <1>2, <2>1, <2>2 DEF WellFormed, SameRelation
  <2>4. \A k \in 1..n : WellFormed(Rel(new, k))
    BY <1>2, <2>1, <2>3
  <2> QED BY <1>2, <2>2, <2>4 DEF CatalogFormed, Count, Rel
<1>5. Numbered(new)
  <2>1. \A k \in 1..n : Rel(new, k).id = Rel(st, k).id /\ Rel(new, k).name = Rel(st, k).name
    BY <1>2 DEF SameRelation
  <2> QED BY <1>1, <1>2, <2>1 DEF Numbered
<1>6. Installed(new)
  BY <1>1, <1>2 DEF Installed
<1>7. EntriesMatch(new, pending)
  <2> SUFFICES ASSUME NEW j \in IndexPlaces(new) PROVE EntriesRight(new, j) /\ EntriesThere(new, j, pending)
    BY DEF EntriesMatch
  <2>1. j \in IndexPlaces(st) /\ j \in 1..n
    BY <1>1, <1>2, ExtendsPlaces DEF IndexPlaces
  <2>2. Rel(new, j).table = Rel(st, j).table /\ Rel(st, j).table \in 1..n
    BY <1>1, <1>2, <2>1, ExtendsIndex DEF TablePlaces
  <2>3. ScanOf(new, j) = ScanOf(st, j)
    BY <2>2, GrowsRows DEF ScanOf, TableOf
  <2>4. EntriesGrow(st, new, j) /\ PendingGrow(st, new, j, pending, pending)
    BY <1>1, <2>3 DEF EntriesGrow, PendingGrow
  <2>5. EntriesRight(st, j) /\ EntriesThere(st, j, pending)
    BY <1>1, <2>1 DEF EntriesMatch
  <2> QED BY <1>1, <1>2, <2>1, <2>4, <2>5, EntriesKept
<1>8. PendingOK(new, pending)
  BY <1>1, <1>2, PendingKept
<1>9. PagesApart(new) /\ RowsTyped(new)
  BY GrowsPages, GrowsRows
<1> QED BY <1>1, <1>2, <1>3, <1>4, <1>5, <1>6, <1>7, <1>8, <1>9 DEF StateOK, CatalogOK

-----------------------------------------------------------------------------
(* A new row. *)

AppendsRow(st, new, i, p, bytes) ==
    /\ new \in States /\ i \in TablePlaces(st) /\ p \in Range(Rel(st, i).pages)
    /\ new.catalog = st.catalog /\ new.index = st.index
    /\ new.heap = [st.heap EXCEPT ![p] = Append(@, bytes)]
    /\ bytes \in Seq(RowField) /\ RowOf(bytes, Rel(st, i).columns) /\ Len(st.heap[p]) < MaxRows

RowAdded(st, p) == [page |-> p, slot |-> Len(st.heap[p]) + 1]

LEMMA AppendsFacts ==
    ASSUME NEW st \in States, NEW new, NEW i, NEW p, NEW bytes, AppendsRow(st, new, i, p, bytes)
    PROVE  /\ p \in 1..MaxPage /\ i \in 1..Count(st)
           /\ Count(new) = Count(st) /\ \A k \in 1..Count(st) : Rel(new, k) = Rel(st, k)
           /\ Len(new.heap[p]) = Len(st.heap[p]) + 1 /\ new.heap[p][Len(st.heap[p]) + 1] = bytes
           /\ \A l \in 1..Len(st.heap[p]) : new.heap[p][l] = st.heap[p][l]
           /\ \A q \in 1..MaxPage : q # p => new.heap[q] = st.heap[q]
           /\ Extends(st, new)
<1>1. i \in 1..Count(st)
  BY DEF AppendsRow, TablePlaces
<1>2. p \in 1..MaxPage
  <2>1. Rel(st, i) \in Relation
    BY <1>1, StateTypes
  <2> QED BY <2>1, RelationTypes DEF AppendsRow
<1>3. st.heap[p] \in Seq(Seq(RowField)) /\ bytes \in Seq(RowField) /\ Len(st.heap[p]) \in Nat
  BY <1>2, HeapTypes DEF AppendsRow
<1>4. /\ new.heap[p] = Append(st.heap[p], bytes)
      /\ \A q \in 1..MaxPage : q # p => new.heap[q] = st.heap[q]
  BY <1>2, StateTypes DEF AppendsRow
<1> DEFINE s == st.heap[p]
           S == Seq(RowField)
<1> HIDE DEF s, S
<1>5. /\ Len(Append(s, bytes)) = Len(s) + 1 /\ Append(s, bytes)[Len(s) + 1] = bytes
      /\ \A l \in 1..Len(s) : Append(s, bytes)[l] = s[l]
  BY <1>3, AppendLast DEF s, S
<1>6. /\ Len(new.heap[p]) = Len(st.heap[p]) + 1 /\ new.heap[p][Len(st.heap[p]) + 1] = bytes
      /\ \A l \in 1..Len(st.heap[p]) : new.heap[p][l] = st.heap[p][l]
  BY <1>4, <1>5 DEF s
<1>7. Count(new) = Count(st) /\ \A k \in 1..Count(st) : Rel(new, k) = Rel(st, k)
  BY DEF Count, Rel, AppendsRow
<1>8. Extends(st, new)
  <2>1. Count(st) <= Count(new) /\ \A k \in 1..Count(st) : SameRelation(Rel(st, k), Rel(new, k))
    BY <1>7, StateTypes DEF SameRelation
  <2>2. ASSUME NEW q \in 1..MaxPage
        PROVE  /\ Len(st.heap[q]) <= Len(new.heap[q])
               /\ \A k \in 1..Len(st.heap[q]) : new.heap[q][k] = st.heap[q][k]
    <3>1. CASE q = p
      BY <1>3, <1>6, <3>1
    <3>2. CASE q # p
      BY <1>4, <3>2, HeapTypes
    <3> QED BY <3>1, <3>2
  <2> QED BY <2>1, <2>2 DEF Extends
<1> QED BY <1>1, <1>2, <1>4, <1>6, <1>7, <1>8

\* The table has the new row, and no other table has it.
LEMMA AppendsScan ==
    ASSUME NEW st, NEW pending, StateOK(st, pending), NEW new, NEW i, NEW p, NEW bytes,
           AppendsRow(st, new, i, p, bytes)
    PROVE  /\ RowAdded(st, p) \in FullScan(new, Rel(new, i))
           /\ \A x \in FullScan(new, Rel(new, i)) : x \in FullScan(st, Rel(st, i)) \/ x = RowAdded(st, p)
           /\ \A k \in TablePlaces(st) : k # i => FullScan(new, Rel(new, k)) = FullScan(st, Rel(st, k))
<1>1. st \in States /\ Apart(st) /\ new \in States
  BY DEF StateOK, PagesApart, AppendsRow
<1>2. /\ p \in 1..MaxPage /\ i \in 1..Count(st) /\ \A k \in 1..Count(st) : Rel(new, k) = Rel(st, k)
      /\ Len(new.heap[p]) = Len(st.heap[p]) + 1
      /\ \A q \in 1..MaxPage : q # p => new.heap[q] = st.heap[q]
      /\ Extends(st, new)
  BY <1>1, AppendsFacts
<1> DEFINE m == Len(st.heap[p])
           row == RowAdded(st, p)
<1>3. m \in Nat /\ m < MaxRows /\ p \in Range(Rel(st, i).pages)
  BY <1>1, <1>2, HeapTypes DEF AppendsRow
<1>4. row \in FullScan(new, Rel(new, i))
  <2>1. row = [page |-> p, slot |-> m + 1]
    BY DEF RowAdded
  <2>2. m + 1 \in 1..MaxRows /\ m + 1 <= Len(new.heap[p])
    BY <1>2, <1>3, Bounds
  <2>3. row.page = p /\ row.slot = m + 1
    BY <2>1
  <2>4. row \in [page : Range(Rel(new, i).pages), slot : 1..MaxRows]
    BY <1>2, <1>3, <2>1, <2>2
  <2> QED BY <2>2, <2>3, <2>4, ScanFacts
<1>5. ASSUME NEW x \in FullScan(new, Rel(new, i)) PROVE x \in FullScan(st, Rel(st, i)) \/ x = row
  <2>1. x \in [page : Range(Rel(st, i).pages), slot : 1..MaxRows] /\ x.slot <= Len(new.heap[x.page])
    BY <1>2, ScanFacts
  <2>2. x.page \in 1..MaxPage /\ x.slot \in 1..MaxRows
    <3>1. Range(Rel(st, i).pages) \subseteq 1..MaxPage
      BY <1>1, <1>2, StateTypes, RelationTypes
    <3> QED BY <2>1, <3>1
  <2>3. CASE x.page # p
    <3>1. new.heap[x.page] = st.heap[x.page]
      BY <1>2, <2>2, <2>3
    <3> QED BY <2>1, <3>1, ScanFacts
  <2>4. CASE x.page = p
    <3>1. x.slot <= m + 1 /\ x.slot \in Int
      BY <1>2, <2>1, <2>2, <2>4, Bounds
    <3>2. CASE x.slot <= m
      BY <2>1, <2>4, <3>2, ScanFacts
    <3>3. CASE ~(x.slot <= m)
      <4>1. x.slot = m + 1
        BY <1>3, <3>1, <3>3
      <4>2. x = [page |-> x.page, slot |-> x.slot]
        BY <2>1
      <4> QED BY <2>4, <4>1, <4>2 DEF RowAdded
    <3> QED BY <3>2, <3>3
  <2> QED BY <2>3, <2>4
<1>6. ASSUME NEW k \in TablePlaces(st), k # i PROVE FullScan(new, Rel(new, k)) = FullScan(st, Rel(st, k))
  <2>1. k \in 1..Count(st) /\ Rel(st, k).kind = "table" /\ Rel(st, i).kind = "table"
    BY DEF TablePlaces, AppendsRow
  <2>2. p \notin Range(Rel(st, k).pages)
    <3>1. PagesOf(st, Rel(st, k)) \cap PagesOf(st, Rel(st, i)) = {}
      BY <1>1, <1>2, <1>6, <2>1 DEF Apart
    <3> QED BY <1>3, <2>1, <3>1 DEF PagesOf
  <2>3. \A q \in Range(Rel(st, k).pages) : new.heap[q] = st.heap[q]
    <3>1. Range(Rel(st, k).pages) \subseteq 1..MaxPage
      BY <1>1, <2>1, StateTypes, RelationTypes
    <3> QED BY <1>2, <2>2, <3>1
  <2>4. Rel(new, k) = Rel(st, k)
    BY <1>2, <2>1
  <2>5. ASSUME NEW x PROVE x \in FullScan(new, Rel(st, k)) <=> x \in FullScan(st, Rel(st, k))
    BY <2>3, ScanFacts
  <2>6. FullScan(new, Rel(st, k)) = FullScan(st, Rel(st, k))
    BY <2>5
  <2> QED BY <2>4, <2>6
<1> QED BY <1>4, <1>5, <1>6

LEMMA AppendsRows ==
    ASSUME NEW st, NEW pending, StateOK(st, pending), NEW new, NEW i, NEW p, NEW bytes,
           AppendsRow(st, new, i, p, bytes)
    PROVE  RowsTyped(new)
<1>1. st \in States /\ Apart(st) /\ RowsTyped(st) /\ new.catalog = st.catalog
  BY DEF StateOK, PagesApart, AppendsRow
<1>2. /\ p \in 1..MaxPage /\ i \in 1..Count(st)
      /\ Len(new.heap[p]) = Len(st.heap[p]) + 1 /\ new.heap[p][Len(st.heap[p]) + 1] = bytes
      /\ \A l \in 1..Len(st.heap[p]) : new.heap[p][l] = st.heap[p][l]
      /\ \A q \in 1..MaxPage : q # p => new.heap[q] = st.heap[q]
  BY <1>1, AppendsFacts
<1>3. \A k : Rel(new, k) = Rel(st, k) /\ TablePlaces(new) = TablePlaces(st)
  BY <1>1 DEF Rel, TablePlaces, Count
<1> SUFFICES ASSUME NEW k \in TablePlaces(st), NEW q \in Range(Rel(st, k).pages),
                    NEW l \in 1..Len(new.heap[q])
             PROVE  RowOf(new.heap[q][l], Rel(st, k).columns)
  BY <1>3 DEF RowsTyped
<1>4. k \in 1..Count(st) /\ Rel(st, k).kind = "table" /\ Rel(st, i).kind = "table"
  BY DEF TablePlaces, AppendsRow
<1>5. q \in 1..MaxPage
  BY <1>1, <1>4, StateTypes, RelationTypes
<1>6. CASE q # p
  <2>1. new.heap[q] = st.heap[q]
    BY <1>2, <1>5, <1>6
  <2> QED BY <1>1, <2>1 DEF RowsTyped
<1>7. CASE q = p
  <2>1. k = i
    <3> SUFFICES ASSUME k # i PROVE FALSE
      OBVIOUS
    <3>1. PagesOf(st, Rel(st, k)) \cap PagesOf(st, Rel(st, i)) = {}
      BY <1>1, <1>2, <1>4 DEF Apart
    <3>2. p \in Range(Rel(st, i).pages)
      BY DEF AppendsRow
    <3> QED BY <1>4, <1>7, <3>1, <3>2 DEF PagesOf
  <2>2. Len(st.heap[p]) \in Nat
    BY <1>1, <1>2, HeapTypes
  <2>3. l \in 1..Len(st.heap[p]) \/ l = Len(st.heap[p]) + 1
    BY <1>2, <1>7, <2>2
  <2>4. CASE l \in 1..Len(st.heap[p])
    <3>1. RowOf(st.heap[p][l], Rel(st, k).columns)
      BY <1>1, <1>7, <2>4 DEF RowsTyped
    <3> QED BY <1>2, <1>7, <2>4, <3>1
  <2>5. CASE l = Len(st.heap[p]) + 1
    BY <1>2, <1>7, <2>1, <2>5 DEF AppendsRow
  <2> QED BY <2>3, <2>4, <2>5
<1> QED BY <1>6, <1>7

\* INSERT: the new row is pending for every index on its table.
LEMMA RowAppended ==
    ASSUME NEW st, StateOK(st, {}), NEW new, NEW i, NEW p, NEW bytes, AppendsRow(st, new, i, p, bytes),
           NEW pending,
           \A j \in IndexPlaces(st) : Rel(st, j).table = i => [index |-> j, row |-> RowAdded(st, p)] \in pending,
           \A x \in pending : /\ x.index \in IndexPlaces(st) /\ Rel(st, x.index).table = i
                              /\ x.row = RowAdded(st, p)
    PROVE  StateOK(new, pending) /\ Extends(st, new)
<1>1. /\ st \in States /\ new \in States /\ IndexesKeyed(st) /\ new.catalog = st.catalog
      /\ new.index = st.index /\ CatalogOK(st) /\ EntriesMatch(st, {}) /\ PagesApart(st)
  BY DEF StateOK, CatalogOK, AppendsRow
<1>2. /\ \A k : Rel(new, k) = Rel(st, k) /\ TablePlaces(new) = TablePlaces(st)
                /\ IndexPlaces(new) = IndexPlaces(st) /\ TableOf(new, k) = TableOf(st, k)
                /\ KeyColumn(new, k) = KeyColumn(st, k)
      /\ Count(new) = Count(st)
  BY <1>1 DEF Rel, TablePlaces, IndexPlaces, TableOf, KeyColumn, Count
<1>3. Extends(st, new) /\ p \in 1..MaxPage /\ \A q \in 1..MaxPage : q # p => new.heap[q] = st.heap[q]
  BY <1>1, AppendsFacts
<1>4. CatalogOK(new)
  <2>1. Numbered(new) /\ Installed(new) /\ CatalogFormed(new.catalog)
    BY <1>1 DEF CatalogOK, Numbered, Installed, Rel, Count
  <2>2. IndexesKeyed(new)
    BY <1>1, <1>2 DEF IndexesKeyed
  <2> QED BY <2>1, <2>2 DEF CatalogOK
<1>5. PagesApart(new)
  <2>1. \A k : PagesOf(new, Rel(new, k)) = PagesOf(st, Rel(st, k))
    BY <1>1, <1>2 DEF PagesOf
  <2>2. Apart(new)
    BY <1>1, <1>2, <2>1 DEF Apart, PagesApart
  <2>3. Below(new)
    BY <1>1, <1>2, <2>1 DEF Below, PagesApart
  <2>4. p < st.catalog.nextPage
    <3>1. i \in 1..Count(st) /\ p \in PagesOf(st, Rel(st, i))
      BY DEF AppendsRow, TablePlaces, PagesOf
    <3> QED BY <1>1, <3>1 DEF PagesApart, Below
  <2>5. \A q \in 1..MaxPage : q >= st.catalog.nextPage => q # p
    <3>1. st.catalog.nextPage \in Int
      BY <1>1, StateTypes, Bounds
    <3> QED BY <1>3, <2>4, <3>1, Bounds
  <2>6. Unused(new)
    BY <1>1, <1>2, <1>3, <2>5 DEF Unused, PagesApart
  <2> QED BY <2>2, <2>3, <2>6 DEF PagesApart
<1>6. /\ \A x \in FullScan(new, Rel(new, i)) : x \in FullScan(st, Rel(st, i)) \/ x = RowAdded(st, p)
      /\ \A k \in TablePlaces(st) : k # i => FullScan(new, Rel(new, k)) = FullScan(st, Rel(st, k))
  BY AppendsScan
<1>7. EntriesMatch(new, pending)
  <2> SUFFICES ASSUME NEW j \in IndexPlaces(st) PROVE EntriesRight(new, j) /\ EntriesThere(new, j, pending)
    BY <1>2 DEF EntriesMatch
  <2>1. Rel(st, j).table \in TablePlaces(st)
    BY <1>1 DEF IndexesKeyed
  <2>2. \A r \in ScanOf(new, j) : r \notin ScanOf(st, j) => [index |-> j, row |-> r] \in pending
    <3>1. CASE Rel(st, j).table = i
      <4>1. \A r \in ScanOf(new, j) : r \in ScanOf(st, j) \/ r = RowAdded(st, p)
        BY <1>2, <1>6, <3>1 DEF ScanOf, TableOf
      <4> QED BY <3>1, <4>1
    <3>2. CASE Rel(st, j).table # i
      <4>1. ScanOf(new, j) = ScanOf(st, j)
        BY <1>2, <1>6, <2>1, <3>2 DEF ScanOf, TableOf
      <4> QED BY <4>1
    <3> QED BY <3>1, <3>2
  <2>3. EntriesGrow(st, new, j) /\ PendingGrow(st, new, j, {}, pending)
    BY <1>1, <2>2 DEF EntriesGrow, PendingGrow
  <2>4. EntriesRight(st, j) /\ EntriesThere(st, j, {})
    BY <1>1 DEF EntriesMatch
  <2> QED BY <1>1, <1>3, <2>3, <2>4, EntriesKept
<1>8. PendingOK(new, pending)
  <2> SUFFICES ASSUME NEW x \in pending PROVE x.index \in IndexPlaces(new) /\ x.row \in ScanOf(new, x.index)
    BY DEF PendingOK
  <2>1. x.index \in IndexPlaces(st) /\ Rel(st, x.index).table = i /\ x.row = RowAdded(st, p)
    OBVIOUS
  <2>2. RowAdded(st, p) \in FullScan(new, Rel(new, i))
    BY AppendsScan
  <2> QED BY <1>2, <2>1, <2>2 DEF ScanOf, TableOf
<1>9. RowsTyped(new)
  BY AppendsRows
<1> QED BY <1>1, <1>3, <1>4, <1>5, <1>7, <1>8, <1>9 DEF StateOK

-----------------------------------------------------------------------------
(* A new index entry. *)

\* "new" is "st" with an entry more in the index j, whose tree may have taken pages.
EntersIndex(st, new, j, grown, entry) ==
    /\ new \in States /\ j \in IndexPlaces(st) /\ new.heap = st.heap
    /\ Count(new) = Count(st)
    /\ \A k \in 1..Count(st) : k # j => Rel(new, k) = Rel(st, k)
    /\ SameRelation(Rel(st, j), Rel(new, j)) /\ Rel(new, j).pages = Rel(st, j).pages
    /\ new.catalog.nextRelation = st.catalog.nextRelation
    /\ new.catalog.extensions = st.catalog.extensions
    /\ \A k \in 1..CatalogCapacity : k # j => new.index[k] = st.index[k]
    /\ new.index[j].pages = st.index[j].pages \cup grown
    /\ new.index[j].entries = st.index[j].entries \cup {entry}
    /\ new.catalog.nextPage \in Int /\ st.catalog.nextPage <= new.catalog.nextPage
    /\ \A p \in grown : /\ p \in Int /\ st.catalog.nextPage <= p
                        /\ p < new.catalog.nextPage

LEMMA EntersFacts ==
    ASSUME NEW st \in States, NEW new, NEW j, NEW grown, NEW entry, EntersIndex(st, new, j, grown, entry)
    PROVE  /\ Extends(st, new) /\ j \in 1..Count(st)
           /\ \A k \in 1..Count(st) : Rel(new, k).pages = Rel(st, k).pages
           /\ \A k \in 1..Count(st) : FullScan(new, Rel(new, k)) = FullScan(st, Rel(st, k))
<1>1. j \in 1..Count(st) /\ Count(st) \in Nat /\ new.heap = st.heap /\ Count(new) = Count(st)
  BY StateTypes DEF EntersIndex, IndexPlaces
<1>2. \A k \in 1..Count(st) : SameRelation(Rel(st, k), Rel(new, k))
  BY DEF SameRelation, EntersIndex
<1>3. \A k \in 1..Count(st) : Rel(new, k).pages = Rel(st, k).pages
  BY DEF EntersIndex
<1>4. \A k \in 1..Count(st) : FullScan(new, Rel(new, k)) = FullScan(st, Rel(st, k))
  BY <1>1, <1>3 DEF FullScan
<1>5. \A p \in 1..MaxPage : new.heap[p] = st.heap[p] /\ Len(st.heap[p]) <= Len(st.heap[p])
  BY <1>1, HeapTypes
<1>6. Extends(st, new)
  BY <1>1, <1>2, <1>5 DEF Extends
<1> QED BY <1>1, <1>3, <1>4, <1>6

LEMMA EntersCatalog ==
    ASSUME NEW st, NEW before, StateOK(st, before), NEW new, NEW j, NEW grown, NEW entry,
           EntersIndex(st, new, j, grown, entry)
    PROVE  CatalogOK(new) /\ RowsTyped(new)
<1>1. /\ st \in States /\ new \in States /\ IndexesKeyed(st) /\ Numbered(st) /\ Installed(st)
      /\ CatalogFormed(st.catalog) /\ RowsTyped(st) /\ Count(new) = Count(st) /\ new.heap = st.heap
      /\ Rel(st, j).kind = "index"
  BY DEF StateOK, CatalogOK, EntersIndex, IndexPlaces
<1>2. /\ Extends(st, new) /\ j \in 1..Count(st)
      /\ \A k \in 1..Count(st) : Rel(new, k).pages = Rel(st, k).pages
  BY <1>1, EntersFacts
<1>3. IndexesKeyed(new)
  <2>1. \A k \in IndexPlaces(new) : k \in 1..Count(st)
    BY <1>1 DEF IndexPlaces
  <2> QED BY <1>1, <1>2, <2>1, KeyedKept
<1>4. CatalogFormed(new.catalog)
  <2>1. \A k \in 1..Count(st) : WellFormed(Rel(st, k))
    BY <1>1 DEF CatalogFormed, Count, Rel
  <2>2. Rel(new, j) \in Relation /\ new.catalog \in Catalog
    BY <1>1, <1>2, StateTypes
  <2>3. WellFormed(Rel(new, j))
    BY <1>1, <1>2, <2>1, <2>2 DEF WellFormed, EntersIndex, SameRelation
  <2>4. \A k \in 1..Count(st) : WellFormed(Rel(new, k))
    BY <2>1, <2>3 DEF EntersIndex
  <2> QED BY <1>1, <2>2, <2>4 DEF CatalogFormed, Count, Rel
<1>5. Numbered(new)
  <2>1. \A k \in 1..Count(st) : Rel(new, k).id = Rel(st, k).id /\ Rel(new, k).name = Rel(st, k).name
    BY <1>2 DEF SameRelation, Extends
  <2>2. new.catalog.nextRelation = st.catalog.nextRelation
    BY DEF EntersIndex
  <2> QED BY <1>1, <2>1, <2>2 DEF Numbered
<1>6. Installed(new)
  BY <1>1 DEF Installed, EntersIndex
<1>7. RowsTyped(new)
  <2> SUFFICES ASSUME NEW k \in TablePlaces(new), NEW p \in Range(Rel(new, k).pages),
                      NEW l \in 1..Len(new.heap[p])
               PROVE  RowOf(new.heap[p][l], Rel(new, k).columns)
    BY DEF RowsTyped
  <2>1. k \in TablePlaces(st) /\ k \in 1..Count(st)
    BY <1>1, <1>2, ExtendsPlaces DEF TablePlaces
  <2>2. Rel(new, k).columns = Rel(st, k).columns /\ Rel(new, k).pages = Rel(st, k).pages
    BY <1>2, <2>1 DEF Extends, SameRelation
  <2> QED BY <1>1, <2>1, <2>2 DEF RowsTyped
<1> QED BY <1>3, <1>4, <1>5, <1>6, <1>7 DEF CatalogOK

LEMMA EntersPages ==
    ASSUME NEW st, NEW before, StateOK(st, before), NEW new, NEW j, NEW grown, NEW entry,
           EntersIndex(st, new, j, grown, entry)
    PROVE  PagesApart(new)
<1>1. /\ st \in States /\ Apart(st) /\ Below(st) /\ Unused(st) /\ Numbered(st) /\ new.heap = st.heap
      /\ Rel(st, j).kind = "index" /\ Count(new) = Count(st)
  BY DEF StateOK, PagesApart, CatalogOK, EntersIndex, IndexPlaces
<1> DEFINE page == st.catalog.nextPage
           next == new.catalog.nextPage
           n == Count(st)
<1>2. /\ j \in 1..n /\ Extends(st, new) /\ \A k \in 1..n : Rel(new, k).pages = Rel(st, k).pages
  BY <1>1, EntersFacts
<1>3. \A k \in 1..n : Rel(st, k).id = k /\ Rel(new, k).id = k /\ Rel(new, k).kind = Rel(st, k).kind
                      /\ k \in 1..CatalogCapacity
  <2>1. \A k \in 1..n : Rel(st, k).id = k /\ Rel(st, k).id \in 1..CatalogCapacity
    BY <1>1, StateTypes, RelationTypes DEF Numbered
  <2> QED BY <1>2, <2>1 DEF Extends, SameRelation
<1>4. \A k \in 1..n : k # j => PagesOf(new, Rel(new, k)) = PagesOf(st, Rel(st, k))
  <2> TAKE k \in 1..n
  <2> HAVE k # j
  <2>1. new.index[k] = st.index[k]
    BY <1>3 DEF EntersIndex
  <2> QED BY <1>2, <1>3, <2>1 DEF PagesOf
<1>5. PagesOf(new, Rel(new, j)) = PagesOf(st, Rel(st, j)) \cup grown
  BY <1>1, <1>2, <1>3 DEF PagesOf, EntersIndex
<1>6. page \in Int
  BY <1>1, StateTypes, Bounds
<1>7. next \in Int /\ page <= next /\ (\A p \in grown : p \in Int /\ page <= p /\ p < next)
  BY <1>6 DEF EntersIndex
<1>8. \A k \in 1..n : \A p \in PagesOf(st, Rel(st, k)) : p \in Int /\ p < page
  <2>1. \A k \in 1..n : PagesOf(st, Rel(st, k)) \subseteq 1..MaxPage
    BY <1>1, PagesOfType
  <2>2. 1..MaxPage \subseteq Int
    BY Bounds
  <2> QED BY <1>1, <2>1, <2>2 DEF Below
<1>9. Unused(new)
  <2>1. \A p \in 1..MaxPage : p >= next => p >= page
    BY <1>6, <1>7, Bounds
  <2>2. \A k \in 1..CatalogCapacity : k > n => k # j
    BY <1>1, <1>2, StateTypes
  <2>3. \A k \in 1..CatalogCapacity : k > n => new.index[k] = st.index[k]
    BY <2>2 DEF EntersIndex
  <2> QED BY <1>1, <2>1, <2>3 DEF Unused
<1>10. \A k, l \in 1..n : k # l => PagesOf(st, Rel(st, k)) \cap PagesOf(st, Rel(st, l)) = {}
  BY <1>1 DEF Apart
<1>11. \A k \in 1..n : \A p \in PagesOf(st, Rel(st, k)) : p < next
  BY <1>6, <1>7, <1>8
<1>12. Count(new) = n
  BY <1>1
<1> HIDE DEF page, next, n
<1>13. Apart(new)
  <2>1. \A k \in 1..n : grown \cap PagesOf(st, Rel(st, k)) = {}
    BY <1>6, <1>7, <1>8
  <2> SUFFICES ASSUME NEW k \in 1..n, NEW l \in 1..n, k # l
               PROVE  PagesOf(new, Rel(new, k)) \cap PagesOf(new, Rel(new, l)) = {}
    BY <1>12 DEF Apart
  <2>2. CASE k = j
    BY <1>4, <1>5, <1>10, <2>1, <2>2
  <2>3. CASE l = j
    BY <1>4, <1>5, <1>10, <2>1, <2>3
  <2>4. CASE k # j /\ l # j
    BY <1>4, <1>10, <2>4
  <2> QED BY <2>2, <2>3, <2>4
<1>14. Below(new)
  <2> SUFFICES ASSUME NEW k \in 1..n, NEW p \in PagesOf(new, Rel(new, k)) PROVE p < next
    BY <1>12 DEF Below, next
  <2> QED BY <1>2, <1>4, <1>5, <1>7, <1>11
<1> QED BY <1>9, <1>13, <1>14 DEF PagesApart

\* insert_index_entry.
LEMMA EntryAdded ==
    ASSUME NEW st, NEW before, StateOK(st, before), NEW new, NEW j, NEW grown, NEW entry,
           EntersIndex(st, new, j, grown, entry),
           entry.row \in ScanOf(st, j), entry.key = KeyAt(st, j, entry.row), HasKey(entry.key),
           entry = [key |-> entry.key, row |-> entry.row],
           NEW pending, pending \subseteq before,
           \A x \in before : x \in pending \/ x = [index |-> j, row |-> entry.row]
    PROVE  StateOK(new, pending) /\ Extends(st, new)
<1>1. /\ st \in States /\ new \in States /\ IndexesKeyed(st) /\ EntriesMatch(st, before)
      /\ PendingOK(st, before) /\ j \in IndexPlaces(st)
  BY DEF StateOK, CatalogOK, EntersIndex
<1>2. /\ Extends(st, new) /\ j \in 1..Count(st)
      /\ \A k \in 1..Count(st) : FullScan(new, Rel(new, k)) = FullScan(st, Rel(st, k))
  BY <1>1, EntersFacts
<1>3. EntriesMatch(new, pending)
  <2> SUFFICES ASSUME NEW k \in IndexPlaces(new) PROVE EntriesRight(new, k) /\ EntriesThere(new, k, pending)
    BY DEF EntriesMatch
  <2>1. k \in IndexPlaces(st) /\ k \in 1..Count(st)
    BY <1>1, <1>2, ExtendsPlaces DEF IndexPlaces, EntersIndex
  <2>2. ScanOf(new, k) = ScanOf(st, k) /\ \A r \in ScanOf(st, k) : KeyAt(new, k, r) = KeyAt(st, k, r)
    <3>1. Rel(new, k).table = Rel(st, k).table /\ Rel(st, k).table \in 1..Count(st)
      BY <1>1, <1>2, <2>1, ExtendsIndex DEF TablePlaces
    <3>2. ScanOf(new, k) = ScanOf(st, k)
      BY <1>2, <3>1 DEF ScanOf, TableOf
    <3>3. \A r \in ScanOf(st, k) : KeyAt(new, k, r) = KeyAt(st, k, r)
      BY <1>1, <1>2, <2>1, ExtendsIndex
    <3> QED BY <3>2, <3>3
  <2>3. k \in 1..CatalogCapacity
    <3>1. Rel(st, k).id = k /\ Rel(st, k) \in Relation
      BY <1>1, <2>1, StateTypes DEF StateOK, CatalogOK, Numbered
    <3> QED BY <3>1, RelationTypes
  <2>4. EntriesGrow(st, new, k)
    <3>1. CASE k = j
      BY <2>2, <3>1 DEF EntriesGrow, EntersIndex
    <3>2. CASE k # j
      BY <2>3, <3>2 DEF EntriesGrow, EntersIndex
    <3> QED BY <3>1, <3>2
  <2>5. PendingGrow(st, new, k, before, pending)
    <3> SUFFICES ASSUME NEW r \in ScanOf(st, k), [index |-> k, row |-> r] \in before,
                        [index |-> k, row |-> r] \notin pending
                 PROVE  [key |-> KeyAt(st, k, r), row |-> r] \in new.index[k].entries
      BY <2>2 DEF PendingGrow
    <3>1. [index |-> k, row |-> r] = [index |-> j, row |-> entry.row]
      OBVIOUS
    <3>2. k = j /\ r = entry.row
      BY <3>1
    <3> QED BY <3>2 DEF EntersIndex
  <2>6. EntriesRight(st, k) /\ EntriesThere(st, k, before)
    BY <1>1, <2>1 DEF EntriesMatch
  <2> QED BY <1>1, <1>2, <2>1, <2>4, <2>5, <2>6, EntriesKept
<1>4. PendingOK(new, pending)
  <2>1. PendingOK(st, pending)
    BY <1>1 DEF PendingOK
  <2> QED BY <1>1, <1>2, <2>1, PendingKept
<1>5. CatalogOK(new) /\ RowsTyped(new) /\ PagesApart(new)
  BY EntersCatalog, EntersPages
<1> QED BY <1>1, <1>2, <1>3, <1>4, <1>5 DEF StateOK

\* A value without a key is passed over.
LEMMA EntryPassed ==
    ASSUME NEW st, NEW before, StateOK(st, before), NEW j, NEW r,
           ~HasKey(KeyAt(st, j, r)), NEW pending, pending \subseteq before,
           \A x \in before : x \in pending \/ x = [index |-> j, row |-> r]
    PROVE  StateOK(st, pending)
<1>1. PendingOK(st, pending)
  BY DEF StateOK, PendingOK
<1>2. EntriesMatch(st, pending)
  <2> SUFFICES ASSUME NEW k \in IndexPlaces(st), NEW q \in ScanOf(st, k), HasKey(KeyAt(st, k, q)),
                      [key |-> KeyAt(st, k, q), row |-> q] \notin st.index[k].entries
               PROVE  [index |-> k, row |-> q] \in pending
    BY DEF StateOK, EntriesMatch, EntriesThere
  <2>1. [index |-> k, row |-> q] \in before
    BY DEF StateOK, EntriesMatch, EntriesThere
  <2>2. [index |-> k, row |-> q] = [index |-> j, row |-> r] => k = j /\ q = r
    OBVIOUS
  <2> QED BY <2>1, <2>2
<1> QED BY <1>1, <1>2 DEF StateOK

-----------------------------------------------------------------------------
(* The statements keep the invariant. *)

LEMMA SchemaColumns == ASSUME NEW columns \in Schemas PROVE columns \in Seq(Column)
<1> DEFINE S == [name : STRING, type : Types]
<1>1. columns \in Seq(S)
  BY SqlAssumption
<1> HIDE DEF S
<1>2. Len(columns) \in Nat /\ DOMAIN columns = 1..Len(columns) /\ \A i \in 1..Len(columns) : columns[i] \in S
  BY <1>1, SeqParts
<1>3. \A i \in 1..Len(columns) : columns[i] \in Column
  <2> TAKE i \in 1..Len(columns)
  <2>1. columns[i].name \in ColumnNames
    BY <1>2 DEF ColumnNames
  <2>2. columns[i] \in [name : STRING, type : Types]
    BY <1>2 DEF S
  <2> QED BY <2>1, <2>2 DEF Column
<1>4. columns = [i \in 1..Len(columns) |-> columns[i]]
  BY <1>1, <1>2
<1> DEFINE n == Len(columns)
<1> HIDE DEF n
<1>5. columns \in [1..n -> Column] /\ n \in Nat
  BY <1>2, <1>3, <1>4 DEF n
<1> QED BY <1>5

LEMMA SingletonSeq ==
    ASSUME NEW S, NEW x \in S
    PROVE  <<x>> \in Seq(S) /\ Len(<<x>>) = 1 /\ Range(<<x>>) = {x} /\ <<x>> # << >>
<1> DEFINE s == <<x>>
<1>1. s \in Seq(S) /\ Len(s) = 1 /\ s[1] = x
  OBVIOUS
<1> HIDE DEF s
<1>2. DOMAIN s = {1}
  <2>1. DOMAIN s = 1..1 /\ 1..1 = {1}
    BY <1>1
  <2> QED BY <2>1
<1>3. Range(s) = {x}
  BY <1>1, <1>2 DEF Range
<1>4. s # << >>
  <2>1. Range(<< >>) = {}
    BY DEF Range
  <2> QED BY <1>3, <2>1
<1> QED BY <1>1, <1>3, <1>4 DEF s

\* The relation that a CREATE statement adds is one of the right form.
LEMMA NewRelation ==
    ASSUME NEW st \in States, Numbered(st), NEW r, Len(r.pages) \in Nat, r.id = st.catalog.nextRelation,
           CatalogFits(WithRelation(st.catalog, r))
    PROVE  r.id = Count(st) + 1 /\ r.id \in 1..CatalogCapacity /\ Count(st) \in Nat
<1>1. Count(st) + 1 <= CatalogCapacity /\ Count(st) \in Nat
  BY StateTypes, WithRelationFits DEF Count
<1> QED BY <1>1, Bounds DEF Numbered

LEMMA CatalogReplaced ==
    ASSUME NEW st \in States, NEW cat \in Catalog
    PROVE  LET new == [st EXCEPT !.catalog = cat]
           IN  new \in States /\ new.catalog = cat /\ new.heap = st.heap /\ new.index = st.index
  BY DEF States

LEMMA CreateTableKeeps ==
    ASSUME SqlInv, NEW name \in Names, NEW columns \in Schemas, CreateTable(name, columns)
    PROVE  SqlInv' /\ Extends(committed, committed')
<1> DEFINE st == committed
           cat == st.catalog
           page == cat.nextPage
           pages == <<page>>
           r == [id |-> cat.nextRelation, name |-> name, kind |-> "table",
                 pages |-> pages, columns |-> columns,
                 table |-> 0, root |-> 0, column |-> ""]
           new == [st EXCEPT !.catalog = WithRelation(cat, r)]
<1>1. StateOK(st, {}) /\ pc = "idle" /\ todo = << >> /\ todo \in Todo
  BY DEF SqlInv, CreateTable
<1>2. st \in States /\ Numbered(st) /\ cat \in Catalog /\ page \in 1..(MaxPage + 1)
  BY <1>1, StateTypes DEF StateOK, CatalogOK
<1>3. /\ RelationsNamed(cat, name) = {} /\ page <= MaxPage /\ CatalogFits(WithRelation(cat, r))
      /\ committed' = new /\ work' = committed' /\ pc' = pc /\ todo' = todo
  BY DEF CreateTable
<1>4. page \in 1..MaxPage
  <2>1. page \in 1..(MaxPage + 1) /\ page <= MaxPage
    BY <1>2, <1>3
  <2> HIDE DEF page
  <2> QED BY <2>1, Bounds
<1>5. pages \in Seq(1..MaxPage) /\ Len(pages) \in Nat /\ Range(pages) = {page} /\ pages # << >>
  <2> DEFINE S == 1..MaxPage
             x == page
  <2>1. x \in S
    BY <1>4
  <2> HIDE DEF S, x
  <2>2. <<x>> \in Seq(S) /\ Len(<<x>>) = 1 /\ Range(<<x>>) = {x} /\ <<x>> # << >>
    BY <2>1, SingletonSeq
  <2> QED BY <2>2 DEF S, x
<1> HIDE DEF pages
<1>6. /\ r.id = cat.nextRelation /\ r.name = name /\ r.kind = "table" /\ r.pages = pages
      /\ r.table = 0 /\ r.root = 0 /\ r.column = ""
  OBVIOUS
<1>7. r.id = Count(st) + 1 /\ r.id \in 1..CatalogCapacity
  <2> HIDE DEF r
  <2> QED BY <1>2, <1>3, <1>5, <1>6, NewRelation
<1>8. r \in Relation
  <2>1. columns \in Seq(Column)
    BY SchemaColumns
  <2>2. 0 \in 0..CatalogCapacity /\ 0 \in 0..MaxPage
    BY Bounds
  <2>3. cat.nextRelation \in 1..CatalogCapacity
    BY <1>6, <1>7
  <2> QED BY <1>5, <2>1, <2>2, <2>3 DEF Relation
<1> HIDE DEF r
<1>9. WellFormed(r)
  BY <1>5, <1>6, <1>8 DEF WellFormed
<1>10. /\ new \in States /\ new.catalog = WithRelation(cat, r) /\ new.heap = st.heap
       /\ new.index = st.index
  <2>1. WithRelation(cat, r) \in Catalog
    BY <1>2, <1>3, <1>8, WithRelationFacts
  <2> QED BY <1>2, <2>1, CatalogReplaced
<1> HIDE DEF new
<1>11. AddsRelation(st, new, r)
  <2>1. PagesOf(new, r) = {page}
    BY <1>5, <1>6 DEF PagesOf
  <2> QED BY <1>3, <1>6, <1>7, <1>9, <1>10, <2>1 DEF AddsRelation
<1>12. StateOK(new, {}) /\ Extends(st, new)
  BY <1>1, <1>6, <1>11, TableAdded
<1>13. Extends(new, new)
  BY <1>10, ExtendsSelf
<1>14. Range(todo) = {}
  BY <1>1 DEF Range
<1>15. Extends(committed, committed')
  BY <1>3, <1>12
<1> HIDE DEF st
<1> QED BY <1>1, <1>3, <1>12, <1>13, <1>14, <1>15 DEF SqlInv

Addresses == [page : 1..MaxPage, slot : 1..MaxRows]

LEMMA AddressesFinite == IsFiniteSet(Addresses)
<1> DEFINE S == (1..MaxPage) \X (1..MaxRows)
           f == [z \in S |-> [page |-> z[1], slot |-> z[2]]]
<1>1. IsFiniteSet(1..MaxPage) /\ IsFiniteSet(1..MaxRows)
  BY Bounds, FS_Interval
<1>2. IsFiniteSet(S)
  BY <1>1, FS_Product
<1>3. f \in Surjection(S, Addresses)
  <2>1. f \in [S -> Addresses]
    BY DEF Addresses
  <2>2. ASSUME NEW a \in Addresses PROVE \E z \in S : f[z] = a
    <3>1. a = [page |-> a.page, slot |-> a.slot] /\ a.page \in 1..MaxPage /\ a.slot \in 1..MaxRows
      BY DEF Addresses
    <3>2. <<a.page, a.slot>> \in S
      BY <3>1
    <3>3. f[<<a.page, a.slot>>] = a
      BY <3>1, <3>2
    <3> QED BY <3>2, <3>3
  <2> QED BY <2>1, <2>2 DEF Surjection
<1> HIDE DEF f, S
<1> QED BY <1>2, <1>3, FS_Surjection

\* The rows of a table are finitely many.
LEMMA ScanFinite ==
    ASSUME NEW st \in States, NEW i \in 1..Count(st)
    PROVE  /\ FullScan(st, Rel(st, i)) \subseteq Addresses /\ FullScan(st, Rel(st, i)) \subseteq RowId
           /\ IsFiniteSet(FullScan(st, Rel(st, i)))
<1>1. Range(Rel(st, i).pages) \subseteq 1..MaxPage
  BY StateTypes, RelationTypes
<1>2. FullScan(st, Rel(st, i)) \subseteq Addresses
  BY <1>1 DEF FullScan, Addresses
<1>3. Addresses \subseteq RowId
  <2>1. 1..MaxRows \subseteq Nat
    BY Bounds
  <2> QED BY <2>1 DEF Addresses, RowId
<1> QED BY <1>2, <1>3, AddressesFinite, FS_Subset

\* SetToSeq lists a finite set.
LEMMA ListsAll ==
    ASSUME NEW S, IsFiniteSet(S)
    PROVE  SetToSeq(S) \in Seq(S) /\ Range(SetToSeq(S)) = S
<1> DEFINE n == Cardinality(S)
           f == SetToSeq(S)
<1>1. n \in Nat /\ ExistsBijection(1..n, S)
  BY FS_CardinalityType
<1>2. \E g \in [1..n -> S] : IsInjective(g)
  BY <1>1 DEF ExistsBijection, Bijection, Injection
<1>3. f \in [1..n -> S] /\ IsInjective(f)
  BY <1>2 DEF SetToSeq
<1> HIDE DEF f
<1>4. f \in Injection(1..n, S)
  BY <1>3 DEF Injection
<1>5. Cardinality(1..n) = n
  BY <1>1, FS_Interval
<1>6. f \in Surjection(1..n, S)
  BY <1>4, <1>5, FS_Injection
<1> HIDE DEF n
<1>7. Range(f) = S
  BY <1>3, <1>6 DEF Range, Surjection
<1>8. f \in Seq(S)
  BY <1>1, <1>3
<1> QED BY <1>7, <1>8 DEF f

LEMMA BackfillFacts ==
    ASSUME NEW st \in States, NEW i \in 1..Count(st), NEW id \in 1..CatalogCapacity
    PROVE  /\ Backfill(st, Rel(st, i), id) \in Todo
           /\ Range(Backfill(st, Rel(st, i), id)) = {[index |-> id, row |-> x] : x \in FullScan(st, Rel(st, i))}
<1> DEFINE S == FullScan(st, Rel(st, i))
           rows == SetToSeq(S)
           b == [k \in DOMAIN rows |-> [index |-> id, row |-> rows[k]]]
           n == Len(rows)
<1>1. IsFiniteSet(S) /\ S \subseteq RowId
  BY ScanFinite
<1>2. rows \in Seq(S) /\ Range(rows) = S
  BY <1>1, ListsAll
<1>3. Backfill(st, Rel(st, i), id) = b
  BY DEF Backfill
<1> HIDE DEF rows, S
<1>4. n \in Nat /\ DOMAIN rows = 1..n /\ \A k \in 1..n : rows[k] \in S
  BY <1>2, SeqParts
<1> HIDE DEF n
<1>5. DOMAIN b = 1..n /\ \A k \in 1..n : b[k] = [index |-> id, row |-> rows[k]]
  BY <1>4
<1>6. b \in [1..n -> [index : 1..CatalogCapacity, row : RowId]]
  BY <1>1, <1>4
<1> DEFINE R == [index : 1..CatalogCapacity, row : RowId]
<1> HIDE DEF b, R
<1>7. b \in Seq(R)
  <2>1. b \in [1..n -> R]
    BY <1>6 DEF R
  <2> QED BY <1>4, <2>1
<1>8. Range(b) = {[index |-> id, row |-> x] : x \in S}
  <2>1. S = {rows[k] : k \in 1..n}
    BY <1>2, <1>4 DEF Range
  <2>2. Range(b) = {b[k] : k \in 1..n}
    BY <1>5 DEF Range
  <2> QED BY <1>5, <2>1, <2>2
<1> QED BY <1>3, <1>7, <1>8 DEF Todo, R, S

\* set pages of one index.
WithIndex(st, cat, id, p) == [st EXCEPT !.catalog = cat, !.index[id].pages = {p}]
LEMMA IndexReplaced ==
    ASSUME NEW st \in States, NEW cat \in Catalog, NEW id \in 1..CatalogCapacity, NEW p \in 1..MaxPage
    PROVE  LET new == WithIndex(st, cat, id, p)
           IN  /\ new \in States /\ new.catalog = cat /\ new.heap = st.heap
               /\ \A j \in 1..CatalogCapacity : j # id => new.index[j] = st.index[j]
               /\ new.index[id].pages = {p} /\ new.index[id].entries = st.index[id].entries
<1> DEFINE x == [st.index[id] EXCEPT !.pages = {p}]
           f == [st.index EXCEPT ![id] = x]
           new == WithIndex(st, cat, id, p)
<1>1. st.index \in [1..CatalogCapacity -> Index] /\ st.index[id] \in Index
  BY StateTypes, IndexType DEF Indexes
<1>2. x \in Index /\ x.pages = {p} /\ x.entries = st.index[id].entries
  <2>1. {p} \in SUBSET (1..MaxPage)
    OBVIOUS
  <2> QED BY <1>1, <2>1 DEF Index
<1> HIDE DEF x
<1>3. f \in Indexes /\ f[id] = x /\ \A j \in 1..CatalogCapacity : j # id => f[j] = st.index[j]
  BY <1>1, <1>2 DEF Indexes
<1>4. new = [st EXCEPT !.catalog = cat, !.index = f]
  BY DEF WithIndex, x
<1> HIDE DEF f
<1>5. new \in States /\ new.catalog = cat /\ new.heap = st.heap /\ new.index = f
  BY <1>3, <1>4 DEF States
<1> HIDE DEF new
<1>6. /\ \A j \in 1..CatalogCapacity : j # id => new.index[j] = st.index[j]
      /\ new.index[id].pages = {p} /\ new.index[id].entries = st.index[id].entries
  BY <1>2, <1>3, <1>5
<1> QED BY <1>5, <1>6 DEF new

LEMMA CreateIndexKeeps ==
    ASSUME SqlInv, NEW name \in Names, NEW relation \in Tables(committed.catalog),
           NEW k \in DOMAIN relation.columns, CreateIndex(name, relation, relation.columns[k].name)
    PROVE  SqlInv'
<1> DEFINE st == committed
           cat == st.catalog
           page == cat.nextPage
           column == relation.columns[k].name
           columns == <<[name |-> column, type |-> "INDEX_KEY"]>>
           id == cat.nextRelation
           r == [id |-> id, name |-> name, kind |-> "index", pages |-> << >>,
                 columns |-> columns,
                 table |-> relation.id, root |-> page, column |-> column]
           new == [st EXCEPT !.catalog = WithRelation(cat, r), !.index[id].pages = {page}]
<1>1. StateOK(st, {}) /\ pc = "idle" /\ todo = << >> /\ todo \in Todo
  BY DEF SqlInv, CreateIndex
<1>2. /\ st \in States /\ Numbered(st) /\ cat \in Catalog /\ page \in 1..(MaxPage + 1) /\ Unused(st)
      /\ Count(st) \in Nat
  BY <1>1, StateTypes DEF StateOK, CatalogOK, PagesApart
<1>3. /\ RelationsNamed(cat, name) = {} /\ page <= MaxPage /\ CatalogFits(WithRelation(cat, r))
      /\ relation.columns[ColumnIndex(relation, column)].type \in {"INT", "TEXT"}
      /\ work' = new /\ committed' = committed /\ pc' = "entries"
      /\ todo' = Backfill(committed, relation, id)
  BY DEF CreateIndex
<1>4. PICK t \in TablePlaces(st) : relation = Rel(st, t)
  BY <1>2, RelationsAre
<1>5. t \in 1..Count(st) /\ relation \in Relation /\ relation.id = t
  BY <1>2, <1>4, StateTypes DEF Numbered, TablePlaces
<1>6. page \in 1..MaxPage
  <2>1. page \in 1..(MaxPage + 1) /\ page <= MaxPage
    BY <1>2, <1>3
  <2> HIDE DEF page
  <2> QED BY <2>1, Bounds
<1>7. relation.columns \in Seq(Column) /\ k \in 1..Len(relation.columns) /\ relation.id \in 1..CatalogCapacity
  BY <1>5, RelationTypes
<1>8. column \in ColumnNames
  <2>1. relation.columns[k] \in Column
    BY <1>7
  <2> QED BY <2>1 DEF Column
<1>9. columns \in Seq(Column)
  <2> DEFINE c == [name |-> column, type |-> "INDEX_KEY"]
  <2>1. c \in Column
    BY <1>8 DEF Column
  <2> HIDE DEF c
  <2>2. <<c>> \in Seq(Column)
    BY <2>1, SingletonSeq
  <2> QED BY <2>2 DEF c
<1> HIDE DEF columns, column
<1>10. /\ r.id = id /\ r.name = name /\ r.kind = "index" /\ r.pages = << >>
       /\ r.table = relation.id /\ r.root = page /\ r.column = column
  OBVIOUS
<1>11. r.id = Count(st) + 1 /\ r.id \in 1..CatalogCapacity
  <2> HIDE DEF r
  <2>1. Len(r.pages) \in Nat
    BY <1>10
  <2> QED BY <1>2, <1>3, <1>10, <2>1, NewRelation
<1>12. r \in Relation
  <2>1. relation.id \in 0..CatalogCapacity /\ page \in 0..MaxPage
    <3> DEFINE x == relation.id
    <3>1. x \in 1..CatalogCapacity /\ page \in 1..MaxPage
      BY <1>6, <1>7
    <3> HIDE DEF x, page
    <3>2. x \in 0..CatalogCapacity /\ page \in 0..MaxPage
      BY <3>1, Bounds
    <3> QED BY <3>2 DEF x
  <2>2. id \in 1..CatalogCapacity
    BY <1>10, <1>11
  <2>3. << >> \in Seq(1..MaxPage)
    OBVIOUS
  <2> HIDE DEF id, page
  <2> QED BY <1>8, <1>9, <2>1, <2>2, <2>3 DEF Relation
<1> HIDE DEF r
<1>13. WellFormed(r)
  BY <1>10, <1>12 DEF WellFormed
<1>14. id \in 1..CatalogCapacity /\ id = Count(st) + 1
  BY <1>10, <1>11
<1>15. /\ new \in States /\ new.catalog = WithRelation(cat, r) /\ new.heap = st.heap
       /\ \A j \in 1..CatalogCapacity : j # id => new.index[j] = st.index[j]
       /\ new.index[id].pages = {page} /\ new.index[id].entries = st.index[id].entries
  <2>1. WithRelation(cat, r) \in Catalog
    BY <1>2, <1>3, <1>12, WithRelationFacts
  <2> DEFINE c == WithRelation(cat, r)
  <2> DEFINE w == WithIndex(st, c, id, page)
  <2>2. c \in Catalog /\ id \in 1..CatalogCapacity /\ page \in 1..MaxPage /\ st \in States
    BY <1>2, <1>6, <1>14, <2>1
  <2> HIDE DEF c, id, page, st
  <2>3. /\ w \in States /\ w.catalog = c /\ w.heap = st.heap
        /\ \A j \in 1..CatalogCapacity : j # id => w.index[j] = st.index[j]
        /\ w.index[id].pages = {page} /\ w.index[id].entries = st.index[id].entries
    BY <2>2, IndexReplaced
  <2>4. w = new
    BY DEF WithIndex, c
  <2> HIDE DEF w, new
  <2> QED BY <2>3, <2>4 DEF c
<1> HIDE DEF new
<1>16. new.index[id].entries = {}
  <2>1. id > Count(st)
    BY <1>2, <1>14
  <2> QED BY <1>2, <1>14, <1>15, <2>1 DEF Unused
<1>17. AddsRelation(st, new, r)
  <2>1. PagesOf(new, r) = {page}
    BY <1>10, <1>15 DEF PagesOf
  <2> QED BY <1>3, <1>10, <1>11, <1>13, <1>14, <1>15, <2>1 DEF AddsRelation
<1>18. todo' \in Todo /\ Range(todo') = {[index |-> id, row |-> x] : x \in FullScan(st, Rel(st, t))}
  BY <1>2, <1>3, <1>4, <1>5, <1>14, BackfillFacts
<1>19. ColumnIndex(relation, column) \in 1..Len(relation.columns)
  BY <1>7, ColumnFound DEF column
<1>20. StateOK(new, Range(todo')) /\ Extends(st, new)
  <2>1. r.table = t /\ r.kind = "index" /\ Rel(st, r.table) = relation
    BY <1>4, <1>5, <1>10
  <2>2. \A x \in FullScan(st, Rel(st, r.table)) : [index |-> Count(st) + 1, row |-> x] \in Range(todo')
    BY <1>14, <1>18, <2>1
  <2>3. \A x \in Range(todo') : x.index = Count(st) + 1 /\ x.row \in FullScan(st, Rel(st, r.table))
    BY <1>14, <1>18, <2>1
  <2>4. /\ r.table \in TablePlaces(st)
        /\ ColumnIndex(Rel(st, r.table), r.column) \in 1..Len(Rel(st, r.table).columns)
        /\ Rel(st, r.table).columns[ColumnIndex(Rel(st, r.table), r.column)].type \in {"INT", "TEXT"}
        /\ new.index[Count(st) + 1].entries = {}
    BY <1>3, <1>10, <1>14, <1>16, <1>19, <2>1
  <2> DEFINE pending == Range(todo')
  <2> HIDE DEF pending, st
  <2> QED BY <1>1, <1>17, <2>1, <2>2, <2>3, <2>4, IndexAdded DEF pending
<1> HIDE DEF st
<1>21. pc' \in {"idle", "entries"} /\ pc' # "idle"
  BY <1>3
<1> QED BY <1>1, <1>3, <1>18, <1>20, <1>21 DEF SqlInv, st

\* What coerce_value makes of a literal can be stored in the column.
LEMMA CoercedFits ==
    ASSUME NEW type, NEW v \in Literals, Coercible(type, v)
    PROVE  Coerced(type, v) \in Stored /\ Fits(type, Coerced(type, v))
<1>1. v \in Value /\ (v.type = "null" => v.n = 0)
  BY SqlAssumption
<1>2. v.type \in {"null", "int", "text", "double"} /\ v.n \in Int
  BY <1>1 DEF Value
<1>3. CASE type = "DOUBLE" /\ v.type = "int"
  <2> DEFINE w == [v EXCEPT !.type = "double"]
  <2>1. Coerced(type, v) = w
    BY <1>3 DEF Coerced
  <2>2. w \in Value /\ w.type = "double"
    BY <1>1 DEF Value
  <2> HIDE DEF w
  <2>3. w \in Stored
    BY <2>2 DEF Stored
  <2>4. Fits(type, w)
    BY <1>3, <2>2 DEF Fits
  <2> QED BY <2>1, <2>3, <2>4
<1>4. CASE ~(type = "DOUBLE" /\ v.type = "int")
  <2>1. Coerced(type, v) = v
    BY <1>4 DEF Coerced
  <2>2. v \in Stored
    BY <1>1 DEF Stored
  <2>3. Fits(type, v)
    BY <1>2, <1>4 DEF Fits, Coercible
  <2> QED BY <2>1, <2>2, <2>3
<1> QED BY <1>3, <1>4

LEMMA EncodeRowIn == ASSUME NEW row \in Seq(Stored) PROVE EncodeRow(row) \in Seq(RowField)
<1> DEFINE n == Len(row)
           ss == [i \in DOMAIN row |-> EncodeValue(row[i])]
           h == <<Field("magic", "RDBR"), Field("u16", 1), Field("u16", n)>>
           t == FlattenSeq(ss)
<1>1. n \in Nat /\ DOMAIN row = 1..n
  OBVIOUS
<1>2. ss \in Seq(Seq(RowField))
  <2>1. \A i \in 1..n : row[i] \in Stored
    OBVIOUS
  <2>2. \A i \in 1..n : EncodeValue(row[i]) \in Seq(RowField)
    BY <2>1, EncodeValueFacts
  <2> HIDE DEF n
  <2>3. ss = [i \in 1..n |-> EncodeValue(row[i])]
    BY <1>1
  <2> QED BY <1>1, <2>2, <2>3
<1>3. h \in Seq(RowField)
  <2>1. Field("magic", "RDBR") \in RowField /\ Field("u16", 1) \in RowField
    BY DEF Field, RowField
  <2>2. Field("u16", n) \in RowField
    BY <1>1 DEF Field, RowField
  <2> HIDE DEF n
  <2> QED BY <2>1, <2>2
<1>4. t \in Seq(RowField)
  <2> HIDE DEF ss
  <2> QED BY <1>2, FlattenPlaces
<1>5. EncodeRow(row) = h \o t
  BY DEF EncodeRow
<1> HIDE DEF h, t
<1>6. h \o t \in Seq(RowField)
  BY <1>3, <1>4, ConcatFacts
<1> QED BY <1>5, <1>6

\* The row that INSERT encodes is a row of the table.
RowFor(relation, values) == [i \in DOMAIN values |-> Coerced(relation.columns[i].type, values[i])]

LEMMA RowForFits ==
    ASSUME NEW relation \in Relation, NEW values \in Rows(relation),
           \A i \in DOMAIN values : Coercible(relation.columns[i].type, values[i])
    PROVE  LET bytes == EncodeRow(RowFor(relation, values))
           IN  bytes \in Seq(RowField) /\ RowOf(bytes, relation.columns)
<1> DEFINE row == RowFor(relation, values)
           n == Len(relation.columns)
           bytes == EncodeRow(row)
<1>1. n \in Nat /\ DOMAIN relation.columns = 1..n
  BY RelationTypes
<1>2. DOMAIN values = 1..n /\ \A i \in 1..n : values[i] \in Literals
  BY <1>1 DEF Rows
<1> HIDE DEF n
<1>3. row = [i \in 1..n |-> Coerced(relation.columns[i].type, values[i])]
  BY <1>2 DEF RowFor
<1>4. \A i \in 1..n : row[i] = Coerced(relation.columns[i].type, values[i])
  BY <1>3
<1>5. \A i \in 1..n : row[i] \in Stored /\ Fits(relation.columns[i].type, row[i])
  BY <1>2, <1>4, CoercedFits
<1>6. row \in [1..n -> Stored]
  BY <1>3, <1>5
<1> HIDE DEF row
<1>7. row \in Seq(Stored) /\ Len(row) = n
  BY <1>1, <1>6
<1>8. bytes \in Seq(RowField) /\ DecodeRow(bytes).values = row
  BY <1>7, EncodeRowIn, RowReadsBack
<1>9. RowOf(bytes, relation.columns)
  BY <1>5, <1>7, <1>8 DEF RowOf, n
<1> QED BY <1>8, <1>9 DEF row

\* There is room for a row: fewer than MaxRows rows in all.
LEMMA AllRowsFinite ==
    ASSUME NEW st \in States
    PROVE  /\ IsFiniteSet(AllRows(st)) /\ Cardinality(AllRows(st)) \in Nat
           /\ \A i \in TablePlaces(st) : FullScan(st, Rel(st, i)) \subseteq AllRows(st)
<1>1. Tables(st.catalog) = {Rel(st, i) : i \in TablePlaces(st)} /\ TablePlaces(st) \subseteq 1..Count(st)
  BY RelationsAre DEF TablePlaces
<1>2. \A i \in TablePlaces(st) : FullScan(st, Rel(st, i)) \subseteq Addresses
  BY <1>1, ScanFinite
<1>3. AllRows(st) \subseteq Addresses
  BY <1>1, <1>2 DEF AllRows
<1>4. IsFiniteSet(AllRows(st))
  BY <1>3, AddressesFinite, FS_Subset
<1>5. \A i \in TablePlaces(st) : FullScan(st, Rel(st, i)) \subseteq AllRows(st)
  BY <1>1 DEF AllRows
<1> QED BY <1>4, <1>5, FS_CardinalityType

LEMMA RoomLeft ==
    ASSUME NEW st \in States, Cardinality(AllRows(st)) < MaxRows, NEW i \in TablePlaces(st),
           NEW p \in Range(Rel(st, i).pages)
    PROVE  Len(st.heap[p]) < MaxRows
<1> SUFFICES ASSUME ~(Len(st.heap[p]) < MaxRows) PROVE FALSE
  OBVIOUS
<1> DEFINE S == 1..MaxRows
           T == AllRows(st)
           f == [k \in S |-> [page |-> p, slot |-> k]]
           m == Len(st.heap[p])
<1>1. i \in 1..Count(st)
  BY DEF TablePlaces
<1>2. p \in 1..MaxPage
  BY <1>1, StateTypes, RelationTypes
<1>3. m \in Nat /\ ~(m < MaxRows)
  BY <1>2, HeapTypes
<1>4. ASSUME NEW k \in S PROVE [page |-> p, slot |-> k] \in T
  <2> DEFINE x == [page |-> p, slot |-> k]
  <2>1. x.page = p /\ x.slot = k /\ x \in [page : Range(Rel(st, i).pages), slot : 1..MaxRows]
    OBVIOUS
  <2> HIDE DEF m
  <2>2. k <= m
    BY <1>3, Bounds
  <2> HIDE DEF x
  <2>3. x \in FullScan(st, Rel(st, i))
    BY <2>1, <2>2, ScanFacts DEF m
  <2> QED BY <2>3, AllRowsFinite DEF x
<1>5. f \in [S -> T]
  <2> HIDE DEF S, T
  <2> QED BY <1>4
<1>6. IsInjective(f)
  <2> HIDE DEF S
  <2>1. DOMAIN f = S /\ \A k \in S : f[k].slot = k
    OBVIOUS
  <2> HIDE DEF f
  <2> QED BY <2>1 DEF IsInjective
<1> HIDE DEF f
<1>7. f \in Injection(S, T)
  BY <1>5, <1>6 DEF Injection
<1>8. Cardinality(S) <= Cardinality(T)
  <2> HIDE DEF S, T
  <2>1. IsFiniteSet(T)
    BY AllRowsFinite DEF T
  <2> QED BY <1>7, <2>1, FS_Injection
<1>9. Cardinality(S) = MaxRows
  BY Bounds, FS_Interval
<1> HIDE DEF S
<1>10. Cardinality(T) \in Nat /\ Cardinality(T) < MaxRows
  BY AllRowsFinite
<1> HIDE DEF T
<1> QED BY <1>8, <1>9, <1>10, Bounds

\* The address of the new row.
LEMMA NewRowIs ==
    ASSUME NEW st \in States, NEW new \in States, NEW p \in 1..MaxPage,
           Len(new.heap[p]) = Len(st.heap[p]) + 1, Len(st.heap[p]) < MaxRows,
           \A q \in 1..MaxPage : q # p => new.heap[q] = st.heap[q]
    PROVE  NewRow(st, new) = RowAdded(st, p) /\ RowAdded(st, p) \in RowId
<1> DEFINE m == Len(st.heap[p])
           row == RowAdded(st, p)
           Is(r) == r.slot = Len(new.heap[r.page]) /\ Len(st.heap[r.page]) < r.slot
<1>1. m \in Nat /\ m < MaxRows
  BY HeapTypes
<1>2. row = [page |-> p, slot |-> m + 1]
  BY DEF RowAdded
<1>3. row.page = p /\ row.slot = m + 1
  BY <1>2
<1> HIDE DEF m, row
<1>4. m + 1 \in 1..MaxRows /\ m < m + 1
  BY <1>1, Bounds
<1>5. row \in [page : 1..MaxPage, slot : 1..MaxRows]
  BY <1>2, <1>4
<1>6. Is(row)
  BY <1>3, <1>4 DEF m
<1>7. ASSUME NEW r \in [page : 1..MaxPage, slot : 1..MaxRows], Is(r) PROVE r = row
  <2>1. r.page = p
    <3> SUFFICES ASSUME r.page # p PROVE FALSE
      OBVIOUS
    <3>1. r.page \in 1..MaxPage
      OBVIOUS
    <3>2. Len(st.heap[r.page]) \in Nat /\ new.heap[r.page] = st.heap[r.page]
      BY <3>1, HeapTypes
    <3> QED BY <1>7, <3>2
  <2>2. r.slot = m + 1
    BY <1>7, <2>1 DEF m
  <2>3. r = [page |-> r.page, slot |-> r.slot]
    OBVIOUS
  <2> QED BY <1>2, <2>1, <2>2, <2>3
<1>8. NewRow(st, new) = CHOOSE r \in [page : 1..MaxPage, slot : 1..MaxRows] : Is(r)
  BY DEF NewRow
<1> HIDE DEF Is
<1>9. NewRow(st, new) = row
  BY <1>5, <1>6, <1>7, <1>8
<1>10. row \in RowId
  BY <1>1, <1>2, <1>5 DEF RowId
<1> QED BY <1>9, <1>10 DEF row

\* The entries that INSERT has to add.
LEMMA EntriesForFacts ==
    ASSUME NEW st \in States, Numbered(st), NEW i \in 1..Count(st), NEW row \in RowId
    PROVE  LET e == EntriesFor(st, Rel(st, i), row)
           IN  /\ e \in Todo
               /\ \A j \in IndexPlaces(st) : Rel(st, j).table = i => [index |-> j, row |-> row] \in Range(e)
               /\ \A x \in Range(e) : /\ x.index \in IndexPlaces(st) /\ Rel(st, x.index).table = i
                                      /\ x.row = row
<1> DEFINE s == IndexesOn(st.catalog, Rel(st, i).id)
           e == EntriesFor(st, Rel(st, i), row)
           n == Len(s)
           R == [index : 1..CatalogCapacity, row : RowId]
<1>1. Rel(st, i).id = i /\ st.catalog.relations \in Seq(Relation)
  BY StateTypes DEF Numbered
<1>2. /\ s \in Seq(Relation)
      /\ \A r \in Range(s) : \E j \in 1..Count(st) :
           r = Rel(st, j) /\ Rel(st, j).kind = "index" /\ Rel(st, j).table = i
      /\ \A j \in 1..Count(st) :
           Rel(st, j).kind = "index" /\ Rel(st, j).table = i => Rel(st, j) \in Range(s)
  BY <1>1, IndexesOnFacts DEF Rel, Count
<1>3. e = [k \in DOMAIN s |-> [index |-> s[k].id, row |-> row]]
  BY DEF EntriesFor
<1> HIDE DEF s, e
<1>4. n \in Nat /\ DOMAIN s = 1..n /\ \A k \in 1..n : s[k] \in Relation /\ s[k].id \in 1..CatalogCapacity
  BY <1>2, SeqParts, RelationTypes
<1>5. Range(s) = {s[k] : k \in 1..n}
  BY <1>4 DEF Range
<1> HIDE DEF n
<1>6. e = [k \in 1..n |-> [index |-> s[k].id, row |-> row]]
  BY <1>3, <1>4
<1>7. e \in [1..n -> R] /\ DOMAIN e = 1..n /\ \A k \in 1..n : e[k] = [index |-> s[k].id, row |-> row]
  BY <1>4, <1>6
<1>8. Range(e) = {[index |-> s[k].id, row |-> row] : k \in 1..n}
  BY <1>7 DEF Range
<1> HIDE DEF R
<1>9. e \in Seq(R)
  BY <1>4, <1>7
<1>10. \A j \in 1..Count(st) : Rel(st, j).id = j
  BY DEF Numbered
<1>11. ASSUME NEW j \in IndexPlaces(st), Rel(st, j).table = i PROVE [index |-> j, row |-> row] \in Range(e)
  <2>1. j \in 1..Count(st) /\ Rel(st, j) \in Range(s)
    BY <1>2, <1>11 DEF IndexPlaces
  <2>2. PICK k \in 1..n : s[k] = Rel(st, j)
    BY <1>5, <2>1
  <2> QED BY <1>8, <1>10, <2>1, <2>2
<1>12. ASSUME NEW x \in Range(e)
       PROVE  x.index \in IndexPlaces(st) /\ Rel(st, x.index).table = i /\ x.row = row
  <2>1. PICK k \in 1..n : x = [index |-> s[k].id, row |-> row]
    BY <1>8
  <2>2. PICK j \in 1..Count(st) : s[k] = Rel(st, j) /\ Rel(st, j).kind = "index" /\ Rel(st, j).table = i
    BY <1>2, <1>5
  <2>3. x.index = j /\ x.row = row
    BY <1>10, <2>1, <2>2
  <2> QED BY <2>2, <2>3 DEF IndexPlaces
<1> QED BY <1>9, <1>11, <1>12 DEF e, R, Todo

HeapWith(st, p, bytes) == [st.heap EXCEPT ![p] = Append(@, bytes)]
Appended(st, p, bytes, cat) == [st EXCEPT !.heap = HeapWith(st, p, bytes), !.catalog = cat]

LEMMA HeapAppended ==
    ASSUME NEW st \in States, NEW p \in 1..MaxPage, NEW bytes \in Seq(RowField), NEW cat \in Catalog
    PROVE  LET new == Appended(st, p, bytes, cat)
           IN  new \in States /\ new.heap = HeapWith(st, p, bytes) /\ new.catalog = cat /\ new.index = st.index
<1> DEFINE s == st.heap[p]
           S == Seq(RowField)
           heap == [st.heap EXCEPT ![p] = Append(@, bytes)]
           new == [st EXCEPT !.heap = heap, !.catalog = cat]
<1>1. s \in Seq(S) /\ bytes \in S /\ st.heap \in [1..MaxPage -> Seq(S)]
  BY HeapTypes, StateTypes
<1>2. heap = [st.heap EXCEPT ![p] = Append(s, bytes)]
  BY <1>1
<1>3. Append(s, bytes) \in Seq(S)
  <2> HIDE DEF s, S
  <2> QED BY <1>1, AppendLast
<1> DEFINE t == Append(s, bytes)
<1> HIDE DEF t
<1>4. heap \in [1..MaxPage -> Seq(S)]
  <2>1. heap = [st.heap EXCEPT ![p] = t] /\ t \in Seq(S)
    BY <1>2, <1>3 DEF t
  <2> HIDE DEF S
  <2> QED BY <1>1, <2>1
<1> HIDE DEF heap
<1>5. new \in States /\ new.heap = heap /\ new.catalog = cat /\ new.index = st.index
  BY <1>4 DEF States
<1>6. Appended(st, p, bytes, cat) = new /\ HeapWith(st, p, bytes) = heap
  BY DEF Appended, HeapWith, heap
<1> QED BY <1>5, <1>6

\* insert_row finds a page of the table, or takes a new one.
LEMMA InsertRowKeeps ==
    ASSUME NEW st, StateOK(st, {}), NEW t \in TablePlaces(st), NEW bytes \in Seq(RowField),
           RowOf(bytes, Rel(st, t).columns), Cardinality(AllRows(st)) < MaxRows,
           RowFits(st, Rel(st, t), bytes)
    PROVE  LET new == InsertRow(st, Rel(st, t), bytes)
               e == EntriesFor(st, Rel(st, t), NewRow(st, new))
           IN  StateOK(new, Range(e)) /\ Extends(st, new) /\ e \in Todo
<1> DEFINE r == Rel(st, t)
           new == InsertRow(st, r, bytes)
           open == PagesWithRoom(st, r, bytes)
           cat == st.catalog
<1>1. st \in States /\ Numbered(st) /\ t \in 1..Count(st) /\ cat \in Catalog /\ r.id = t /\ r \in Relation
  BY StateTypes DEF StateOK, CatalogOK, TablePlaces, Numbered
<1>2. CASE open # {}
  <2> DEFINE k == CHOOSE i \in open : \A j \in open : i <= j
             p == r.pages[k]
             heap == HeapWith(st, p, bytes)
  <2>1. open \subseteq 1..Len(r.pages) /\ open \subseteq Nat
    <3>1. open \subseteq DOMAIN r.pages
      BY Zenon DEF PagesWithRoom
    <3>2. DOMAIN r.pages = 1..Len(r.pages) /\ Len(r.pages) \in Nat
      BY <1>1, RelationTypes
    <3> DEFINE m == Len(r.pages)
    <3> HIDE DEF m, open
    <3>3. 1..m \subseteq Nat
      BY <3>2 DEF m
    <3> QED BY <3>1, <3>2, <3>3 DEF m
  <2>2. k \in open
    <3> HIDE DEF open
    <3> QED BY <1>2, <2>1, NatMin
  <2>3. new = [st EXCEPT !.heap[p] = Append(@, bytes)]
    BY <1>2 DEF InsertRow
  <2> HIDE DEF k, open
  <2>4. p \in Range(r.pages) /\ p \in 1..MaxPage
    <3>1. k \in DOMAIN r.pages /\ Range(r.pages) \subseteq 1..MaxPage
      BY <1>1, <2>1, <2>2, RelationTypes
    <3> QED BY <3>1 DEF Range
  <2>5. Len(st.heap[p]) < MaxRows
    BY <1>1, <2>4, RoomLeft
  <2> HIDE DEF p, new
  <2>6. new \in States /\ new.heap = heap /\ new.catalog = st.catalog /\ new.index = st.index
    <3>1. new = Appended(st, p, bytes, cat)
      BY <1>1, <2>3, <2>4 DEF States, Appended, HeapWith
    <3> QED BY <1>1, <2>4, <3>1, HeapAppended
  <2>7. AppendsRow(st, new, t, p, bytes)
    BY <2>4, <2>5, <2>6 DEF AppendsRow, HeapWith
  <2>8. /\ Len(new.heap[p]) = Len(st.heap[p]) + 1
        /\ \A q \in 1..MaxPage : q # p => new.heap[q] = st.heap[q]
    BY <1>1, <2>7, AppendsFacts
  <2>9. NewRow(st, new) = RowAdded(st, p) /\ RowAdded(st, p) \in RowId
    BY <1>1, <2>4, <2>5, <2>6, <2>8, NewRowIs
  <2> DEFINE e == EntriesFor(st, r, RowAdded(st, p))
  <2>10. /\ e \in Todo
         /\ \A j \in IndexPlaces(st) : Rel(st, j).table = t => [index |-> j, row |-> RowAdded(st, p)] \in Range(e)
         /\ \A x \in Range(e) : /\ x.index \in IndexPlaces(st) /\ Rel(st, x.index).table = t
                                /\ x.row = RowAdded(st, p)
    BY <1>1, <2>9, EntriesForFacts
  <2> HIDE DEF e
  <2>11. StateOK(new, Range(e)) /\ Extends(st, new)
    BY <2>7, <2>10, RowAppended
  <2> QED BY <2>9, <2>10, <2>11 DEF new, e
<1>3. CASE open = {}
  <2> DEFINE p == cat.nextPage
             grown == WithHeapPage(cat, t)
             mid == [st EXCEPT !.catalog = grown]
             heap == HeapWith(st, p, bytes)
  <2>1. p <= MaxPage
    BY <1>3 DEF RowFits
  <2>2. p \in 1..MaxPage
    <3>1. p \in 1..(MaxPage + 1)
      BY <1>1, StateTypes
    <3> HIDE DEF p
    <3> QED BY <2>1, <3>1, Bounds
  <2>3. grown \in Catalog
    <3>1. \A k \in 1..Len(cat.relations) : cat.relations[k].id = k
      BY <1>1 DEF Numbered, Rel, Count
    <3>2. t \in 1..Len(cat.relations)
      BY <1>1 DEF Count
    <3> HIDE DEF cat
    <3> QED BY <1>1, <2>1, <3>1, <3>2, WithHeapPageFacts
  <2>4. mid \in States /\ mid.catalog = grown /\ mid.heap = st.heap /\ mid.index = st.index
    <3> HIDE DEF grown
    <3> QED BY <1>1, <2>3, CatalogReplaced
  <2>5. GrowsTable(st, mid, t)
    <3> HIDE DEF mid
    <3> QED BY <1>1, <2>1, <2>4 DEF GrowsTable
  <2> HIDE DEF mid
  <2>6. StateOK(mid, {}) /\ Extends(st, mid)
    BY <2>5, TableGrown
  <2>7. /\ Count(mid) = Count(st) /\ SameRelation(r, Rel(mid, t)) /\ p \in Range(Rel(mid, t).pages)
        /\ t \in TablePlaces(mid) /\ Numbered(mid)
    <3>1. Count(mid) = Count(st) /\ SameRelation(r, Rel(mid, t)) /\ p \in Range(Rel(mid, t).pages)
      BY <1>1, <2>5, GrowsFacts
    <3>2. t \in TablePlaces(mid) /\ Numbered(mid)
      BY <1>1, <2>4, <2>6, ExtendsPlaces DEF StateOK, CatalogOK
    <3> QED BY <3>1, <3>2
  <2>8. Len(st.heap[p]) < MaxRows
    <3>1. Len(st.heap[p]) = 0
      BY <1>1, <2>2, NextPageEmpty DEF StateOK, PagesApart
    <3>2. Cardinality(AllRows(st)) \in Nat
      BY <1>1, AllRowsFinite
    <3> DEFINE c == Cardinality(AllRows(st))
    <3> HIDE DEF c
    <3>3. c \in Nat /\ c < MaxRows
      BY <3>2 DEF c
    <3> QED BY <3>1, <3>3, Bounds
  <2>9. new = [st EXCEPT !.heap[p] = Append(@, bytes), !.catalog = grown]
    BY <1>1, <1>3 DEF InsertRow
  <2> HIDE DEF p, new, grown
  <2>10. new \in States /\ new.heap = heap /\ new.catalog = grown /\ new.index = st.index
    <3>1. new = Appended(st, p, bytes, grown)
      BY <1>1, <2>2, <2>9 DEF States, Appended, HeapWith
    <3> QED BY <1>1, <2>2, <2>3, <3>1, HeapAppended
  <2>11. AppendsRow(mid, new, t, p, bytes)
    BY <2>4, <2>7, <2>8, <2>10 DEF AppendsRow, SameRelation, HeapWith
  <2>12. /\ Len(new.heap[p]) = Len(st.heap[p]) + 1
         /\ \A q \in 1..MaxPage : q # p => new.heap[q] = st.heap[q]
    BY <2>4, <2>11, AppendsFacts
  <2>13. NewRow(st, new) = RowAdded(st, p) /\ RowAdded(st, p) \in RowId /\ RowAdded(st, p) = RowAdded(mid, p)
    BY <1>1, <2>2, <2>4, <2>8, <2>10, <2>12, NewRowIs DEF RowAdded
  <2> DEFINE e == EntriesFor(st, r, RowAdded(st, p))
  <2>14. /\ e \in Todo
         /\ \A j \in IndexPlaces(st) : Rel(st, j).table = t => [index |-> j, row |-> RowAdded(st, p)] \in Range(e)
         /\ \A x \in Range(e) : /\ x.index \in IndexPlaces(st) /\ Rel(st, x.index).table = t
                                /\ x.row = RowAdded(st, p)
    BY <1>1, <2>13, EntriesForFacts
  <2> HIDE DEF e
  <2>15. IndexPlaces(mid) = IndexPlaces(st) /\ \A j \in 1..Count(st) : Rel(mid, j).table = Rel(st, j).table
    <3>1. \A j \in 1..Count(st) : Rel(mid, j).table = Rel(st, j).table /\ Rel(mid, j).kind = Rel(st, j).kind
      BY <2>6 DEF Extends, SameRelation
    <3> QED BY <2>7, <3>1 DEF IndexPlaces
  <2>16. /\ \A j \in IndexPlaces(mid) : Rel(mid, j).table = t => [index |-> j, row |-> RowAdded(mid, p)] \in Range(e)
         /\ \A x \in Range(e) : /\ x.index \in IndexPlaces(mid) /\ Rel(mid, x.index).table = t
                                /\ x.row = RowAdded(mid, p)
    <3>1. IndexPlaces(st) \subseteq 1..Count(st)
      BY DEF IndexPlaces
    <3> QED BY <2>13, <2>14, <2>15, <3>1
  <2>17. StateOK(new, Range(e)) /\ Extends(mid, new)
    BY <2>6, <2>11, <2>16, RowAppended
  <2>18. Extends(st, new)
    BY <1>1, <2>4, <2>6, <2>10, <2>17, ExtendsTrans
  <2> QED BY <2>13, <2>14, <2>17, <2>18 DEF new, e
<1> QED BY <1>2, <1>3

LEMMA InsertKeeps ==
    ASSUME SqlInv, NEW relation \in Tables(committed.catalog), NEW values \in Rows(relation),
           Insert(relation, values)
    PROVE  SqlInv'
<1> DEFINE st == committed
           bytes == EncodeRow(RowFor(relation, values))
           new == InsertRow(st, relation, bytes)
<1>1. StateOK(st, {}) /\ st \in States
  BY DEF SqlInv, StateOK
<1>2. /\ Cardinality(AllRows(st)) < MaxRows
      /\ \A i \in DOMAIN values : Coercible(relation.columns[i].type, values[i])
      /\ RowFits(st, relation, bytes)
      /\ work' = new /\ todo' = EntriesFor(st, relation, NewRow(st, new))
      /\ pc' = "entries" /\ committed' = committed
  BY DEF Insert, RowFor
<1>3. PICK t \in TablePlaces(st) : relation = Rel(st, t)
  BY <1>1, RelationsAre
<1>4. relation \in Relation
  BY <1>1, <1>3, StateTypes DEF TablePlaces
<1>5. bytes \in Seq(RowField) /\ RowOf(bytes, relation.columns)
  BY <1>2, <1>4, RowForFits
<1> HIDE DEF bytes
<1>6. StateOK(work', Range(todo')) /\ Extends(st, work') /\ todo' \in Todo
  <2> HIDE DEF st
  <2>1. LET n == InsertRow(st, Rel(st, t), bytes)
            e == EntriesFor(st, Rel(st, t), NewRow(st, n))
        IN  StateOK(n, Range(e)) /\ Extends(st, n) /\ e \in Todo
    BY <1>1, <1>2, <1>3, <1>5, InsertRowKeeps
  <2> QED BY <1>2, <1>3, <2>1
<1> QED BY <1>1, <1>2, <1>6 DEF SqlInv

\* set_index_root_page.
LEMMA WithRootFacts ==
    ASSUME NEW cat \in Catalog, \A k \in 1..Len(cat.relations) : cat.relations[k].id = k,
           NEW i \in 1..Len(cat.relations), NEW page \in 1..MaxPage
    PROVE  LET new == WithRoot(cat, i, page)
               n == Len(cat.relations)
           IN  /\ new \in Catalog /\ Len(new.relations) = n
               /\ \A k \in 1..n : k # i => new.relations[k] = cat.relations[k]
               /\ SameRelation(cat.relations[i], new.relations[i])
               /\ new.relations[i].pages = cat.relations[i].pages
               /\ new.nextRelation = cat.nextRelation
               /\ new.nextPage = cat.nextPage /\ new.extensions = cat.extensions
<1> DEFINE new == WithRoot(cat, i, page)
           rs == cat.relations
           n == Len(rs)
           Rooted(r) == [r EXCEPT !.root = page]
           ts == [k \in DOMAIN rs |-> IF rs[k].id = i THEN Rooted(rs[k]) ELSE rs[k]]
<1>1. rs \in Seq(Relation)
  BY DEF Catalog
<1>2. new = [cat EXCEPT !.relations = ts]
  BY DEF WithRoot
<1>3. n \in Nat /\ DOMAIN rs = 1..n /\ \A k \in 1..n : rs[k] \in Relation
  BY <1>1, SeqParts
<1>4. page \in 0..MaxPage
  BY Bounds
<1>5. ts = [k \in 1..n |-> IF rs[k].id = i THEN Rooted(rs[k]) ELSE rs[k]]
  BY <1>3
<1>6. \A k \in 1..n : rs[k].id = k
  OBVIOUS
<1>7. i \in 1..n
  OBVIOUS
<1>8. \A r \in Relation : /\ Rooted(r) \in Relation /\ SameRelation(r, Rooted(r)) /\ Rooted(r).pages = r.pages
  <2> TAKE r \in Relation
  <2> DEFINE q == Rooted(r)
  <2>1. q \in Relation
    BY <1>4 DEF Relation
  <2>2. /\ q.id = r.id /\ q.name = r.name /\ q.kind = r.kind /\ q.columns = r.columns
        /\ q.table = r.table /\ q.column = r.column /\ q.pages = r.pages
    BY DEF Relation
  <2> HIDE DEF q
  <2>3. SameRelation(r, q)
    BY <2>2 DEF SameRelation
  <2> QED BY <2>1, <2>2, <2>3 DEF q
<1> HIDE DEF ts, n, rs, Rooted
<1>9. \A k \in 1..n : ts[k] = IF k = i THEN Rooted(rs[k]) ELSE rs[k]
  BY <1>6, <1>5
<1>10. \A k \in 1..n : ts[k] \in Relation
  BY <1>3, <1>9, <1>8
<1>11. ts \in Seq(Relation) /\ Len(ts) = n
  <2>1. ts \in [1..n -> Relation]
    BY <1>5, <1>10
  <2> QED BY <1>3, <2>1
<1>12. new \in Catalog
  BY <1>2, <1>11 DEF Catalog
<1>13. /\ new.relations = ts /\ new.nextRelation = cat.nextRelation
       /\ new.nextPage = cat.nextPage /\ new.extensions = cat.extensions
  BY <1>2 DEF Catalog
<1>14. SameRelation(rs[i], ts[i]) /\ ts[i].pages = rs[i].pages
  BY <1>3, <1>9, <1>7, <1>8
<1> HIDE DEF new
<1> QED BY <1>9, <1>11, <1>12, <1>13, <1>14 DEF new, n, rs

\* One index with an entry and perhaps some pages more.
Entered(st, cat, j, entry, grown) ==
    [st EXCEPT !.catalog = cat,
               !.index = [st.index EXCEPT ![j] = [entries |-> st.index[j].entries \cup {entry},
                                                  pages |-> st.index[j].pages \cup grown]]]

IsEntered(st, new, cat, j, entry, grown) ==
    /\ new \in States /\ new.catalog = cat /\ new.heap = st.heap
    /\ \A k \in 1..CatalogCapacity : k # j => new.index[k] = st.index[k]
    /\ new.index[j].entries = st.index[j].entries \cup {entry}
    /\ new.index[j].pages = st.index[j].pages \cup grown

LEMMA EnteredFacts ==
    ASSUME NEW st \in States, NEW cat \in Catalog, NEW j \in 1..CatalogCapacity,
           NEW entry \in IndexEntry, NEW grown, grown \subseteq 1..MaxPage
    PROVE  IsEntered(st, Entered(st, cat, j, entry, grown), cat, j, entry, grown)
<1> DEFINE x == [entries |-> st.index[j].entries \cup {entry}, pages |-> st.index[j].pages \cup grown]
           f == [st.index EXCEPT ![j] = x]
           new == Entered(st, cat, j, entry, grown)
<1>1. st.index \in [1..CatalogCapacity -> Index]
  BY StateTypes DEF Indexes
<1>2. x \in Index /\ x.entries = st.index[j].entries \cup {entry} /\ x.pages = st.index[j].pages \cup grown
  <2>1. st.index[j].pages \cup grown \in SUBSET (1..MaxPage)
    BY IndexType
  <2>2. st.index[j].entries \cup {entry} \in SUBSET IndexEntry
    BY IndexType
  <2> QED BY <2>1, <2>2 DEF Index
<1>3. new = [st EXCEPT !.catalog = cat, !.index = f]
  BY DEF Entered
<1> HIDE DEF x
<1>4. f \in Indexes /\ f[j] = x /\ \A k \in 1..CatalogCapacity : k # j => f[k] = st.index[k]
  BY <1>1, <1>2 DEF Indexes
<1> HIDE DEF f
<1>5. new \in States /\ new.catalog = cat /\ new.heap = st.heap /\ new.index = f
  BY <1>4, <1>3 DEF States
<1> HIDE DEF new
<1>6. /\ \A k \in 1..CatalogCapacity : k # j => new.index[k] = st.index[k]
      /\ new.index[j].entries = st.index[j].entries \cup {entry}
      /\ new.index[j].pages = st.index[j].pages \cup grown
  BY <1>2, <1>4, <1>5
<1> QED BY <1>5, <1>6 DEF new, IsEntered

\* Head and Tail of what is pending.
LEMMA HeadTail ==
    ASSUME NEW S, NEW s \in Seq(S), s # << >>
    PROVE  /\ Head(s) \in S /\ Head(s) \in Range(s) /\ Tail(s) \in Seq(S) /\ Range(Tail(s)) \subseteq Range(s)
           /\ \A x \in Range(s) : x \in Range(Tail(s)) \/ x = Head(s)
<1> DEFINE n == Len(s)
           t == Tail(s)
<1>1. n \in Nat /\ n # 0 /\ DOMAIN s = 1..n /\ s[1] \in S
  BY EmptySeq
<1>2. t \in Seq(S) /\ Len(t) = n - 1 /\ Head(s) = s[1] /\ \A i \in 1..(n - 1) : t[i] = s[i + 1]
  OBVIOUS
<1> HIDE DEF t, n
<1>3. DOMAIN t = 1..(n - 1)
  BY <1>1, <1>2
<1>4. 1 \in 1..n /\ \A i \in 1..(n - 1) : i + 1 \in 1..n
  BY <1>1
<1>5. \A i \in 1..n : i = 1 \/ (i - 1 \in 1..(n - 1) /\ (i - 1) + 1 = i)
  BY <1>1
<1>6. Head(s) \in Range(s) /\ Range(t) \subseteq Range(s)
  <2>1. Head(s) \in Range(s)
    BY <1>1, <1>2, <1>4 DEF Range
  <2>2. \A i \in 1..(n - 1) : t[i] \in Range(s)
    BY <1>1, <1>2, <1>4 DEF Range
  <2>3. \A x \in Range(t) : \E i \in 1..(n - 1) : x = t[i]
    BY <1>3 DEF Range
  <2> QED BY <2>1, <2>2, <2>3
<1>7. ASSUME NEW x \in Range(s) PROVE x \in Range(t) \/ x = Head(s)
  <2>1. PICK i \in 1..n : x = s[i]
    BY <1>1 DEF Range
  <2>2. CASE i = 1
    BY <1>2, <2>1, <2>2
  <2>3. CASE i # 1
    <3>1. i - 1 \in 1..(n - 1) /\ (i - 1) + 1 = i
      BY <1>5, <2>3
    <3>2. t[i - 1] = s[i]
      BY <1>2, <3>1
    <3> QED BY <1>3, <2>1, <3>1, <3>2 DEF Range
  <2> QED BY <2>2, <2>3
<1> QED BY <1>1, <1>2, <1>6, <1>7 DEF t

\* A catalog whose counter has passed some pages.
LEMMA PagesTaken ==
    ASSUME NEW cat \in Catalog, NEW last \in (cat.nextPage - 1)..MaxPage
    PROVE  LET new == [cat EXCEPT !.nextPage = last + 1]
           IN  /\ new \in Catalog /\ new.relations = cat.relations /\ new.nextPage = last + 1
               /\ new.nextRelation = cat.nextRelation /\ new.extensions = cat.extensions
               /\ cat.nextPage \in Int /\ last \in Int /\ cat.nextPage <= last + 1
               /\ (cat.nextPage)..last \subseteq 1..MaxPage
               /\ cat.nextPage < last => last \in 1..MaxPage
<1> DEFINE p == cat.nextPage
<1>1. p \in 1..(MaxPage + 1) /\ last \in (p - 1)..MaxPage
  BY DEF Catalog
<1>2. /\ last + 1 \in 1..(MaxPage + 1) /\ p \in Int /\ last \in Int /\ p <= last + 1
      /\ p..last \subseteq 1..MaxPage /\ (p < last => last \in 1..MaxPage)
  <2> HIDE DEF p
  <2> QED BY <1>1, Bounds
<1> QED BY <1>2 DEF Catalog

\* Splits take pages, the last of which may be the new root.
LEMMA EnteredPage ==
    ASSUME NEW st \in States, Numbered(st), NEW j \in IndexPlaces(st), NEW entry \in IndexEntry,
           NEW last \in (st.catalog.nextPage - 1)..MaxPage, NEW cat,
           cat = st.catalog \/ (st.catalog.nextPage < last /\ cat = WithRoot(st.catalog, j, last))
    PROVE  LET grown == (st.catalog.nextPage)..last
           IN  EntersIndex(st, Entered(st, [cat EXCEPT !.nextPage = last + 1], j, entry, grown), j, grown, entry)
<1> DEFINE page == st.catalog.nextPage
           old == st.catalog
           grown == page..last
           next == [cat EXCEPT !.nextPage = last + 1]
           new == Entered(st, next, j, entry, grown)
<1>1. j \in 1..Count(st) /\ j \in 1..CatalogCapacity /\ old \in Catalog
  <2>1. j \in 1..Count(st)
    BY DEF IndexPlaces
  <2>2. Rel(st, j).id = j /\ Rel(st, j) \in Relation
    BY <2>1, StateTypes DEF Numbered
  <2> QED BY <2>1, <2>2, StateTypes, RelationTypes
<1>2. /\ page \in Int /\ last \in Int /\ page <= last + 1 /\ grown \subseteq 1..MaxPage
      /\ page < last => last \in 1..MaxPage
  BY <1>1, PagesTaken
<1>3. /\ cat \in Catalog /\ Len(cat.relations) = Len(old.relations)
      /\ \A k \in 1..Len(old.relations) : k # j => cat.relations[k] = old.relations[k]
      /\ SameRelation(old.relations[j], cat.relations[j])
      /\ cat.relations[j].pages = old.relations[j].pages
      /\ cat.nextRelation = old.nextRelation
      /\ cat.nextPage = old.nextPage /\ cat.extensions = old.extensions
  <2>1. CASE cat = old
    <3>1. SameRelation(old.relations[j], old.relations[j])
      BY DEF SameRelation
    <3> QED BY <1>1, <2>1, <3>1
  <2>2. CASE last \in 1..MaxPage /\ cat = WithRoot(old, j, last)
    <3>1. \A k \in 1..Len(old.relations) : old.relations[k].id = k
      BY DEF Numbered, Count, Rel
    <3>2. j \in 1..Len(old.relations)
      BY <1>1 DEF Count
    <3> HIDE DEF old, page
    <3> QED BY <1>1, <2>2, <3>1, <3>2, WithRootFacts
  <2> QED BY <1>2, <2>1, <2>2
<1>4. /\ next \in Catalog /\ next.relations = cat.relations /\ next.nextPage = last + 1
      /\ next.nextRelation = old.nextRelation /\ next.extensions = old.extensions
  <2>1. last \in (cat.nextPage - 1)..MaxPage
    BY <1>3
  <2> QED BY <1>3, <2>1, PagesTaken
<1> HIDE DEF next
<1>5. /\ new \in States /\ new.catalog = next /\ new.heap = st.heap
      /\ \A k \in 1..CatalogCapacity : k # j => new.index[k] = st.index[k]
      /\ new.index[j].entries = st.index[j].entries \cup {entry}
      /\ new.index[j].pages = st.index[j].pages \cup grown
  <2>1. new = Entered(st, next, j, entry, grown) /\ j \in 1..CatalogCapacity /\ next \in Catalog
    BY <1>1, <1>4
  <2> HIDE DEF grown, new, page, old
  <2>2. IsEntered(st, new, next, j, entry, grown)
    BY <1>2, <2>1, EnteredFacts
  <2> QED BY <2>2 DEF IsEntered
<1> HIDE DEF new
<1>6. Count(new) = Count(st) /\ \A k \in 1..Count(st) : k # j => Rel(new, k) = Rel(st, k)
  BY <1>3, <1>4, <1>5 DEF Count, Rel
<1>7. SameRelation(Rel(st, j), Rel(new, j)) /\ Rel(new, j).pages = Rel(st, j).pages
  BY <1>3, <1>4, <1>5 DEF Rel
<1>8. EntersIndex(st, new, j, grown, entry)
  <2>1. new.catalog.nextRelation = st.catalog.nextRelation
    BY <1>4, <1>5
  <2>2. new.catalog.extensions = st.catalog.extensions
    BY <1>4, <1>5
  <2>3. /\ new.catalog.nextPage \in Int /\ st.catalog.nextPage <= new.catalog.nextPage
        /\ \A p \in grown : /\ p \in Int /\ st.catalog.nextPage <= p
                            /\ p < new.catalog.nextPage
    <3>1. st.catalog.nextPage = page /\ new.catalog.nextPage = last + 1
      BY <1>4, <1>5
    <3> HIDE DEF page
    <3> QED BY <1>2, <3>1
  <2> HIDE DEF grown
  <2> QED BY <1>5, <1>6, <1>7, <2>1, <2>2, <2>3 DEF EntersIndex
<1> QED BY <1>8 DEF new, next

\* The entry that is next is about a row of the table of its index.
LEMMA NextEntry ==
    ASSUME NEW st, NEW pending, StateOK(st, pending), NEW x \in pending
    PROVE  LET index == RelationById(st.catalog, x.index)
               table == RelationById(st.catalog, index.table)
               value == RowAt(st, x.row)[ColumnIndex(table, index.column)]
           IN  /\ x.index \in IndexPlaces(st) /\ x.row \in ScanOf(st, x.index) /\ x.row \in RowId
               /\ value = KeyAt(st, x.index, x.row) /\ value \in Value
<1> DEFINE j == x.index
           r == x.row
           t == Rel(st, j).table
<1>1. /\ st \in States /\ Numbered(st) /\ IndexesKeyed(st) /\ RowsTyped(st)
      /\ j \in IndexPlaces(st) /\ r \in ScanOf(st, j)
  BY DEF StateOK, CatalogOK, PendingOK
<1>2. j \in 1..Count(st) /\ t \in TablePlaces(st) /\ t \in 1..Count(st)
  BY <1>1 DEF IndexesKeyed, IndexPlaces, TablePlaces
<1>3. RelationById(st.catalog, j) = Rel(st, j) /\ RelationById(st.catalog, t) = Rel(st, t)
  BY <1>1, <1>2, ById
<1>4. r \in FullScan(st, Rel(st, t))
  BY <1>1 DEF ScanOf, TableOf
<1>5. r \in RowId /\ RowOf(st.heap[r.page][r.slot], Rel(st, t).columns)
  BY <1>1, <1>2, <1>4, RowsAre
<1> DEFINE bytes == st.heap[r.page][r.slot]
           columns == Rel(st, t).columns
           k == KeyColumn(st, j)
<1>6. k \in 1..Len(columns)
  BY <1>1 DEF IndexesKeyed, TableOf
<1>7. RowAt(st, r) = DecodeRow(bytes).values
  BY DEF RowAt
<1>8. RowOf(bytes, columns)
  BY <1>5
<1> HIDE DEF bytes, columns, k
<1>9. DecodeRow(bytes).values[k] \in Stored
  BY <1>6, <1>8, RowValues
<1>10. KeyAt(st, j, r) = DecodeRow(bytes).values[k]
  BY <1>7 DEF KeyAt, k
<1>11. KeyAt(st, j, r) \in Value
  BY <1>9, <1>10 DEF Stored
<1>12. RowAt(st, r)[ColumnIndex(Rel(st, t), Rel(st, j).column)] = KeyAt(st, j, r)
  BY DEF KeyAt, KeyColumn, TableOf
<1> QED BY <1>1, <1>3, <1>5, <1>11, <1>12

\* The states that AddEntry makes.
EnteredWith(st, next, j, entry, grown) ==
    [st EXCEPT !.index[j].entries = @ \cup {entry}, !.index[j].pages = @ \cup grown, !.catalog = next]

LEMMA EnteredPageIs ==
    ASSUME NEW st \in States, NEW j \in 1..CatalogCapacity, NEW entry, NEW grown, NEW next
    PROVE  EnteredWith(st, next, j, entry, grown) = Entered(st, next, j, entry, grown)
<1> DEFINE x == [entries |-> st.index[j].entries \cup {entry}, pages |-> st.index[j].pages \cup grown]
           y == [st.index[j] EXCEPT !.entries = @ \cup {entry}, !.pages = @ \cup grown]
<1>1. st.index[j] \in Index /\ st.index \in [1..CatalogCapacity -> Index]
  BY IndexType, StateTypes DEF Indexes
<1>2. x = y
  <2> DEFINE r == st.index[j]
             e == r.entries \cup {entry}
             p == r.pages \cup grown
  <2>1. r \in [entries : SUBSET IndexEntry, pages : SUBSET (1..MaxPage)]
    BY <1>1 DEF Index
  <2>2. x = [entries |-> e, pages |-> p] /\ y = [r EXCEPT !.entries = e, !.pages = p]
    BY <2>1
  <2> HIDE DEF e, p, r
  <2> DEFINE z == [r EXCEPT !.entries = e]
  <2>3. z = [entries |-> e, pages |-> r.pages]
    BY <2>1
  <2>4. [z EXCEPT !.pages = p] = [entries |-> e, pages |-> p]
    <3>1. z \in [entries : {e}, pages : {r.pages}]
      BY <2>3
    <3> HIDE DEF z
    <3> QED BY <3>1
  <2>5. y = [z EXCEPT !.pages = p]
    BY <2>1, <2>2
  <2> QED BY <2>2, <2>4, <2>5
<1>3. [st EXCEPT !.index[j].entries = @ \cup {entry}, !.index[j].pages = @ \cup grown, !.catalog = next]
        = [st EXCEPT !.catalog = next, !.index = [st.index EXCEPT ![j] = y]]
  BY <1>1 DEF States
<1>4. Entered(st, next, j, entry, grown) = [st EXCEPT !.catalog = next, !.index = [st.index EXCEPT ![j] = x]]
  BY DEF Entered
<1> HIDE DEF x, y
<1> QED BY <1>2, <1>3, <1>4 DEF EnteredWith

LEMMA AddEntryKeeps == SqlInv /\ AddEntry => SqlInv'
<1> SUFFICES ASSUME SqlInv, AddEntry PROVE SqlInv'
  OBVIOUS
<1> DEFINE st == work
           x == Head(todo)
           j == x.index
           value == NextValue
           entry == [key |-> value, row |-> x.row]
           page == st.catalog.nextPage
           before == Range(todo)
           pending == Range(Tail(todo))
<1>1. /\ StateOK(st, before) /\ committed \in States /\ Extends(committed, st) /\ todo \in Todo
      /\ StateOK(committed, {}) /\ pc = "entries" /\ todo # << >>
      /\ todo' = Tail(todo) /\ committed' = committed /\ pc' = pc
  BY DEF SqlInv, AddEntry, StateOK
<1>2. /\ x \in [index : 1..CatalogCapacity, row : RowId] /\ x \in before /\ Tail(todo) \in Todo
      /\ pending \subseteq before /\ \A y \in before : y \in pending \/ y = x
  <2> DEFINE S == [index : 1..CatalogCapacity, row : RowId]
  <2>1. todo \in Seq(S)
    BY <1>1 DEF Todo
  <2> HIDE DEF S
  <2>2. /\ Head(todo) \in S /\ Head(todo) \in Range(todo) /\ Tail(todo) \in Seq(S)
        /\ Range(Tail(todo)) \subseteq Range(todo)
        /\ \A y \in Range(todo) : y \in Range(Tail(todo)) \/ y = Head(todo)
    BY <1>1, <2>1, HeadTail
  <2> QED BY <2>2 DEF S, Todo
<1>3. x = [index |-> j, row |-> x.row] /\ j \in 1..CatalogCapacity
  BY <1>2
<1>4. /\ j \in IndexPlaces(st) /\ x.row \in ScanOf(st, j) /\ x.row \in RowId
      /\ value = KeyAt(st, j, x.row) /\ value \in Value
  <2> HIDE DEF x
  <2> QED BY <1>1, <1>2, NextEntry DEF NextValue, x
<1>5. st \in States /\ Numbered(st)
  BY <1>1 DEF StateOK, CatalogOK
<1>6. entry \in IndexEntry /\ entry.key = value /\ entry.row = x.row /\ entry = [key |-> entry.key, row |-> entry.row]
  BY <1>4 DEF IndexEntry
<1>7. \/ ~HasKey(value) /\ work' = work
      \/ /\ HasKey(value)
         /\ \E last \in (page - 1)..MaxPage :
              \E cat \in IF page < last THEN {work.catalog, WithRoot(work.catalog, j, last)}
                                        ELSE {work.catalog} :
                work' = [work EXCEPT !.index[j].entries = @ \cup {entry},
                                     !.index[j].pages = @ \cup (page..last),
                                     !.catalog = [cat EXCEPT !.nextPage = last + 1]]
  BY DEF AddEntry
<1> HIDE DEF x, j, value, entry, before, pending
<1>8. \A y \in before : y \in pending \/ y = [index |-> j, row |-> entry.row]
  BY <1>2, <1>3, <1>6
<1>9. StateOK(work', pending) /\ Extends(st, work')
  <2>1. CASE ~HasKey(value) /\ work' = work
    <3>1. Extends(st, st)
      BY <1>5, ExtendsSelf
    <3>2. ~HasKey(KeyAt(st, j, entry.row))
      BY <1>4, <1>6, <2>1
    <3>3. StateOK(st, pending)
      BY <1>1, <1>2, <1>8, <3>2, EntryPassed
    <3> QED BY <2>1, <3>1, <3>3
  <2>2. ASSUME HasKey(value), NEW new, NEW grown, EntersIndex(st, new, j, grown, entry)
        PROVE  StateOK(new, pending) /\ Extends(st, new)
    <3>1. entry.row \in ScanOf(st, j) /\ entry.key = KeyAt(st, j, entry.row) /\ HasKey(entry.key)
      BY <1>4, <1>6, <2>2
    <3>2. entry = [key |-> entry.key, row |-> entry.row]
      BY <1>6
    <3> QED BY <1>1, <1>2, <1>8, <2>2, <3>1, <3>2, EntryAdded
  <2>3. ASSUME HasKey(value), NEW last \in (page - 1)..MaxPage, NEW cat,
               cat = st.catalog \/ (page < last /\ cat = WithRoot(st.catalog, j, last)),
               work' = [work EXCEPT !.index[j].entries = @ \cup {entry},
                                    !.index[j].pages = @ \cup (page..last),
                                    !.catalog = [cat EXCEPT !.nextPage = last + 1]]
        PROVE  StateOK(work', pending) /\ Extends(st, work')
    <3> DEFINE next == [cat EXCEPT !.nextPage = last + 1]
               grown == page..last
    <3>1. work' = Entered(st, next, j, entry, grown)
      <4>1. work' = EnteredWith(st, next, j, entry, grown)
        BY <2>3 DEF EnteredWith
      <4> HIDE DEF next, grown
      <4>2. EnteredWith(st, next, j, entry, grown) = Entered(st, next, j, entry, grown)
        BY <1>3, <1>5, EnteredPageIs
      <4> QED BY <4>1, <4>2
    <3>2. EntersIndex(st, Entered(st, next, j, entry, grown), j, grown, entry)
      BY <1>4, <1>5, <1>6, <2>3, EnteredPage
    <3> HIDE DEF next, grown
    <3> QED BY <2>2, <2>3, <3>1, <3>2
  <2>4. CASE ~(~HasKey(value) /\ work' = work)
    <3>1. PICK last \in (page - 1)..MaxPage :
                 \E cat \in IF page < last THEN {work.catalog, WithRoot(work.catalog, j, last)}
                                           ELSE {work.catalog} :
                   work' = [work EXCEPT !.index[j].entries = @ \cup {entry},
                                        !.index[j].pages = @ \cup (page..last),
                                        !.catalog = [cat EXCEPT !.nextPage = last + 1]]
      BY <1>7, <2>4
    <3>2. PICK cat \in IF page < last THEN {work.catalog, WithRoot(work.catalog, j, last)}
                                      ELSE {work.catalog} :
                 work' = [work EXCEPT !.index[j].entries = @ \cup {entry},
                                      !.index[j].pages = @ \cup (page..last),
                                      !.catalog = [cat EXCEPT !.nextPage = last + 1]]
      BY <3>1
    <3>3. cat = st.catalog \/ (page < last /\ cat = WithRoot(st.catalog, j, last))
      BY <3>2
    <3>4. HasKey(value)
      BY <1>7, <2>4
    <3> QED BY <2>3, <3>2, <3>3, <3>4
  <2> QED BY <2>1, <2>4
<1>10. Extends(committed, work')
  <2>1. work' \in States
    BY <1>9 DEF StateOK
  <2> QED BY <1>1, <1>5, <1>9, <2>1, ExtendsTrans
<1>11. StateOK(work', Range(todo')) /\ todo' \in Todo
  BY <1>1, <1>2, <1>9 DEF pending
<1> QED BY <1>1, <1>10, <1>11 DEF SqlInv

\* A change of the extensions only.
LEMMA OtherExtensions ==
    ASSUME NEW st, NEW pending, StateOK(st, pending), NEW new \in States, new.heap = st.heap,
           new.index = st.index, new.catalog.relations = st.catalog.relations,
           new.catalog.nextPage = st.catalog.nextPage,
           new.catalog.nextRelation = st.catalog.nextRelation, Installed(new)
    PROVE  StateOK(new, pending) /\ Extends(st, new)
<1>1. st \in States /\ CatalogOK(st) /\ PagesApart(st) /\ RowsTyped(st) /\ EntriesMatch(st, pending) /\ PendingOK(st, pending)
  BY DEF StateOK
<1>2. Count(new) = Count(st) /\ \A i : Rel(new, i) = Rel(st, i)
  BY DEF Count, Rel
<1>3. TablePlaces(new) = TablePlaces(st) /\ IndexPlaces(new) = IndexPlaces(st)
  BY <1>2 DEF TablePlaces, IndexPlaces
<1>4. \A j : TableOf(new, j) = TableOf(st, j) /\ KeyColumn(new, j) = KeyColumn(st, j)
  BY <1>2 DEF TableOf, KeyColumn
<1>5. CatalogOK(new)
  <2>1. CatalogFormed(new.catalog)
    BY <1>1, StateTypes DEF CatalogOK, CatalogFormed
  <2>2. Numbered(new)
    BY <1>1, <1>2 DEF CatalogOK, Numbered
  <2>3. IndexesKeyed(new)
    BY <1>1, <1>2, <1>3, <1>4 DEF CatalogOK, IndexesKeyed
  <2> QED BY <2>1, <2>2, <2>3 DEF CatalogOK
<1>6. PagesApart(new)
  <2>1. \A r : PagesOf(new, r) = PagesOf(st, r)
    BY DEF PagesOf
  <2> QED BY <1>1, <1>2, <2>1 DEF PagesApart, Apart, Below, Unused
<1>7. RowsTyped(new)
  BY <1>1, <1>2, <1>3 DEF RowsTyped
<1>8. \A j : ScanOf(new, j) = ScanOf(st, j) /\ \A r : KeyAt(new, j, r) = KeyAt(st, j, r)
  BY <1>4 DEF ScanOf, KeyAt, FullScan, RowAt
<1>9. EntriesMatch(new, pending) /\ PendingOK(new, pending)
  BY <1>1, <1>3, <1>8 DEF EntriesMatch, EntriesRight, EntriesThere, PendingOK
<1>10. Extends(st, new)
  <2>1. Extends(st, st)
    BY <1>1, ExtendsSelf
  <2> QED BY <1>2, <2>1 DEF Extends
<1> QED BY <1>5, <1>6, <1>7, <1>9, <1>10 DEF StateOK

LEMMA BuiltinIs ==
    DOMAIN Builtin = {"stdlib"} /\ Builtin["stdlib"].abi = 1 /\ Builtin["stdlib"].kind = "static"
  BY DEF Builtin, AbiVersion

LEMMA LoadExtensionKeeps ==
    ASSUME SqlInv, NEW name \in DOMAIN Builtin, LoadExtension(name)
    PROVE  SqlInv' /\ Extends(committed, committed')
<1> DEFINE st == committed
           old == st.catalog
           e == [name |-> name, abi |-> Builtin[name].abi, kind |-> Builtin[name].kind]
           cat == WithExtension(old, e)
           new == [st EXCEPT !.catalog = cat]
<1>1. StateOK(st, {}) /\ st \in States /\ old \in Catalog /\ Installed(st) /\ todo = << >> /\ todo \in Todo
  BY StateTypes DEF SqlInv, StateOK, CatalogOK, LoadExtension
<1>2. committed' = new /\ work' = new /\ pc' = "idle" /\ todo' = todo
  BY DEF LoadExtension
<1>3. e = Stdlib
  BY BuiltinIs DEF Stdlib
<1>4. Stdlib \in Extension /\ Stdlib.name = "stdlib"
  BY BuiltinIs DEF Stdlib, Extension
<1> DEFINE exts == old.extensions
<1>5. exts \in Seq(Extension) /\ Len(exts) \in Nat /\ DOMAIN exts = 1..Len(exts)
  BY <1>1, StateTypes, SeqParts
<1>6. /\ cat \in Catalog /\ cat.relations = old.relations /\ cat.nextPage = old.nextPage
      /\ cat.nextRelation = old.nextRelation
      /\ Len(cat.extensions) <= 1 /\ \A i \in 1..Len(cat.extensions) : cat.extensions[i] = Stdlib
  <2>1. CASE \E x \in Range(exts) : x.name = e.name
    <3>1. cat = old
      BY <2>1 DEF WithExtension
    <3> QED BY <1>1, <3>1 DEF Installed
  <2>2. CASE ~ \E x \in Range(exts) : x.name = e.name
    <3> DEFINE longer == Append(exts, Stdlib)
    <3>1. cat = [old EXCEPT !.extensions = longer]
      BY <1>1, <1>3, <2>2 DEF WithExtension
    <3>2. Len(exts) = 0
      <4> SUFFICES ASSUME Len(exts) # 0 PROVE FALSE
        OBVIOUS
      <4>1. 1 \in 1..Len(exts)
        BY <1>5
      <4>2. exts[1] = Stdlib /\ exts[1] \in Range(exts)
        BY <1>1, <1>5, <4>1 DEF Installed, Range
      <4> QED BY <1>3, <2>2, <4>2
    <3>3. longer \in Seq(Extension) /\ Len(longer) = 1 /\ longer[1] = Stdlib
      <4> HIDE DEF exts
      <4>1. /\ Append(exts, Stdlib) \in Seq(Extension) /\ Len(Append(exts, Stdlib)) = Len(exts) + 1
            /\ Append(exts, Stdlib)[Len(exts) + 1] = Stdlib
        BY <1>4, <1>5, AppendLast
      <4> QED BY <3>2, <4>1
    <3> HIDE DEF longer, e, cat
    <3>4. /\ cat \in Catalog /\ cat.relations = old.relations /\ cat.nextPage = old.nextPage
          /\ cat.nextRelation = old.nextRelation /\ cat.extensions = longer
      BY <1>1, <3>1, <3>3 DEF Catalog
    <3>5. \A i \in 1..Len(longer) : i = 1
      BY <3>3
    <3>6. Len(longer) <= 1 /\ \A i \in 1..Len(longer) : longer[i] = Stdlib
      <4>1. Len(longer) <= 1
        BY <3>3
      <4> QED BY <3>3, <3>5, <4>1
    <3> QED BY <3>4, <3>6
  <2> QED BY <2>1, <2>2
<1> HIDE DEF cat
<1>7. new \in States /\ new.catalog = cat /\ new.heap = st.heap /\ new.index = st.index
  BY <1>1, <1>6, CatalogReplaced
<1> HIDE DEF new
<1>8. Installed(new)
  BY <1>6, <1>7 DEF Installed
<1>9. StateOK(new, {}) /\ Extends(st, new)
  BY <1>1, <1>6, <1>7, <1>8, OtherExtensions
<1>10. Extends(new, new) /\ Range(todo) = {}
  BY <1>1, <1>7, ExtendsSelf DEF Range
<1>11. Extends(committed, committed')
  BY <1>2, <1>9
<1> QED BY <1>1, <1>2, <1>9, <1>10, <1>11 DEF SqlInv

LEMMA ReopenKeeps == SqlInv /\ Reopen => committed' = committed /\ SqlInv'
<1> SUFFICES ASSUME SqlInv, Reopen PROVE committed' = committed /\ SqlInv'
  OBVIOUS
<1> DEFINE cat == committed.catalog
<1>1. StateOK(committed, {}) /\ committed \in States /\ CatalogFormed(cat) /\ pc = "idle" /\ work = committed
  BY DEF SqlInv, StateOK, CatalogOK, Reopen
<1>2. DecodeCatalog(EncodeCatalog(cat)) = [ok |-> TRUE, catalog |-> cat]
  BY <1>1, CatalogRoundTrip
<1>3. DecodeCatalog(EncodeCatalog(cat)).catalog = cat
  BY <1>2
<1>4. committed' = [committed EXCEPT !.catalog = cat] /\ work' = committed' /\ pc' = pc /\ todo' = todo
  BY <1>3 DEF Reopen
<1>5. committed' = committed
  BY <1>1, <1>4 DEF States
<1> QED BY <1>1, <1>4, <1>5 DEF SqlInv

LEMMA FailStatementKeeps == SqlInv /\ FailStatement => SqlInv'
<1> SUFFICES ASSUME SqlInv, FailStatement PROVE SqlInv'
  OBVIOUS
<1>1. StateOK(committed, {}) /\ committed \in States
  BY DEF SqlInv, StateOK
<1>2. work' = committed /\ pc' = "idle" /\ todo' = << >> /\ committed' = committed
  BY DEF FailStatement
<1>3. Extends(committed, committed)
  BY <1>1, ExtendsSelf
<1>4. Range(<< >>) = {} /\ << >> \in Todo
  BY DEF Range, Todo
<1> QED BY <1>1, <1>2, <1>3, <1>4 DEF SqlInv

LEMMA CommitStatementKeeps == SqlInv /\ CommitStatement => SqlInv'
<1> SUFFICES ASSUME SqlInv, CommitStatement PROVE SqlInv'
  OBVIOUS
<1>1. todo = << >> /\ committed' = work /\ pc' = "idle" /\ work' = work /\ todo' = todo
  BY DEF CommitStatement
<1>2. Range(<< >>) = {} /\ << >> \in Todo
  BY DEF Range, Todo
<1>3. StateOK(work, {}) /\ work \in States
  BY <1>1, <1>2 DEF SqlInv, StateOK
<1>4. Extends(work, work)
  BY <1>3, ExtendsSelf
<1> QED BY <1>1, <1>2, <1>3, <1>4 DEF SqlInv

\* An empty database.
LEMMA InitKeeps == Init => SqlInv
<1> SUFFICES ASSUME Init PROVE SqlInv
  OBVIOUS
<1> DEFINE st == committed
           none == << >>
           cat == [nextRelation |-> 1, nextPage |-> 1, relations |-> none, extensions |-> none]
           heap == [p \in 1..MaxPage |-> none]
           empty == [entries |-> {}, pages |-> {}]
           index == [i \in 1..CatalogCapacity |-> empty]
<1>1. st = [catalog |-> cat, heap |-> heap, index |-> index] /\ work = st /\ pc = "idle" /\ todo = << >>
  BY DEF Init
<1>2. st.catalog = cat /\ st.heap = heap /\ st.index = index
  BY <1>1
<1>3. none \in Seq(Relation) /\ none \in Seq(Extension) /\ none \in Seq(Seq(RowField)) /\ Len(none) = 0
  OBVIOUS
<1>4. cat \in Catalog
  <2>1. 1 \in 1..(MaxPage + 1)
    BY Bounds
  <2> HIDE DEF none
  <2> QED BY <1>3, <2>1 DEF Catalog
<1>5. heap \in [1..MaxPage -> Seq(Seq(RowField))]
  <2> HIDE DEF none
  <2> QED BY <1>3
<1>6. index \in Indexes
  <2>1. empty \in Index
    BY DEF Index
  <2> QED BY <2>1 DEF Indexes
<1>7. st \in States
  <2> HIDE DEF cat, heap, index
  <2> QED BY <1>1, <1>4, <1>5, <1>6 DEF States
<1>8. /\ st.catalog.relations = none /\ st.catalog.extensions = none
      /\ st.catalog.nextRelation = 1 /\ st.catalog.nextPage = 1
  BY <1>2
<1>9. Count(st) = 0 /\ Len(none) = 0 /\ 1..0 = {}
  BY <1>3, <1>8 DEF Count
<1>10. TablePlaces(st) = {} /\ IndexPlaces(st) = {}
  BY <1>9 DEF TablePlaces, IndexPlaces
<1>11. CatalogOK(st)
  <2>1. CatalogFormed(st.catalog)
    BY <1>2, <1>4, <1>8, <1>9 DEF CatalogFormed
  <2>2. Numbered(st)
    BY <1>8, <1>9 DEF Numbered
  <2>3. IndexesKeyed(st)
    BY <1>10 DEF IndexesKeyed
  <2>4. Installed(st)
    BY <1>8, <1>9 DEF Installed
  <2> QED BY <2>1, <2>2, <2>3, <2>4 DEF CatalogOK
<1>12. PagesApart(st)
  <2>1. \A p \in 1..MaxPage : st.heap[p] = << >>
    BY <1>2
  <2>2. \A j \in 1..CatalogCapacity : st.index[j].entries = {} /\ st.index[j].pages = {}
    BY <1>2
  <2> QED BY <1>9, <2>1, <2>2 DEF PagesApart, Apart, Below, Unused
<1>13. RowsTyped(st) /\ EntriesMatch(st, {}) /\ PendingOK(st, {})
  BY <1>10 DEF RowsTyped, EntriesMatch, PendingOK
<1>14. StateOK(st, {}) /\ Extends(st, st)
  BY <1>7, <1>11, <1>12, <1>13, ExtendsSelf DEF StateOK
<1>15. Range(<< >>) = {} /\ << >> \in Todo
  BY DEF Range, Todo
<1> QED BY <1>1, <1>14, <1>15 DEF SqlInv

LEMMA NextKeeps == SqlInv /\ [Next]_vars => SqlInv'
<1> SUFFICES ASSUME SqlInv, [Next]_vars PROVE SqlInv'
  OBVIOUS
<1>1. ASSUME NEW name \in Names, NEW columns \in Schemas, CreateTable(name, columns) PROVE SqlInv'
  BY <1>1, CreateTableKeeps
<1>2. ASSUME NEW relation \in Tables(committed.catalog), NEW values \in Rows(relation),
             Insert(relation, values)
      PROVE  SqlInv'
  BY <1>2, InsertKeeps
<1>3. ASSUME NEW relation \in Tables(committed.catalog), NEW name \in Names,
             NEW i \in DOMAIN relation.columns, CreateIndex(name, relation, relation.columns[i].name)
      PROVE  SqlInv'
  BY <1>3, CreateIndexKeeps
<1>4. ASSUME NEW name \in DOMAIN Builtin, LoadExtension(name) PROVE SqlInv'
  BY <1>4, LoadExtensionKeeps
<1>5. CASE AddEntry
  BY <1>5, AddEntryKeeps
<1>6. CASE FailStatement
  BY <1>6, FailStatementKeeps
<1>7. CASE CommitStatement
  BY <1>7, CommitStatementKeeps
<1>8. CASE Reopen
  BY <1>8, ReopenKeeps
<1>9. CASE UNCHANGED vars
  BY <1>9 DEF vars, SqlInv
<1>10. CASE NothingChanges
  BY <1>9, <1>10 DEF NothingChanges
<1> QED BY <1>1, <1>2, <1>3, <1>4, <1>5, <1>6, <1>7, <1>8, <1>9, <1>10 DEF Next

\* The invariant holds in every state: the database is well formed, and an index lacks only
\* the entries that the statement in progress has still to add.
THEOREM Invariance == Spec => []SqlInv
  BY InitKeeps, NextKeeps, PTL DEF Spec

-----------------------------------------------------------------------------
(* What the invariant implies. *)

\* Every variable has its type, and every row the types of its columns.
THEOREM SqlTypes == Spec => []TypeOK
<1>1. SqlInv => TypeOK
  <2> SUFFICES ASSUME SqlInv PROVE TypeOK
    OBVIOUS
  <2>1. committed \in States /\ work \in States /\ RowsTyped(work)
    BY DEF SqlInv, StateOK
  <2>2. /\ {committed.catalog, work.catalog} \subseteq Catalog
        /\ {committed.index, work.index} \subseteq Indexes
    BY <2>1 DEF States
  <2>3. pc \in {"idle", "entries"} /\ todo \in Seq([index : 1..CatalogCapacity, row : RowId])
    BY DEF SqlInv, Todo
  <2>4. ASSUME NEW relation \in Tables(work.catalog), NEW r \in FullScan(work, relation),
               NEW i \in DOMAIN relation.columns
        PROVE  Fits(relation.columns[i].type, RowAt(work, r)[i])
    <3>1. PICK t \in TablePlaces(work) : relation = Rel(work, t)
      BY <2>1, RelationsAre
    <3>2. RowOf(work.heap[r.page][r.slot], relation.columns)
      BY <2>1, <3>1, RowsAre
    <3>3. i \in 1..Len(relation.columns)
      BY <2>1, <3>1, StateTypes, RelationTypes DEF TablePlaces
    <3> DEFINE bytes == work.heap[r.page][r.slot]
               columns == relation.columns
    <3> HIDE DEF bytes, columns
    <3>4. RowOf(bytes, columns) /\ i \in 1..Len(columns)
      BY <3>2, <3>3 DEF bytes, columns
    <3>5. Fits(columns[i].type, DecodeRow(bytes).values[i])
      BY <3>4, RowValues
    <3> QED BY <3>5 DEF RowAt, bytes, columns
  <2>5. \A relation \in Tables(work.catalog) : \A r \in FullScan(work, relation) :
         \A i \in DOMAIN relation.columns :
           \/ RowAt(work, r)[i].type = "null"
           \/ <<relation.columns[i].type, RowAt(work, r)[i].type>> \in
                {<<"INT", "int">>, <<"TEXT", "text">>, <<"DOUBLE", "double">>}
    BY <2>4 DEF Fits
  <2> QED BY <2>2, <2>3, <2>5 DEF TypeOK
<1> QED BY Invariance, <1>1, PTL

\* Between two statements no page belongs to two relations, no number or name is given
\* twice, and the page counter is past all the pages in use.
THEOREM SqlPages == Spec => []PagesOwnedOnce
<1>1. SqlInv => PagesOwnedOnce
  <2> SUFFICES ASSUME SqlInv, NEW r \in Range(committed.catalog.relations),
                      NEW q \in Range(committed.catalog.relations)
               PROVE  /\ r # q => PagesOf(committed, r) \cap PagesOf(committed, q) = {}
                      /\ r # q => r.id # q.id /\ r.name # q.name
                      /\ \A p \in PagesOf(committed, r) : p < committed.catalog.nextPage
    BY DEF PagesOwnedOnce
  <2> DEFINE st == committed
  <2>1. st \in States /\ Numbered(st) /\ Apart(st) /\ Below(st)
    BY DEF SqlInv, StateOK, CatalogOK, PagesApart
  <2>2. PICK i \in 1..Count(st) : r = Rel(st, i)
    BY <2>1, RelationsAre
  <2>3. PICK j \in 1..Count(st) : q = Rel(st, j)
    BY <2>1, RelationsAre
  <2> HIDE DEF st
  <2>4. r # q => i # j /\ PagesOf(st, r) \cap PagesOf(st, q) = {} /\ r.id # q.id /\ r.name # q.name
    BY <2>1, <2>2, <2>3 DEF Apart, Numbered
  <2>5. \A p \in PagesOf(st, r) : p < st.catalog.nextPage
    BY <2>1, <2>2 DEF Below
  <2> QED BY <2>4, <2>5 DEF st
<1> QED BY Invariance, <1>1, PTL

\* The indexes on a table, and their rows.
LEMMA IndexOfTable ==
    ASSUME NEW st, StateOK(st, {}), NEW t \in TablePlaces(st),
           NEW index \in Range(IndexesOn(st.catalog, t))
    PROVE  \E j \in IndexPlaces(st) : /\ index = Rel(st, j) /\ index.id = j /\ index.table = t
                                      /\ TableOf(st, j) = Rel(st, t) /\ ScanOf(st, j) = FullScan(st, Rel(st, t))
<1>1. st \in States /\ Numbered(st)
  BY DEF StateOK, CatalogOK
<1> DEFINE cat == st.catalog
<1>2. cat.relations \in Seq(Relation)
  BY <1>1, StateTypes
<1> HIDE DEF cat
<1>3. \A r \in Range(IndexesOn(cat, t)) : \E j \in 1..Len(cat.relations) :
        r = cat.relations[j] /\ cat.relations[j].kind = "index" /\ cat.relations[j].table = t
  BY <1>2, IndexesOnFacts
<1>4. PICK j \in 1..Len(cat.relations) :
        index = cat.relations[j] /\ cat.relations[j].kind = "index" /\ cat.relations[j].table = t
  BY <1>3 DEF cat
<1>5. j \in IndexPlaces(st) /\ index = Rel(st, j) /\ index.table = t /\ index.id = j
  BY <1>1, <1>4 DEF IndexPlaces, Rel, Count, cat, Numbered
<1>6. TableOf(st, j) = Rel(st, t) /\ ScanOf(st, j) = FullScan(st, Rel(st, t))
  BY <1>5 DEF TableOf, ScanOf
<1> QED BY <1>5, <1>6

\* No row that a query visits, by scan or through an index, fails to be read.
THEOREM SqlQueries == Spec => []QueriesNeverFail
<1>1. SqlInv => QueriesNeverFail
  <2> SUFFICES ASSUME SqlInv, NEW relation \in Tables(committed.catalog)
               PROVE  /\ \A r \in FullScan(committed, relation) :
                           /\ DecodeRow(committed.heap[r.page][r.slot]).ok
                           /\ Len(RowAt(committed, r)) = Len(relation.columns)
                      /\ \A i \in DOMAIN IndexesOn(committed.catalog, relation.id) :
                           \A e \in committed.index[IndexesOn(committed.catalog, relation.id)[i].id].entries :
                             e.row \in FullScan(committed, relation)
    BY DEF QueriesNeverFail
  <2> DEFINE st == committed
  <2>1. StateOK(st, {}) /\ st \in States /\ RowsTyped(st) /\ Numbered(st) /\ EntriesMatch(st, {})
    BY DEF SqlInv, StateOK, CatalogOK
  <2>2. PICK t \in TablePlaces(st) : relation = Rel(st, t)
    BY <2>1, RelationsAre
  <2>3. relation.id = t
    BY <2>1, <2>2 DEF Numbered, TablePlaces
  <2> HIDE DEF st
  <2>4. ASSUME NEW r \in FullScan(st, relation)
        PROVE  DecodeRow(st.heap[r.page][r.slot]).ok /\ Len(RowAt(st, r)) = Len(relation.columns)
    <3> DEFINE bytes == st.heap[r.page][r.slot]
               columns == relation.columns
    <3>1. RowOf(bytes, columns)
      BY <2>1, <2>2, RowsAre
    <3> HIDE DEF bytes, columns
    <3>2. DecodeRow(bytes).ok /\ Len(DecodeRow(bytes).values) = Len(columns)
      BY <3>1, RowValues
    <3> QED BY <3>2 DEF RowAt, bytes, columns
  <2>5. ASSUME NEW i \in DOMAIN IndexesOn(st.catalog, relation.id),
               NEW e \in st.index[IndexesOn(st.catalog, relation.id)[i].id].entries
        PROVE  e.row \in FullScan(st, relation)
    <3> DEFINE index == IndexesOn(st.catalog, t)[i]
    <3>1. index \in Range(IndexesOn(st.catalog, t)) /\ e \in st.index[index.id].entries
      BY <2>3 DEF Range
    <3> HIDE DEF index
    <3>2. PICK j \in IndexPlaces(st) : index.id = j /\ ScanOf(st, j) = FullScan(st, Rel(st, t))
      BY <2>1, <3>1, IndexOfTable
    <3>3. EntriesRight(st, j)
      BY <2>1 DEF EntriesMatch
    <3> QED BY <2>2, <3>1, <3>2, <3>3 DEF EntriesRight
  <2> QED BY <2>4, <2>5 DEF st
<1> QED BY Invariance, <1>1, PTL

\* decode_catalog reads what encode_catalog wrote, reads the format without extensions,
\* and refuses a record that is too long or lacks its end.
THEOREM SqlCatalog == Spec => []CatalogReadsBack
<1>1. SqlInv => CatalogReadsBack
  <2> SUFFICES ASSUME SqlInv PROVE CatalogReadsBack
    OBVIOUS
  <2> DEFINE cat == committed.catalog
  <2>1. CatalogFormed(cat)
    BY DEF SqlInv, StateOK, CatalogOK
  <2> HIDE DEF cat
  <2>2. DecodeCatalog(EncodeCatalog(cat)) = [ok |-> TRUE, catalog |-> cat]
    BY <2>1, CatalogRoundTrip
  <2>3. DecodeCatalog(EncodeRelations(cat)) = [ok |-> TRUE, catalog |-> [cat EXCEPT !.extensions = << >>]]
    BY <2>1, OldCatalogRead
  <2>4. ~DecodeCatalog(Append(EncodeCatalog(cat), Field("u8", 0))).ok
    BY <2>1, LongCatalogRefused
  <2>5. cat.extensions # << >> => ~DecodeCatalog(Front(EncodeCatalog(cat))).ok
    BY <2>1, ShortCatalogRefused
  <2> QED BY <2>2, <2>3, <2>4, <2>5 DEF CatalogReadsBack, cat
<1> QED BY Invariance, <1>1, PTL

\* A key is equal to a value of a column that has keys only if it is that value.
LEMMA KeysEqual ==
    ASSUME NEW type \in {"INT", "TEXT"}, NEW v, Fits(type, v), NEW literal, HasKey(literal),
           SqlEqual(v, literal)
    PROVE  v = literal
<1>1. v.type \in {"null", "int", "text"}
  BY DEF Fits
<1>2. literal.type \in {"int", "text"}
  BY DEF HasKey
<1>3. v.type # "double" /\ literal.type # "double"
  BY <1>1, <1>2
<1>4. {v.type, literal.type} # {"int", "double"}
  BY <1>3
<1> QED BY <1>4 DEF SqlEqual

\* An index lookup finds the rows of the table with that value, and no other.
LEMMA LookupFinds ==
    ASSUME NEW st, StateOK(st, {}), NEW j \in IndexPlaces(st), NEW literal, HasKey(literal)
    PROVE  LET rows == {e.row : e \in {f \in st.index[j].entries : f.key = literal}}
           IN  {r \in rows : SqlEqual(KeyAt(st, j, r), literal)}
                 = {r \in ScanOf(st, j) : SqlEqual(KeyAt(st, j, r), literal)}
<1> DEFINE rows == {e.row : e \in {f \in st.index[j].entries : f.key = literal}}
           t == Rel(st, j).table
<1>1. /\ st \in States /\ RowsTyped(st) /\ t \in TablePlaces(st) /\ EntriesRight(st, j)
      /\ EntriesThere(st, j, {}) /\ ScanOf(st, j) = FullScan(st, Rel(st, t))
      /\ KeyColumn(st, j) \in 1..Len(Rel(st, t).columns)
      /\ Rel(st, t).columns[KeyColumn(st, j)].type \in {"INT", "TEXT"}
  BY DEF StateOK, CatalogOK, IndexesKeyed, EntriesMatch, ScanOf, TableOf
<1>2. rows \subseteq ScanOf(st, j)
  BY <1>1 DEF EntriesRight
<1>3. ASSUME NEW r \in ScanOf(st, j), SqlEqual(KeyAt(st, j, r), literal) PROVE r \in rows
  <2> DEFINE bytes == st.heap[r.page][r.slot]
             columns == Rel(st, t).columns
             k == KeyColumn(st, j)
  <2>1. RowOf(bytes, columns)
    BY <1>1, RowsAre
  <2>2. k \in 1..Len(columns) /\ columns[k].type \in {"INT", "TEXT"}
    BY <1>1
  <2>3. KeyAt(st, j, r) = DecodeRow(bytes).values[k]
    BY DEF KeyAt, RowAt
  <2> HIDE DEF bytes, columns, k
  <2>4. Fits(columns[k].type, KeyAt(st, j, r))
    BY <2>1, <2>2, <2>3, RowValues
  <2>5. KeyAt(st, j, r) = literal
    BY <1>3, <2>2, <2>4, KeysEqual
  <2>6. [key |-> KeyAt(st, j, r), row |-> r] \in st.index[j].entries
    BY <1>1, <2>5 DEF EntriesThere
  <2> DEFINE e == [key |-> KeyAt(st, j, r), row |-> r]
  <2>7. e \in st.index[j].entries /\ e.key = literal /\ e.row = r
    BY <2>5, <2>6
  <2> HIDE DEF e
  <2> QED BY <2>7
<1> HIDE DEF rows
<1>4. {r \in rows : SqlEqual(KeyAt(st, j, r), literal)} = {r \in ScanOf(st, j) : SqlEqual(KeyAt(st, j, r), literal)}
  BY <1>2, <1>3
<1> QED BY <1>4 DEF rows

\* Between two statements SELECT gives the rows of a full scan, whether it takes an index
\* or not.
THEOREM SqlIndexes == Spec => []IndexAgreesWithScan
<1>1. SqlInv => IndexAgreesWithScan
  <2> SUFFICES ASSUME SqlInv, NEW relation \in Tables(committed.catalog), NEW q \in Queries(relation)
               PROVE  Selected(committed, relation, q[1], q[2]) =
                        {r \in FullScan(committed, relation) :
                            SqlEqual(RowAt(committed, r)[ColumnIndex(relation, q[1])], q[2])}
    BY DEF IndexAgreesWithScan
  <2> DEFINE st == committed
             column == q[1]
             literal == q[2]
             on == IndexOnColumn(st.catalog, relation, column)
  <2>1. StateOK(st, {}) /\ st \in States /\ Numbered(st)
    BY DEF SqlInv, StateOK, CatalogOK
  <2>2. PICK t \in TablePlaces(st) : relation = Rel(st, t)
    BY <2>1, RelationsAre
  <2>3. relation.id = t
    BY <2>1, <2>2 DEF Numbered, TablePlaces
  <2> HIDE DEF st, column, literal
  <2>4. CASE UsesIndex(st.catalog, relation, column, literal)
    <3> DEFINE index == CHOOSE r \in on : TRUE
    <3>1. HasKey(literal) /\ on # {}
      BY <2>4 DEF UsesIndex
    <3>2. index \in on
      <4> HIDE DEF on
      <4> QED BY <3>1
    <3>3. CandidateRows(st, relation, column, literal) =
            {e.row : e \in {f \in st.index[index.id].entries : f.key = literal}}
      BY <2>4 DEF CandidateRows
    <3> HIDE DEF index
    <3>4. index \in Range(IndexesOn(st.catalog, t)) /\ index.column = column
      BY <2>3, <3>2 DEF IndexOnColumn
    <3>5. PICK j \in IndexPlaces(st) : /\ index = Rel(st, j) /\ index.id = j
                                       /\ TableOf(st, j) = Rel(st, t) /\ ScanOf(st, j) = FullScan(st, Rel(st, t))
      BY <2>1, <3>4, IndexOfTable
    <3>6. \A r : KeyAt(st, j, r) = RowAt(st, r)[ColumnIndex(relation, column)]
      BY <2>2, <3>4, <3>5 DEF KeyAt, KeyColumn
    <3> DEFINE rows == {e.row : e \in {f \in st.index[j].entries : f.key = literal}}
    <3>7. {r \in rows : SqlEqual(KeyAt(st, j, r), literal)} = {r \in ScanOf(st, j) : SqlEqual(KeyAt(st, j, r), literal)}
      BY <2>1, <3>1, LookupFinds
    <3>8. CandidateRows(st, relation, column, literal) = rows
      BY <3>3, <3>5
    <3> HIDE DEF rows
    <3>9. Selected(st, relation, column, literal) = {r \in rows : SqlEqual(KeyAt(st, j, r), literal)}
      BY <3>6, <3>8 DEF Selected
    <3>10. {r \in ScanOf(st, j) : SqlEqual(KeyAt(st, j, r), literal)} =
             {r \in FullScan(st, relation) : SqlEqual(RowAt(st, r)[ColumnIndex(relation, column)], literal)}
      BY <2>2, <3>5, <3>6
    <3> QED BY <3>7, <3>9, <3>10 DEF st, column, literal
  <2>5. CASE ~UsesIndex(st.catalog, relation, column, literal)
    BY <2>5 DEF Selected, CandidateRows, st, column, literal
  <2> QED BY <2>4, <2>5
<1> QED BY Invariance, <1>1, PTL

\* What is committed has every relation and every row of what was committed before.
LEMMA NextExtends == SqlInv /\ [Next]_vars => Extends(committed, committed')
<1> SUFFICES ASSUME SqlInv, [Next]_vars PROVE Extends(committed, committed')
  OBVIOUS
<1>1. Extends(committed, committed) /\ Extends(committed, work)
  BY ExtendsSelf DEF SqlInv, StateOK
<1>2. ASSUME NEW name \in Names, NEW columns \in Schemas, CreateTable(name, columns)
      PROVE  Extends(committed, committed')
  BY <1>2, CreateTableKeeps
<1>3. ASSUME NEW relation, NEW values, Insert(relation, values) PROVE Extends(committed, committed')
  BY <1>1, <1>3 DEF Insert
<1>4. ASSUME NEW name, NEW relation, NEW column, CreateIndex(name, relation, column)
      PROVE  Extends(committed, committed')
  BY <1>1, <1>4 DEF CreateIndex
<1>5. ASSUME NEW name \in DOMAIN Builtin, LoadExtension(name) PROVE Extends(committed, committed')
  BY <1>5, LoadExtensionKeeps
<1>6. CASE AddEntry
  BY <1>1, <1>6 DEF AddEntry
<1>7. CASE FailStatement
  BY <1>1, <1>7 DEF FailStatement
<1>8. CASE CommitStatement
  BY <1>1, <1>8 DEF CommitStatement
<1>9. CASE Reopen
  BY <1>1, <1>9, ReopenKeeps
<1>10. CASE NothingChanges \/ UNCHANGED vars
  BY <1>1, <1>10 DEF NothingChanges, vars
<1> QED BY <1>2, <1>3, <1>4, <1>5, <1>6, <1>7, <1>8, <1>9, <1>10 DEF Next

\* A committed row stays where its address says, unchanged.
THEOREM SqlRows == Spec => RowsKept
<1> DEFINE Kept ==
      \A relation \in Tables(committed.catalog) : \A r \in FullScan(committed, relation) :
            \E now \in Tables(committed'.catalog) :
                /\ now.id = relation.id
                /\ r \in FullScan(committed', now)
                /\ RowAt(committed', r) = RowAt(committed, r)
<1>1. SqlInv /\ SqlInv' /\ [Next]_vars => [Kept]_vars
  <2> SUFFICES ASSUME SqlInv, SqlInv', [Next]_vars, NEW relation \in Tables(committed.catalog),
                      NEW r \in FullScan(committed, relation)
               PROVE  \E now \in Tables(committed'.catalog) :
                        /\ now.id = relation.id
                        /\ r \in FullScan(committed', now)
                        /\ RowAt(committed', r) = RowAt(committed, r)
    OBVIOUS
  <2> DEFINE old == committed
             new == committed'
  <2>1. Extends(old, new)
    BY NextExtends
  <2>2. old \in States /\ new \in States
    BY DEF SqlInv, StateOK
  <2>3. PICK t \in TablePlaces(old) : relation = Rel(old, t)
    BY <2>2, RelationsAre
  <2>4. t \in TablePlaces(new) /\ t \in 1..Count(old)
    BY <2>1, <2>2, <2>3, ExtendsPlaces DEF TablePlaces
  <2> DEFINE now == Rel(new, t)
  <2>5. now \in Tables(new.catalog)
    BY <2>2, <2>4, RelationsAre
  <2>6. now.id = relation.id
    BY <2>1, <2>3, <2>4 DEF Extends, SameRelation
  <2>7. r \in FullScan(new, now) /\ RowAt(new, r) = RowAt(old, r)
    BY <2>1, <2>2, <2>3, <2>4, ExtendsRows
  <2> HIDE DEF old, new, now
  <2>8. \E n \in Tables(new.catalog) : n.id = relation.id /\ r \in FullScan(new, n) /\ RowAt(new, r) = RowAt(old, r)
    BY <2>5, <2>6, <2>7
  <2> QED BY <2>8 DEF old, new
<1> QED BY Invariance, <1>1, PTL DEF Spec, RowsKept

-----------------------------------------------------------------------------
(* The extension registry. *)

FunctionNames == {"length", "lower", "upper", "abs", "typeof", "rdbms_version"}
FullRegistry == [ok |-> TRUE, extensions |-> {"stdlib"}, functions |-> FunctionNames]

\* What has been registered after i turns.
Registered(p, i, x) == x = IF i = 0 THEN NewRegistry ELSE FullRegistry
RegistryFold == INSTANCE FoldProofs WITH Op <- LoadInstalled, Inv <- Registered

LEMMA RegistryFoldIs == \A c, s : RegistryFold!Fold(c, s) = FoldLeft(LoadInstalled, c, s)
  BY DEF RegistryFold!Fold, FoldLeft, MapThenFoldSet, RegistryFold!MapThenFoldSet,
         Max, RegistryFold!Greatest

LEMMA FunctionsAre ==
    /\ DOMAIN StdlibFunctions = FunctionNames
    /\ Builtin["stdlib"].functions = FunctionNames
    /\ \A f \in FunctionNames : StdlibFunctions[f].arity = IF f = "rdbms_version" THEN 0 ELSE 1
    /\ StdlibFunctions["length"].returns = "INT" /\ StdlibFunctions["lower"].returns = "TEXT"
    /\ StdlibFunctions["upper"].returns = "TEXT" /\ StdlibFunctions["abs"].returns = "DYNAMIC"
    /\ StdlibFunctions["typeof"].returns = "TEXT" /\ StdlibFunctions["rdbms_version"].returns = "TEXT"
<1>1. DOMAIN StdlibFunctions = FunctionNames
  BY DEF StdlibFunctions, FunctionNames
<1>2. Builtin["stdlib"].functions = FunctionNames
  BY <1>1 DEF Builtin
<1>3. \A f \in FunctionNames : StdlibFunctions[f].arity = IF f = "rdbms_version" THEN 0 ELSE 1
  BY DEF StdlibFunctions, FunctionNames
<1>4. /\ StdlibFunctions["length"].returns = "INT" /\ StdlibFunctions["lower"].returns = "TEXT"
      /\ StdlibFunctions["upper"].returns = "TEXT" /\ StdlibFunctions["abs"].returns = "DYNAMIC"
      /\ StdlibFunctions["typeof"].returns = "TEXT" /\ StdlibFunctions["rdbms_version"].returns = "TEXT"
  BY DEF StdlibFunctions
<1> QED BY <1>1, <1>2, <1>3, <1>4

\* One turn: the stdlib is registered once.
LEMMA StdlibLoaded ==
    /\ LoadInstalled(NewRegistry, Stdlib) = FullRegistry
    /\ LoadInstalled(FullRegistry, Stdlib) = FullRegistry
<1>1. Stdlib.kind = "static" /\ Stdlib.name = "stdlib" /\ Stdlib.abi = 1
  BY DEF Stdlib
<1>2. /\ NewRegistry.ok /\ NewRegistry.extensions = {} /\ NewRegistry.functions = {}
      /\ FullRegistry.ok /\ FullRegistry.extensions = {"stdlib"} /\ FullRegistry.functions = FunctionNames
  BY DEF NewRegistry, FullRegistry
<1>3. \A r : r.ok => LoadInstalled(r, Stdlib) = Load(r, "stdlib")
  BY <1>1, BuiltinIs DEF LoadInstalled
<1>4. Load(FullRegistry, "stdlib") = FullRegistry
  BY <1>2, BuiltinIs DEF Load, AbiVersion
<1>5. Load(NewRegistry, "stdlib") = [NewRegistry EXCEPT !.functions = FunctionNames, !.extensions = {"stdlib"}]
  <2>1. {} \cap FunctionNames = {} /\ {} \cup FunctionNames = FunctionNames /\ {} \cup {"stdlib"} = {"stdlib"}
    OBVIOUS
  <2> QED BY <1>2, <2>1, BuiltinIs, FunctionsAre DEF Load, AbiVersion
<1>6. [NewRegistry EXCEPT !.functions = FunctionNames, !.extensions = {"stdlib"}] = FullRegistry
  <2> DEFINE a == FunctionNames
             b == {"stdlib"}
             z == [NewRegistry EXCEPT !.functions = a]
             w == [z EXCEPT !.extensions = b]
  <2>1. NewRegistry \in [ok : {TRUE}, extensions : {{}}, functions : {{}}]
    BY DEF NewRegistry
  <2> HIDE DEF a, b
  <2>2. z \in [ok : {TRUE}, extensions : {{}}, functions : {a}]
    BY <2>1
  <2> HIDE DEF z
  <2>3. w \in [ok : {TRUE}, extensions : {b}, functions : {a}]
    BY <2>2
  <2> HIDE DEF w
  <2>4. w = [ok |-> TRUE, extensions |-> b, functions |-> a]
    BY <2>3
  <2>5. [NewRegistry EXCEPT !.functions = a, !.extensions = b] = w
    BY <2>1 DEF w, z
  <2> QED BY <2>4, <2>5 DEF FullRegistry, a, b
<1> QED BY <1>2, <1>3, <1>4, <1>5, <1>6

\* registry_from_installed_extensions never fails.
LEMMA RegistryIs ==
    ASSUME NEW exts \in Seq(Extension), \A i \in 1..Len(exts) : exts[i] = Stdlib
    PROVE  /\ RegistryFrom(exts) = IF Len(exts) = 0 THEN NewRegistry ELSE FullRegistry
           /\ {e.name : e \in Range(exts)} = IF Len(exts) = 0 THEN {} ELSE {"stdlib"}
<1> DEFINE n == Len(exts)
           p == 0
<1>1. n \in Nat /\ DOMAIN exts = 1..n
  BY SeqParts
<1> HIDE DEF p
<1>2. Registered(p, 0, NewRegistry)
  BY DEF Registered
<1>3. ASSUME NEW i \in 1..n, NEW x, Registered(p, i - 1, x) PROVE Registered(p, i, LoadInstalled(x, exts[i]))
  <2>1. exts[i] = Stdlib /\ i # 0
    BY <1>1
  <2>2. x = NewRegistry \/ x = FullRegistry
    BY <1>3 DEF Registered
  <2>3. LoadInstalled(x, exts[i]) = FullRegistry
    BY <2>1, <2>2, StdlibLoaded
  <2> QED BY <2>1, <2>3 DEF Registered
<1>4. Registered(p, n, RegistryFold!Fold(NewRegistry, exts))
  BY <1>2, <1>3, RegistryFold!FoldKeeps
<1>5. RegistryFrom(exts) = IF n = 0 THEN NewRegistry ELSE FullRegistry
  BY <1>4, RegistryFoldIs DEF Registered, RegistryFrom
<1>6. Stdlib.name = "stdlib"
  BY DEF Stdlib
<1>7. {e.name : e \in Range(exts)} = IF n = 0 THEN {} ELSE {"stdlib"}
  <2>1. n # 0 => 1 \in 1..n
    BY <1>1
  <2>2. n = 0 => 1..n = {}
    BY <1>1
  <2> HIDE DEF n
  <2> QED BY <1>1, <1>6, <2>1, <2>2 DEF Range, n
<1> QED BY <1>5, <1>7 DEF n

-----------------------------------------------------------------------------
(* The functions. *)

\* What a call may return.
Reported == {<<"INT", "int">>, <<"TEXT", "text">>, <<"DOUBLE", "double">>}
Answer(f, x) ==
    x.ok => x.value.n >= 0 /\ (x.value.type = "null" \/ <<ResultType(f, x.value), x.value.type>> \in Reported)

LEMMA OkIs == \A type, n : Ok(type, n).ok /\ Ok(type, n).value = [type |-> type, n |-> n]
  BY DEF Ok

LEMMA ErrorIs == ~Error.ok
  BY DEF Error

LEMMA ResultTypes ==
    /\ \A v : ResultType("length", v) = "INT"
    /\ \A f \in {"lower", "upper", "typeof", "rdbms_version"} : \A v : ResultType(f, v) = "TEXT"
    /\ \A v : v.type = "int" => ResultType("abs", v) = "INT"
    /\ \A v : v.type = "double" => ResultType("abs", v) = "DOUBLE"
  BY FunctionsAre DEF ResultType

LEMMA AnswerOk ==
    ASSUME NEW f, NEW type, NEW n \in Nat,
           type = "null" \/ <<ResultType(f, [type |-> type, n |-> n]), type>> \in Reported
    PROVE  Answer(f, Ok(type, n))
<1> DEFINE v == [type |-> type, n |-> n]
<1>1. v.type = type /\ v.n = n /\ n >= 0 /\ Ok(type, n).value = v
  BY OkIs
<1> HIDE DEF v
<1> QED BY <1>1 DEF Answer, v

\* An argument is a literal, or the least integer.
LEMMA ArgumentsAre ==
    ASSUME NEW v \in Arguments
    PROVE  v \in Value /\ (v.type = "text" => v.n \in Nat)
<1>1. CASE v \in Literals
  BY <1>1, SqlAssumption DEF Value
<1>2. CASE v = [type |-> "int", n |-> MinInt]
  BY <1>2, MinIntAssumption DEF Value
<1> QED BY <1>1, <1>2 DEF Arguments

Null(v) == v.type = "null"

LEMMA AbsAnswers ==
    ASSUME NEW v \in Value, v.type \in {"int", "double"}
    PROVE  Answer("abs", AbsValue(v))
<1>1. v.n \in Int
  BY DEF Value
<1> DEFINE n == IF v.n < 0 THEN -v.n ELSE v.n
<1>2. n \in Nat
  BY <1>1
<1> HIDE DEF n
<1>3. <<ResultType("abs", [type |-> v.type, n |-> n]), v.type>> \in Reported
  BY ResultTypes DEF Reported
<1>4. Answer("abs", Ok(v.type, n))
  BY <1>2, <1>3, AnswerOk
<1>5. Answer("abs", Error)
  BY ErrorIs DEF Answer
<1> QED BY <1>4, <1>5 DEF AbsValue, n

\* The result of every function has the type that is reported, and is not negative; NULL
\* is never an error.
LEMMA EvalAnswers ==
    ASSUME NEW f \in FunctionNames, NEW v \in Value, v.type = "text" => v.n \in Nat,
           NEW args, f # "rdbms_version" => args[1] = v
    PROVE  Answer(f, Eval(f, args)) /\ (Null(v) => Eval(f, args).ok)
<1>1. v.type \in {"null", "int", "text", "double"} /\ v.n \in Int
  BY DEF Value
<1>2. CASE f = "rdbms_version"
  <2>1. Eval(f, args) = Ok("text", 25)
    BY <1>2 DEF Eval
  <2>2. Answer(f, Ok("text", 25))
    BY <1>2, AnswerOk, ResultTypes DEF Reported
  <2> QED BY <2>1, <2>2, OkIs
<1>3. CASE f = "typeof"
  <2> DEFINE n == [null |-> 4, int |-> 3, text |-> 4, double |-> 6][v.type]
  <2>1. Eval(f, args) = Ok("text", n)
    BY <1>3 DEF Eval
  <2>2. n \in Nat
    BY <1>1
  <2> HIDE DEF n
  <2>3. Answer(f, Ok("text", n))
    BY <1>3, <2>2, AnswerOk, ResultTypes DEF Reported
  <2> QED BY <2>1, <2>3, OkIs
<1>4. CASE f \notin {"rdbms_version", "typeof"} /\ Null(v)
  <2>1. Eval(f, args) = Ok("null", 0)
    BY <1>4 DEF Eval, Null
  <2>2. Answer(f, Ok("null", 0))
    BY AnswerOk
  <2> QED BY <2>1, <2>2, OkIs
<1>5. CASE f = "length" /\ ~Null(v)
  <2>1. CASE v.type = "text"
    <3>1. Eval(f, args) = Ok("int", v.n)
      BY <1>5, <2>1 DEF Eval
    <3>2. Answer(f, Ok("int", v.n))
      BY <1>5, <2>1, AnswerOk, ResultTypes DEF Reported
    <3> QED BY <1>5, <3>1, <3>2
  <2>2. CASE v.type # "text"
    <3>1. Eval(f, args) = Error
      BY <1>5, <2>2 DEF Eval, Null
    <3> QED BY <1>5, <3>1, ErrorIs DEF Answer
  <2> QED BY <2>1, <2>2
<1>6. CASE f \in {"lower", "upper"} /\ ~Null(v)
  <2>1. CASE v.type = "text"
    <3>1. Eval(f, args) = Ok("text", v.n)
      BY <1>6, <2>1 DEF Eval
    <3>2. Answer(f, Ok("text", v.n))
      BY <1>6, <2>1, AnswerOk, ResultTypes DEF Reported
    <3> QED BY <1>6, <3>1, <3>2
  <2>2. CASE v.type # "text"
    <3>1. Eval(f, args) = Error
      BY <1>6, <2>2 DEF Eval, Null
    <3> QED BY <1>6, <3>1, ErrorIs DEF Answer
  <2> QED BY <2>1, <2>2
<1>7. CASE f = "abs" /\ ~Null(v)
  <2>1. CASE v.type \in {"int", "double"}
    <3>1. Eval(f, args) = AbsValue(v)
      BY <1>7, <2>1 DEF Eval
    <3> QED BY <1>7, <2>1, <3>1, AbsAnswers
  <2>2. CASE v.type \notin {"int", "double"}
    <3>1. Eval(f, args) = Error
      BY <1>7, <2>2 DEF Eval, Null
    <3> QED BY <1>7, <3>1, ErrorIs DEF Answer
  <2> QED BY <2>1, <2>2
<1> QED BY <1>2, <1>3, <1>4, <1>5, <1>6, <1>7 DEF FunctionNames

\* The registry that is rebuilt for every call has the functions of the extensions in the
\* catalog, and a call returns what it reports.
THEOREM SqlFunctions == Spec => []FunctionsCallable
<1>1. SqlInv => FunctionsCallable
  <2> SUFFICES ASSUME SqlInv PROVE FunctionsCallable
    OBVIOUS
  <2> DEFINE exts == committed.catalog.extensions
             installed == {e.name : e \in Range(exts)}
             reg == RegistryFrom(exts)
             m == Len(exts)
  <2>1. exts \in Seq(Extension) /\ \A i \in 1..Len(exts) : exts[i] = Stdlib
    BY StateTypes DEF SqlInv, StateOK, CatalogOK, Installed
  <2>2. /\ reg = IF m = 0 THEN NewRegistry ELSE FullRegistry
        /\ installed = IF m = 0 THEN {} ELSE {"stdlib"}
    <3> HIDE DEF exts
    <3> QED BY <2>1, RegistryIs
  <2> HIDE DEF installed, reg, m
  <2>3. /\ reg.ok /\ reg.extensions = installed
        /\ reg.functions = IF "stdlib" \in installed THEN FunctionNames ELSE {}
    BY <2>2 DEF NewRegistry, FullRegistry
  <2>4. ASSUME NEW f \in FunctionNames, NEW v \in Arguments,
               NEW args, args = IF StdlibFunctions[f].arity = 0 THEN << >> ELSE <<v>>
        PROVE  /\ CallScalar(reg, f, args).ok =>
                    "stdlib" \in installed /\ Answer(f, CallScalar(reg, f, args))
               /\ "stdlib" \in installed /\ Null(v) => CallScalar(reg, f, args).ok
               /\ ~CallScalar(reg, f, Append(args, v)).ok
    <3>1. v \in Value /\ (v.type = "text" => v.n \in Nat)
      BY ArgumentsAre
    <3>2. StdlibFunctions[f].arity = IF f = "rdbms_version" THEN 0 ELSE 1
      BY FunctionsAre
    <3>3. /\ args \in Seq(Value) /\ Len(args) = StdlibFunctions[f].arity
          /\ f # "rdbms_version" => args[1] = v
      <4>1. << >> \in Seq(Value) /\ Len(<< >>) = 0
        OBVIOUS
      <4>2. <<v>> \in Seq(Value) /\ Len(<<v>>) = 1 /\ <<v>>[1] = v
        BY <3>1
      <4> QED BY <2>4, <3>2, <4>1, <4>2
    <3>4. Len(Append(args, v)) # StdlibFunctions[f].arity
      <4>1. Len(args) \in Nat /\ Len(Append(args, v)) = Len(args) + 1
        BY <3>1, <3>3, AppendLast, SeqParts
      <4> QED BY <3>3, <4>1
    <3>5. CallScalar(reg, f, Append(args, v)) = Error
      BY <3>4 DEF CallScalar
    <3>6. CASE "stdlib" \in installed
      <4>1. CallScalar(reg, f, args) = Eval(f, args)
        BY <2>3, <3>3, <3>6 DEF CallScalar
      <4>2. Answer(f, Eval(f, args)) /\ (Null(v) => Eval(f, args).ok)
        BY <3>1, <3>3, EvalAnswers
      <4> QED BY <3>5, <3>6, <4>1, <4>2, ErrorIs
    <3>7. CASE "stdlib" \notin installed
      <4>1. CallScalar(reg, f, args) = Error
        BY <2>3, <3>7 DEF CallScalar
      <4> QED BY <3>5, <3>7, <4>1, ErrorIs
    <3> QED BY <3>6, <3>7
  <2>5. DOMAIN StdlibFunctions = FunctionNames /\ Registry = reg
    BY FunctionsAre DEF Registry, reg
  <2> QED BY <2>3, <2>4, <2>5 DEF FunctionsCallable, Answer, Reported, Null, installed
<1> QED BY Invariance, <1>1, PTL
=============================================================================
