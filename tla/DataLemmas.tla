------------------------------ MODULE DataLemmas ------------------------------
(***************************************************************************)
(* Facts about the data of several modules: sets of numbers; Splice and    *)
(* Substr, the two string operators the buffer and the undo records are    *)
(* built from; the lists of hooks that have run, _text_import_filters and  *)
(* its like in file/src/open.cc and save.cc, and content that is the list  *)
(* of its conversions.                                                     *)
(***************************************************************************)
EXTENDS TextTrim, Functions, FiniteSetsExt, SequenceTheorems, FiniteSetTheorems, WellFoundedInduction, TLAPS

\* A set of numbers has a least one (which is what an induction over numbers
\* comes to: there is no least one that something is not true of).
LEMMA HasMin ==
  ASSUME NEW S \in SUBSET Nat, S # {}
  PROVE  Min(S) \in S /\ \A k \in S : Min(S) <= k
<1> DEFINE T == {0 .. k : k \in S}
<1>1. IsWellFoundedOn(StrictSubsetOrdering(Nat), FiniteSubsetsOf(Nat))
  BY FS_StrictSubsetOrderingWellFounded, Zenon
<1>2. T \subseteq FiniteSubsetsOf(Nat) /\ T # {}
  <2>1. \A k \in S : 0 .. k \subseteq Nat /\ IsFiniteSet(0 .. k) 
    BY FS_Interval
  <2> QED BY <2>1 DEF FiniteSubsetsOf
<1>3. \E t \in T : \A u \in T : <<u, t>> \notin StrictSubsetOrdering(Nat)
  <2> HIDE DEF T
  <2> QED BY <1>1, <1>2, WFMin, Zenon
<1>4. PICK m \in S : \A k \in S : <<0 .. k, 0 .. m>> \notin StrictSubsetOrdering(Nat)
  BY <1>3
<1>5. \A k \in S : m <= k
  <2> SUFFICES ASSUME NEW k \in S, k < m PROVE FALSE
    OBVIOUS
  <2>1. 0 .. k \subseteq 0 .. m /\ 0 .. k \subseteq Nat /\ 0 .. m \subseteq Nat /\ m \in 0 .. m /\ m \notin 0 .. k
    OBVIOUS
  <2> HIDE DEF T
  <2> QED BY <1>4, <2>1 DEF StrictSubsetOrdering
<1> QED BY <1>5 DEF Min

\* One with a bound has a greatest.
LEMMA HasMax ==
  ASSUME NEW n \in Nat, NEW S \in SUBSET (0 .. n), S # {}
  PROVE  Max(S) \in S /\ \A k \in S : Max(S) >= k
<1> DEFINE T == {n - k : k \in S}
<1>1. T \in SUBSET Nat /\ T # {}
  <2>1. \A k \in S : k \in 0 .. n /\ n - k \in Nat
    OBVIOUS
  <2> QED  BY <2>1
<1>2. Min(T) \in T /\ \A k \in T : Min(T) <= k
  BY <1>1, HasMin
<1>3. PICK m \in S : Min(T) = n - m
  BY <1>2
<1>4. \A k \in S : m >= k
  <2>1. \A k \in S : k \in 0 .. n /\ n - m <= n - k
    BY <1>2, <1>3
  <2> QED  BY <2>1
<1> QED BY <1>4 DEF Max

-----------------------------------------------------------------------------

\* substr returns a string of the length asked for, character by character.
LEMMA SubstrFacts ==
  ASSUME NEW S, NEW t \in Seq(S), NEW from \in Nat, NEW to \in Nat,
         from <= to, to <= Len(t)
  PROVE  /\ Substr(t, from, to) \in Seq(S)
         /\ Len(Substr(t, from, to)) = to - from
         /\ \A i \in 1..(to - from) : Substr(t, from, to)[i] = t[from + i]
<1>1. \A i \in (from + 1)..to : t[i] \in S
  OBVIOUS
<1>2. QED
  BY <1>1, SubSeqProperties DEF Substr

\* The text after an edit, character by character.
LEMMA SpliceFacts ==
  ASSUME NEW S, NEW t \in Seq(S), NEW s \in Seq(S), NEW from \in Nat, NEW to \in Nat,
         from <= to, to <= Len(t)
  PROVE  /\ Splice(t, from, to, s) \in Seq(S)
         /\ Len(Splice(t, from, to, s)) = Len(t) - (to - from) + Len(s)
         /\ \A i \in 1..Len(Splice(t, from, to, s)) :
              Splice(t, from, to, s)[i] =
                IF i <= from THEN t[i]
                ELSE IF i <= from + Len(s) THEN s[i - from]
                ELSE t[i - Len(s) + (to - from)]
<1> DEFINE p == SubSeq(t, 1, from)
           q == SubSeq(t, to + 1, Len(t))
<1>1. p \in Seq(S) /\ Len(p) = from /\ \A i \in 1..from : p[i] = t[i]
  <2>1. \A i \in 1..from : t[i] \in S
    OBVIOUS
  <2>2. QED
    BY <2>1, SubSeqProperties
<1>2. q \in Seq(S) /\ Len(q) = Len(t) - to /\ \A i \in 1..(Len(t) - to) : q[i] = t[to + i]
  <2>1. \A i \in (to + 1)..Len(t) : t[i] \in S
    OBVIOUS
  <2>2. QED
    BY <2>1, SubSeqProperties
<1>3. Splice(t, from, to, s) = (p \o s) \o q
  BY DEF Splice
<1> HIDE DEF p, q
<1> DEFINE ps == p \o s
<1>4. /\ ps \in Seq(S)
      /\ Len(ps) = from + Len(s)
      /\ \A i \in 1..(from + Len(s)) : ps[i] = IF i <= from THEN t[i] ELSE s[i - from]
  <2>1. /\ ps \in Seq(S)
        /\ Len(ps) = Len(p) + Len(s)
        /\ \A i \in 1..Len(p) + Len(s) : ps[i] = IF i <= Len(p) THEN p[i] ELSE s[i - Len(p)]
    BY <1>1, ConcatProperties
  <2> HIDE DEF ps
  <2>2. QED
    BY <1>1, <2>1
<1> HIDE DEF ps
<1> DEFINE all == ps \o q
<1>5. /\ all \in Seq(S)
      /\ Len(all) = from + Len(s) + (Len(t) - to)
      /\ \A i \in 1..(from + Len(s) + (Len(t) - to)) :
           all[i] = IF i <= from + Len(s) THEN ps[i] ELSE q[i - (from + Len(s))]
  <2>1. /\ all \in Seq(S)
        /\ Len(all) = Len(ps) + Len(q)
        /\ \A i \in 1..Len(ps) + Len(q) :
             all[i] = IF i <= Len(ps) THEN ps[i] ELSE q[i - Len(ps)]
    <3>1. ps \in Seq(S) /\ q \in Seq(S)
      BY <1>2, <1>4
    <3>2. QED
      BY <3>1, ConcatProperties
  <2> HIDE DEF all
  <2>2. QED
    BY <1>2, <1>4, <2>1
<1> HIDE DEF all
<1>6. \A i \in 1..Len(all) :
        all[i] = IF i <= from THEN t[i]
                 ELSE IF i <= from + Len(s) THEN s[i - from]
                 ELSE t[i - Len(s) + (to - from)]
  <2> SUFFICES ASSUME NEW i \in 1..Len(all)
               PROVE  all[i] = IF i <= from THEN t[i]
                               ELSE IF i <= from + Len(s) THEN s[i - from]
                               ELSE t[i - Len(s) + (to - from)]
    OBVIOUS
  <2>1. CASE i <= from + Len(s)
    BY <2>1, <1>4, <1>5
  <2>2. CASE i > from + Len(s)
    <3>1. i - (from + Len(s)) \in 1..(Len(t) - to)
      BY <2>2, <1>5
    <3>2. all[i] = q[i - (from + Len(s))]
      BY <2>2, <1>5
    <3>3. to + (i - (from + Len(s))) = i - Len(s) + (to - from)
      BY <1>5
    <3>4. q[i - (from + Len(s))] = t[to + (i - (from + Len(s)))]
      BY <1>2, <3>1
    <3>5. ~(i <= from) /\ ~(i <= from + Len(s))
      BY <2>2
    <3>6. QED
      BY <3>2, <3>3, <3>4, <3>5
  <2>3. QED
    BY <2>1, <2>2
<1>7. QED
  BY <1>3, <1>5, <1>6 DEF all, ps

\* What the last lemma says of a text u, by name.
IsSplice(u, S, t, from, to, s) ==
  /\ u \in Seq(S)
  /\ Len(u) = Len(t) - (to - from) + Len(s)
  /\ \A i \in 1..Len(u) :
       u[i] = IF i <= from THEN t[i]
              ELSE IF i <= from + Len(s) THEN s[i - from]
              ELSE t[i - Len(s) + (to - from)]

LEMMA SpliceIs ==
  ASSUME NEW S, NEW t \in Seq(S), NEW s \in Seq(S), NEW from \in Nat, NEW to \in Nat,
         from <= to, to <= Len(t)
  PROVE  IsSplice(Splice(t, from, to, s), S, t, from, to, s)
<1> DEFINE u == Splice(t, from, to, s)
<1>1. /\ u \in Seq(S)
      /\ Len(u) = Len(t) - (to - from) + Len(s)
      /\ \A i \in 1..Len(u) :
           u[i] = IF i <= from THEN t[i]
                  ELSE IF i <= from + Len(s) THEN s[i - from]
                  ELSE t[i - Len(s) + (to - from)]
  BY SpliceFacts
<1> HIDE DEF u
<1>2. IsSplice(u, S, t, from, to, s)
  BY Zenon, <1>1 DEF IsSplice
<1> QED  BY Zenon, <1>2 DEF u

\* An undo record is exact: replacing what an edit inserted by what it
\* removed gives back the text it was made on.
LEMMA SpliceUndoes ==
  ASSUME NEW S, NEW t \in Seq(S), NEW b \in Seq(S), NEW a \in Seq(S), NEW pos \in Nat,
         pos + Len(b) <= Len(t),
         Substr(t, pos, pos + Len(b)) = b
  PROVE  Splice(Splice(t, pos, pos + Len(b), a), pos, pos + Len(a), b) = t
<1> DEFINE u == Splice(t, pos, pos + Len(b), a)
           v == Splice(u, pos, pos + Len(a), b)
<1>1. \A i \in 1..Len(b) : b[i] = t[pos + i]
  <2>1. \A i \in 1..((pos + Len(b)) - pos) : Substr(t, pos, pos + Len(b))[i] = t[pos + i]
    <3>1. pos + Len(b) \in Nat /\ pos <= pos + Len(b)
      OBVIOUS
    <3>2. QED
      BY <3>1, SubstrFacts
  <2>2. QED
    BY <2>1
<1>2. /\ u \in Seq(S)
      /\ Len(u) = Len(t) - Len(b) + Len(a)
      /\ \A i \in 1..Len(u) : u[i] = IF i <= pos THEN t[i]
                                     ELSE IF i <= pos + Len(a) THEN a[i - pos]
                                     ELSE t[i - Len(a) + Len(b)]
  <2> DEFINE to == pos + Len(b)
  <2>1. to \in Nat /\ pos <= to /\ to <= Len(t) /\ to - pos = Len(b)
    OBVIOUS
  <2> HIDE DEF to
  <2>2. IsSplice(Splice(t, pos, to, a), S, t, pos, to, a)
    BY Zenon, <2>1, SpliceIs
  <2>3. IsSplice(u, S, t, pos, to, a)
    BY Zenon, <2>2 DEF to, u
  <2> HIDE DEF u
  <2> QED  BY <2>1, <2>3 DEF IsSplice
<1> HIDE DEF u
<1>3. /\ v \in Seq(S)
      /\ Len(v) = Len(u) - Len(a) + Len(b)
      /\ \A i \in 1..Len(v) : v[i] = IF i <= pos THEN u[i]
                                     ELSE IF i <= pos + Len(b) THEN b[i - pos]
                                     ELSE u[i - Len(b) + Len(a)]
  <2> DEFINE to == pos + Len(a)
  <2>1. u \in Seq(S) /\ to \in Nat /\ pos <= to /\ to <= Len(u) /\ to - pos = Len(a)
    BY <1>2
  <2> HIDE DEF to
  <2>2. IsSplice(Splice(u, pos, to, b), S, u, pos, to, b)
    BY Zenon, <2>1, SpliceIs
  <2>3. IsSplice(v, S, u, pos, to, b)
    BY Zenon, <2>2 DEF to, v
  <2> HIDE DEF v
  <2> QED  BY <2>1, <2>3 DEF IsSplice
<1> HIDE DEF v
<1>4. Len(v) = Len(t)
  BY <1>2, <1>3
<1>5. ASSUME NEW i \in 1..Len(t) PROVE v[i] = t[i]
  <2>1. CASE i <= pos
    <3>1. v[i] = u[i]
      BY <2>1, <1>3, <1>4
    <3>2. i \in 1..Len(u)
      BY <2>1, <1>2
    <3>3. u[i] = t[i]
      BY <2>1, <3>2, <1>2
    <3>4. QED
      BY <3>1, <3>3
  <2>2. CASE i > pos /\ i <= pos + Len(b)
    <3>1. v[i] = b[i - pos] /\ i - pos \in 1..Len(b)
      BY SMTT(30), <2>2, <1>3, <1>4
    <3>2. b[i - pos] = t[pos + (i - pos)]
      BY <3>1, <1>1
    <3>3. QED
      BY <3>1, <3>2
  <2>3. CASE i > pos + Len(b)
    <3>0. i \in 1..Len(v) /\ ~(i <= pos) /\ ~(i <= pos + Len(b))
      BY <2>3, <1>4
    <3>1. v[i] = u[i - Len(b) + Len(a)]
      BY <3>0, <1>3
    <3>2. i - Len(b) + Len(a) \in 1..Len(u) /\ i - Len(b) + Len(a) > pos + Len(a)
      BY <2>3, <1>2
    <3>3. u[i - Len(b) + Len(a)] = t[(i - Len(b) + Len(a)) - Len(a) + Len(b)]
      BY SMTT(30), <3>2, <1>2
    <3>4. QED
      BY <3>1, <3>3
  <2>4. QED
    BY <2>1, <2>2, <2>3
<1>6. v = t
  <2>1. v \in Seq(S)
    BY <1>3
  <2>2. QED
    BY <2>1, <1>4, <1>5, SeqEqual
<1>7. QED
  BY <1>6 DEF v, u

\* Dropping what follows the first n elements and adding one: what will_replace
\* does to the records.
LEMMA CutAppend ==
  ASSUME NEW S, NEW q \in Seq(S), NEW n \in 0..Len(q), NEW e \in S
  PROVE  /\ Append(SubSeq(q, 1, n), e) \in Seq(S)
         /\ Len(Append(SubSeq(q, 1, n), e)) = n + 1
         /\ \A i \in 1..n : Append(SubSeq(q, 1, n), e)[i] = q[i]
         /\ Append(SubSeq(q, 1, n), e)[n + 1] = e
<1> DEFINE p == SubSeq(q, 1, n)
<1>1. p \in Seq(S) /\ Len(p) = n /\ \A i \in 1..n : p[i] = q[i]
  <2>1. \A i \in 1..n : q[i] \in S
    OBVIOUS
  <2>2. QED
    BY <2>1, SubSeqProperties
<1> HIDE DEF p
<1>2. /\ Append(p, e) \in Seq(S)
      /\ Len(Append(p, e)) = n + 1
      /\ \A i \in 1..n : Append(p, e)[i] = p[i]
      /\ Append(p, e)[n + 1] = e
  BY <1>1
<1>3. QED
  BY <1>1, <1>2 DEF p

-----------------------------------------------------------------------------

\* No hook is in the list twice.
Once(s) == IsInjective(s) /\ IsFiniteSet(Range(s)) /\ Cardinality(Range(s)) = Len(s)

\* No hook has run at first.
LEMMA OnceEmpty == Once(<<>>) /\ Range(<<>>) = {}
<1>1. Range(<<>>) = {} /\ IsInjective(<<>>)
  BY DEF Range, IsInjective
<1> QED  BY <1>1, FS_EmptySet DEF Once

\* One that has not run may run.
LEMMA OnceMore ==
  ASSUME NEW S, NEW s \in Seq(S), NEW e \in S, Once(s), e \notin Range(s)
  PROVE  Once(Append(s, e)) /\ Range(Append(s, e)) = Range(s) \cup {e}
<1> DEFINE t == Append(s, e)
<1>1. /\ DOMAIN t = 1..(Len(s) + 1) /\ DOMAIN s = 1..Len(s) /\ Len(s) \in Nat /\ Len(t) = Len(s) + 1
      /\ \A i \in 1..Len(s) : t[i] = s[i]
      /\ t[Len(s) + 1] = e
  BY AppendProperties, LenProperties
<1> HIDE DEF t
<1>2. Range(t) = Range(s) \cup {e}
  BY <1>1 DEF Range
<1>3. IsInjective(t)
  <2>1. \A i \in 1..Len(s) : s[i] # e
    BY <1>1 DEF Range
  <2>2. \A i, j \in 1..Len(s) : s[i] = s[j] => i = j
    BY <1>1 DEF Once, IsInjective
  <2>3. \A i, j \in 1..(Len(s) + 1) : t[i] = t[j] => i = j
    BY <1>1, <2>1, <2>2
  <2> QED  BY <1>1, <2>3 DEF IsInjective
<1>4. IsFiniteSet(Range(t)) /\ Cardinality(Range(t)) = Len(t)
  <2>1. IsFiniteSet(Range(s)) /\ Cardinality(Range(s)) = Len(s)
    BY DEF Once
  <2> DEFINE r == Range(s)
  <2>2. e \notin r
    OBVIOUS
  <2> HIDE DEF r
  <2>3. IsFiniteSet(r) => IsFiniteSet(r \cup {e}) /\ Cardinality(r \cup {e}) = Cardinality(r) + 1
    BY <2>2, FS_AddElement
  <2> QED  BY <1>1, <1>2, <2>1, <2>3 DEF r
<1> QED  BY <1>2, <1>3, <1>4 DEF Once, t

\* There are no more entries than hooks, and as many when all have run.
LEMMA OnceEach ==
  ASSUME NEW S, IsFiniteSet(S), NEW s \in Seq(S), Once(s)
  PROVE  /\ Len(s) \in 0..Cardinality(S)
         /\ S \subseteq Range(s) => Range(s) = S /\ Len(s) = Cardinality(S)
<1>1. Range(s) \in SUBSET S
  BY RangeOfSeq
<1>2. Cardinality(Range(s)) <= Cardinality(S) /\ Cardinality(S) \in Nat
  BY <1>1, FS_Subset, FS_CardinalityType
<1>3. Len(s) \in Nat
  BY LenProperties
<1>4. Cardinality(Range(s)) = Len(s)
  BY DEF Once
<1>5. S \subseteq Range(s) => Range(s) = S
  BY <1>1
<1> QED  BY <1>2, <1>3, <1>4, <1>5

-----------------------------------------------------------------------------
\* Content that went through the hooks a, was then converted by x and by y,
\* and then went through the hooks b.
Layers(a, x, y, b) == Append(Append(a, x), y) \o b

LEMMA LayersStart ==
  ASSUME NEW S, NEW a \in Seq(S), NEW x \in S, NEW y \in S
  PROVE  Layers(a, x, y, <<>>) = Append(Append(a, x), y)
<1> DEFINE m == Append(Append(a, x), y)
<1>1. m \in Seq(S)
  BY AppendProperties
<1> HIDE DEF m
<1>2. m \o <<>> = m
  BY <1>1, ConcatEmptySeq
<1> QED  BY <1>2 DEF m, Layers

LEMMA LayersGrow ==
  ASSUME NEW S, NEW a \in Seq(S), NEW x \in S, NEW y \in S, NEW b \in Seq(S), NEW e \in S
  PROVE  /\ Append(Layers(a, x, y, b), e) = Layers(a, x, y, Append(b, e))
         /\ Layers(a, x, y, b) \in Seq(S)
<1> DEFINE m == Append(Append(a, x), y)
<1>1. m \in Seq(S)
  BY AppendProperties
<1> HIDE DEF m
<1>2. m \o b \in Seq(S)
  BY <1>1, ConcatProperties
<1>3. Append(m \o b, e) = m \o Append(b, e)
  <2>1. <<e>> \in Seq(S)
    OBVIOUS
  <2>2. Append(m \o b, e) = (m \o b) \o <<e>>
    BY <1>2, AppendIsConcat
  <2>3. (m \o b) \o <<e>> = m \o (b \o <<e>>)
    <3> DEFINE l == <<e>>
    <3> HIDE DEF l
    <3>1. b \in Seq(S) /\ l \in Seq(S)
      BY <2>1 DEF l
    <3>2. (m \o b) \o l = m \o (b \o l)
      BY SMTT(30), <1>1, <3>1, ConcatAssociative
    <3> QED  BY <3>2 DEF l
  <2> QED  BY <2>2, <2>3, AppendIsConcat
<1> QED  BY <1>2, <1>3 DEF m, Layers

\* What is found in it.
HasLayers(c, a, x, y, b) ==
  /\ Len(c) = Len(a) + 2 + Len(b)
  /\ SubSeq(c, 1, Len(a)) = a
  /\ c[Len(a) + 1] = x /\ c[Len(a) + 2] = y
  /\ SubSeq(c, Len(a) + 3, Len(c)) = b

LEMMA LayersParts ==
  ASSUME NEW S, NEW a \in Seq(S), NEW x \in S, NEW y \in S, NEW b \in Seq(S)
  PROVE  HasLayers(Layers(a, x, y, b), a, x, y, b)
<1> DEFINE m == Append(Append(a, x), y)
           c == Layers(a, x, y, b)
<1>0. c = m \o b
  BY DEF Layers
<1> HIDE DEF c
<1>1. /\ m \in Seq(S) /\ Len(m) = Len(a) + 2
      /\ \A i \in 1..Len(a) : m[i] = a[i]
      /\ m[Len(a) + 1] = x /\ m[Len(a) + 2] = y
  <2> DEFINE n == Append(a, x)
  <2>1. /\ n \in Seq(S) /\ Len(n) = Len(a) + 1
        /\ \A i \in 1..Len(a) : n[i] = a[i]
        /\ n[Len(a) + 1] = x
    BY AppendProperties
  <2> HIDE DEF n
  <2>2. /\ Append(n, y) \in Seq(S) /\ Len(Append(n, y)) = Len(n) + 1
        /\ \A i \in 1..Len(n) : Append(n, y)[i] = n[i]
        /\ Append(n, y)[Len(n) + 1] = y
    BY <2>1, AppendProperties
  <2> QED  BY <2>1, <2>2, LenProperties DEF n
<1> HIDE DEF m
<1>2. Len(a) \in Nat /\ Len(b) \in Nat
  BY LenProperties
<1>3. /\ c \in Seq(S) /\ Len(c) = Len(a) + 2 + Len(b)
      /\ \A i \in 1..(Len(a) + 2 + Len(b)) : c[i] = IF i <= Len(a) + 2 THEN m[i] ELSE b[i - (Len(a) + 2)]
  <2>1. /\ c \in Seq(S) /\ Len(c) = Len(m) + Len(b)
        /\ \A i \in 1..(Len(m) + Len(b)) : c[i] = IF i <= Len(m) THEN m[i] ELSE b[i - Len(m)]
    <3>1. /\ m \o b \in Seq(S) /\ Len(m \o b) = Len(m) + Len(b)
          /\ \A i \in 1..(Len(m) + Len(b)) : (m \o b)[i] = IF i <= Len(m) THEN m[i] ELSE b[i - Len(m)]
      BY <1>1, ConcatProperties
    <3> QED  BY <1>0, <3>1
  <2> QED  BY <1>1, <1>2, <2>1
<1>4. SubSeq(c, 1, Len(a)) = a
  <2>1. \A i \in 1..Len(a) : c[i] \in S
    BY <1>2, <1>3, ElementOfSeq
  <2>2. /\ SubSeq(c, 1, Len(a)) \in Seq(S) /\ Len(SubSeq(c, 1, Len(a))) = Len(a)
        /\ \A i \in 1..Len(a) : SubSeq(c, 1, Len(a))[i] = c[i]
    BY <1>2, <2>1, SubSeqProperties
  <2>3. \A i \in 1..Len(a) : c[i] = a[i]
    BY <1>1, <1>2, <1>3
  <2> QED  BY <2>2, <2>3, SeqEqual
<1>5. SubSeq(c, Len(a) + 3, Len(c)) = b
  <2> DEFINE d == SubSeq(c, Len(a) + 3, Len(c))
  <2>1. \A i \in (Len(a) + 3)..Len(c) : c[i] \in S
    BY <1>2, <1>3, ElementOfSeq
  <2>2. /\ d \in Seq(S) /\ Len(d) = Len(b)
        /\ \A i \in 1..Len(b) : d[i] = c[Len(a) + 3 + i - 1]
    <3>1. Len(a) + 3 \in Int /\ Len(c) \in Int /\ Len(c) - (Len(a) + 3) + 1 = Len(b)
      BY <1>2, <1>3
    <3>2. /\ d \in Seq(S)
          /\ Len(d) = IF Len(a) + 3 <= Len(c) THEN Len(c) - (Len(a) + 3) + 1 ELSE 0
          /\ \A i \in 1..(Len(c) - (Len(a) + 3) + 1) : d[i] = c[Len(a) + 3 + i - 1]
      BY <2>1, <3>1, SubSeqProperties
    <3> HIDE DEF d
    <3> QED  BY <1>2, <1>3, <3>1, <3>2
  <2>3. \A i \in 1..Len(b) : c[Len(a) + 3 + i - 1] = b[i]
    BY <1>2, <1>3
  <2> HIDE DEF d
  <2>4. d = b
    BY <2>2, <2>3, SeqEqual
  <2> QED  BY <2>4 DEF d
<1>6. c[Len(a) + 1] = x /\ c[Len(a) + 2] = y
  BY <1>1, <1>2, <1>3
<1> QED  BY <1>3, <1>4, <1>5, <1>6 DEF c, HasLayers
-----------------------------------------------------------------------------
(* What the old and the new text both begin and end with is not replaced.  *)

SameEnds(t, from, to, s, l, r) ==
  /\ l \in Nat /\ r \in Nat /\ l + r <= to - from /\ l + r <= Len(s)
  /\ \A i \in 1 .. l : t[from + i] = s[i]
  /\ \A i \in 1 .. r : t[to + 1 - i] = s[Len(s) + 1 - i]

LEMMA MinOfTwo ==
  ASSUME NEW a \in Nat, NEW b \in Nat
  PROVE  Min({a, b}) \in Nat /\ Min({a, b}) <= a /\ Min({a, b}) <= b
<1>1. {a, b} \in SUBSET Nat /\ {a, b} # {} /\ a \in {a, b} /\ b \in {a, b}
  OBVIOUS
<1> QED  BY <1>1, HasMin

LEMMA CommonEnds ==
  ASSUME NEW S, NEW t \in Seq(S), NEW s \in Seq(S), NEW from \in Nat, NEW to \in Nat, from <= to, to <= Len(t)
  PROVE  LET old == SubSeq(t, from + 1, to)
             l   == CommonPrefix(old, s)
         IN SameEnds(t, from, to, s, l, CommonSuffix(old, s, l))
<1> DEFINE old == SubSeq(t, from + 1, to)  l == CommonPrefix(old, s)  r == CommonSuffix(old, s, l)
           m == Min({Len(old), Len(s)})
           A == {n \in 0 .. m : \A i \in 1 .. n : old[i] = s[i]}
           B == {n \in 0 .. m - l : \A i \in 1 .. n : old[Len(old) + 1 - i] = s[Len(s) + 1 - i]}
<1>1. Len(old) = to - from /\ Len(old) \in Nat /\ \A i \in 1 .. Len(old) : old[i] = t[from + i]
  <2>1. \A i \in from + 1 .. to : t[i] \in S
    OBVIOUS
  <2>2. Len(old) = to - from /\ \A i \in 1 .. to - from : old[i] = t[from + i]
    BY <2>1, SubSeqProperties
  <2> HIDE DEF old
  <2> QED  BY <2>2
<1> HIDE DEF old
<1>2. m \in Nat /\ m <= Len(old) /\ m <= Len(s) /\ Len(s) \in Nat
  <2>1. Len(s) \in Nat
    BY LenProperties
  <2> QED  BY <1>1, <2>1, MinOfTwo
<1>3. l = Max(A) /\ r = Max(B)
  BY DEF CommonPrefix, CommonSuffix
<1> HIDE DEF m, r, l
<1>4. l \in 0 .. m /\ \A i \in 1 .. l : old[i] = s[i]
  <2>1. A \in SUBSET (0 .. m) /\ 0 \in A
    BY <1>2
  <2> HIDE DEF A
  <2>2. Max(A) \in A
    BY <1>2, <2>1, HasMax
  <2> QED  BY <1>3, <2>2 DEF A
<1>5. r \in 0 .. m - l /\ \A i \in 1 .. r : old[Len(old) + 1 - i] = s[Len(s) + 1 - i]
  <2>1. m - l \in Nat /\ B \in SUBSET (0 .. m - l) /\ 0 \in B
    BY <1>2, <1>4
  <2> HIDE DEF B
  <2>2. Max(B) \in B
    BY <2>1, HasMax
  <2> QED  BY <1>3, <2>2 DEF B
<1>6. ASSUME NEW i \in 1 .. l PROVE t[from + i] = s[i]
  <2>1. i \in 1 .. Len(old)
    BY <1>1, <1>2, <1>4
  <2> QED  BY <1>1, <1>4, <2>1
<1>7. ASSUME NEW i \in 1 .. r PROVE t[to + 1 - i] = s[Len(s) + 1 - i]
  <2>1. (to - from) + 1 - i \in 1 .. Len(old) /\ from + ((to - from) + 1 - i) = to + 1 - i
    BY <1>1, <1>2, <1>4, <1>5
  <2>2. old[(to - from) + 1 - i] = t[to + 1 - i]
    BY <1>1, <2>1
  <2> QED  BY <1>1, <1>5, <2>2
<1>8. l \in Nat /\ r \in Nat /\ l + r <= to - from /\ l + r <= Len(s)
  BY <1>1, <1>2, <1>4, <1>5
<1> QED  BY <1>6, <1>7, <1>8 DEF SameEnds, l, r, old

LEMMA TrimKeeps ==
  ASSUME NEW S, NEW t \in Seq(S), NEW s \in Seq(S), NEW from \in Nat, NEW to \in Nat, from <= to, to <= Len(t),
         NEW l, NEW r, SameEnds(t, from, to, s, l, r)
  PROVE  LET u == SubSeq(s, l + 1, Len(s) - r)
         IN /\ u \in Seq(S) /\ from + l \in Nat /\ to - r \in Nat /\ from + l <= to - r /\ to - r <= Len(t)
            /\ Splice(t, from + l, to - r, u) = Splice(t, from, to, s)
<1> DEFINE u == SubSeq(s, l + 1, Len(s) - r)  f == from + l  e == to - r  n == Len(s)
           x == Splice(t, f, e, u)  y == Splice(t, from, to, s)
<1>1. /\ l \in Nat /\ r \in Nat /\ l + r <= to - from /\ l + r <= n /\ n \in Nat /\ Len(t) \in Nat
      /\ \A i \in 1 .. l : t[from + i] = s[i]
      /\ \A i \in 1 .. r : t[to + 1 - i] = s[n + 1 - i]
  BY LenProperties DEF SameEnds
<1>2. f \in Nat /\ e \in Nat /\ f <= e /\ e <= Len(t) /\ e - f = (to - from) - (l + r)
  BY <1>1
<1>3. u \in Seq(S) /\ Len(u) = n - (l + r) /\ Len(u) \in Nat /\ \A i \in 1 .. Len(u) : u[i] = s[l + i]
  <2>1. \A i \in l + 1 .. n - r : s[i] \in S
    BY <1>1
  <2>2. l + 1 \in Int /\ n - r \in Int /\ l + 1 <= n - r + 1
    BY <1>1
  <2>3. /\ u \in Seq(S) /\ Len(u) = (IF l + 1 <= n - r THEN (n - r) - (l + 1) + 1 ELSE 0)
        /\ \A i \in 1 .. (n - r) - (l + 1) + 1 : u[i] = s[(l + 1) + i - 1]
    BY <2>1, <2>2, SubSeqProperties
  <2> HIDE DEF u, n
  <2>4. Len(u) = n - (l + r) /\ Len(u) \in Nat
    BY <1>1, <2>3
  <2>5. \A i \in 1 .. Len(u) : i \in 1 .. (n - r) - (l + 1) + 1 /\ (l + 1) + i - 1 = l + i
    BY <1>1, <2>4
  <2> QED  BY <2>3, <2>4, <2>5
<1> HIDE DEF u, f, e
<1>4. /\ x \in Seq(S) /\ Len(x) = Len(t) - (e - f) + Len(u)
      /\ \A i \in 1 .. Len(x) : x[i] = IF i <= f THEN t[i] ELSE IF i <= f + Len(u) THEN u[i - f] ELSE t[i - Len(u) + (e - f)]
  <2>1. f \in Nat /\ e \in Nat /\ f <= e /\ e <= Len(t) /\ u \in Seq(S)
    BY <1>2, <1>3
  <2>2. /\ Splice(t, f, e, u) \in Seq(S)
        /\ Len(Splice(t, f, e, u)) = Len(t) - (e - f) + Len(u)
        /\ \A i \in 1 .. Len(Splice(t, f, e, u)) :
             Splice(t, f, e, u)[i] = IF i <= f THEN t[i] ELSE IF i <= f + Len(u) THEN u[i - f] ELSE t[i - Len(u) + (e - f)]
    BY <2>1, SpliceFacts
  <2> QED  BY <2>2
<1>5. /\ y \in Seq(S) /\ Len(y) = Len(t) - (to - from) + n
      /\ \A i \in 1 .. Len(y) : y[i] = IF i <= from THEN t[i] ELSE IF i <= from + n THEN s[i - from] ELSE t[i - n + (to - from)]
  <2>1. /\ Splice(t, from, to, s) \in Seq(S)
        /\ Len(Splice(t, from, to, s)) = Len(t) - (to - from) + Len(s)
        /\ \A i \in 1 .. Len(Splice(t, from, to, s)) :
             Splice(t, from, to, s)[i] = IF i <= from THEN t[i] ELSE IF i <= from + Len(s) THEN s[i - from]
                                         ELSE t[i - Len(s) + (to - from)]
    BY SpliceFacts
  <2> QED  BY <2>1
<1> HIDE DEF x, y, n
<1>0. /\ l \in Nat /\ r \in Nat /\ l + r <= to - from /\ l + r <= n /\ n \in Nat /\ Len(t) \in Nat
      /\ f \in Nat /\ e \in Nat /\ f = from + l /\ e = to - r /\ e - f = (to - from) - (l + r)
      /\ Len(u) = n - (l + r) /\ Len(u) \in Nat
  BY <1>1, <1>2, <1>3 DEF f, e
<1>6. Len(x) = Len(y) /\ Len(x) \in Nat
  <2>1. Len(x) \in Nat
    BY <1>4, LenProperties
  <2>2. Len(x) = Len(t) - (e - f) + Len(u) /\ Len(y) = Len(t) - (to - from) + n
    BY <1>4, <1>5
  <2> QED  BY <1>0, <2>1, <2>2
<1>7. ASSUME NEW i \in 1 .. Len(x) PROVE x[i] = y[i]
  <2>0. i \in 1 .. Len(y) /\ f = from + l /\ e = to - r
    BY <1>6 DEF f, e
  <2>1. CASE i <= from
    <3>1. i <= f
      BY <1>1, <2>0, <2>1
    <3> QED  BY <1>4, <1>5, <2>0, <2>1, <3>1
  <2>2. CASE ~(i <= from) /\ i <= f
    <3>1. i - from \in 1 .. l /\ from + (i - from) = i /\ i <= from + n
      BY <1>1, <2>0, <2>2
    <3>2. t[i] = s[i - from]
      BY <1>1, <3>1
    <3> QED  BY <1>4, <1>5, <2>0, <2>2, <3>1, <3>2
  <2>3. CASE ~(i <= f) /\ i <= f + Len(u)
    <3>1. i - f \in 1 .. Len(u) /\ l + (i - f) = i - from /\ ~(i <= from) /\ i <= from + n
      BY <1>0, <2>0, <2>3
    <3>2. u[i - f] = s[i - from]
      BY <1>3, <3>1
    <3> QED  BY <1>4, <1>5, <2>0, <2>3, <3>1, <3>2
  <2>4. CASE ~(i <= f + Len(u)) /\ i <= from + n
    <3> DEFINE j == from + n + 1 - i
    <3>1. j \in 1 .. r /\ n + 1 - j = i - from /\ ~(i <= f) /\ ~(i <= from) /\ to + 1 - j = i - Len(u) + (e - f)
      BY <1>0, <2>0, <2>4
    <3> HIDE DEF j
    <3>2. t[i - Len(u) + (e - f)] = s[i - from]
      BY <1>1, <3>1
    <3> QED  BY <1>4, <1>5, <2>0, <2>4, <3>1, <3>2
  <2>5. CASE ~(i <= from + n)
    <3>1. ~(i <= from) /\ ~(i <= f) /\ ~(i <= f + Len(u)) /\ i - Len(u) + (e - f) = i - n + (to - from)
      BY <1>0, <2>0, <2>5
    <3> QED  BY <1>4, <1>5, <2>0, <2>5, <3>1
  <2> QED  BY <2>1, <2>2, <2>3, <2>4, <2>5
<1>8. x = y
  BY <1>4, <1>5, <1>6, <1>7, SeqEqual
<1> QED  BY <1>2, <1>3, <1>8 DEF x, y, u, f, e
=============================================================================
