----------------------------- MODULE StorageProofs -----------------------------
(***************************************************************************)
(* However nodes share blocks of memory, are split, freed and appended to  *)
(* in place, the buffer reads as the text the edits made, and its copy as  *)
(* what the text was when the copy was taken; the lines are those of the   *)
(* text: for texts, edits and blocks of any size and number.               *)
(***************************************************************************)
EXTENDS Storage, DataLemmas

-----------------------------------------------------------------------------
(* Recursive functions exist: there is no least length at which they do    *)
(* not, and no least place at which two of them differ.                    *)

Longer(f, ss, i) == IF i = 1 THEN ss[i] ELSE f[i - 1] \o ss[i]
Flattens(f, ss, n) == f = [i \in 1 .. n |-> Longer(f, ss, i)]

LEMMA FlatteningExists ==
  ASSUME NEW ss, NEW n \in Nat \ {0}
  PROVE  \E f : Flattens(f, ss, n)
<1> DEFINE Bad == {k \in Nat \ {0} : ~ \E f : Flattens(f, ss, k)}
<1> SUFFICES ASSUME Bad # {} PROVE FALSE
  OBVIOUS
<1>1. PICK m \in Bad : \A k \in Bad : m <= k
  <2>1. Bad \in SUBSET Nat
    OBVIOUS
  <2> HIDE DEF Bad
  <2> QED  BY <2>1, HasMin
<1>2. CASE m = 1
  <2>1. Flattens([i \in 1 .. 1 |-> ss[i]], ss, 1)
    BY DEF Flattens, Longer
  <2> QED  BY <1>2, <2>1
<1>3. CASE m # 1
  <2>1. m - 1 \in Nat \ {0} /\ m - 1 \notin Bad /\ m \in Nat
    BY <1>1, <1>3
  <2>2. PICK f : Flattens(f, ss, m - 1)
    BY <2>1
  <2> DEFINE g == [i \in 1 .. m |-> IF i < m THEN f[i] ELSE f[m - 1] \o ss[m]]
  <2>3. \A i \in 1 .. m : g[i] = Longer(g, ss, i)
    <3> TAKE i \in 1 .. m
    <3>1. CASE i < m
      <4>1. f[i] = Longer(f, ss, i)
        BY <2>1, <2>2, <3>1 DEF Flattens
      <4>2. g[i] = f[i] /\ (i # 1 => g[i - 1] = f[i - 1])
        BY <2>1, <3>1
      <4> HIDE DEF g
      <4> QED  BY <4>1, <4>2 DEF Longer
    <3>2. CASE i = m
      <4>1. m \in 1 .. m /\ m - 1 \in 1 .. m /\ ~(m < m) /\ m - 1 < m
        BY <1>3, <2>1
      <4>2. g[m] = f[m - 1] \o ss[m]
        BY <4>1
      <4>3. g[m - 1] = f[m - 1]
        BY <4>1
      <4> HIDE DEF g
      <4> QED  BY <1>3, <3>2, <4>2, <4>3 DEF Longer
    <3> HIDE DEF g
    <3> QED  BY <2>1, <3>1, <3>2
  <2>4. Flattens(g, ss, m)
    <3>1. g = [i \in 1 .. m |-> g[i]]
      OBVIOUS
    <3> HIDE DEF g
    <3> QED  BY <2>3, <3>1 DEF Flattens
  <2> QED  BY <2>4
<1> QED  BY <1>2, <1>3

LEMMA FlatteningIsOne ==
  ASSUME NEW n \in Nat, NEW m \in Nat, n <= m, NEW f, NEW g, NEW ss, NEW tt,
         Flattens(f, ss, n), Flattens(g, tt, m), \A i \in 1 .. n : ss[i] = tt[i]
  PROVE  \A i \in 1 .. n : f[i] = g[i]
<1> DEFINE Bad == {i \in 1 .. n : f[i] # g[i]}
<1> SUFFICES ASSUME Bad # {} PROVE FALSE
  OBVIOUS
<1>1. PICK i \in Bad : \A k \in Bad : i <= k
  <2>1. Bad \in SUBSET Nat
    OBVIOUS
  <2> HIDE DEF Bad
  <2> QED  BY <2>1, HasMin
<1>2. f[i] = Longer(f, ss, i) /\ g[i] = Longer(g, tt, i)
  <2>1. i \in 1 .. n /\ i \in 1 .. m
    OBVIOUS
  <2> QED  BY <2>1 DEF Flattens
<1>3. i # 1 => i - 1 \in 1 .. n /\ i - 1 \notin Bad
  BY <1>1
<1> QED  BY <1>2, <1>3 DEF Longer

\* FlattenSeq concatenates the first n - 1, then the last.
LEMMA FlattenIs ==
  ASSUME NEW ss, Len(ss) \in Nat \ {0}
  PROVE  \E f : Flattens(f, ss, Len(ss)) /\ FlattenSeq(ss) = f[Len(ss)]
<1> DEFINE n == Len(ss)
           f == CHOOSE g : g = [i \in 1 .. n |-> IF i = 1 THEN ss[i] ELSE g[i - 1] \o ss[i]]
<1>1. FlattenSeq(ss) = f[n]
  BY DEF FlattenSeq
<1>2. f = CHOOSE g : Flattens(g, ss, n)
  BY DEF Flattens, Longer
<1> HIDE DEF f
<1>3. Flattens(f, ss, n)
  BY <1>2, FlatteningExists
<1> QED  BY <1>1, <1>3

LEMMA FlattenNone == FlattenSeq(<<>>) = <<>>
BY DEF FlattenSeq

LEMMA FlattenAppend ==
  ASSUME NEW S, NEW ss \in Seq(Seq(S)), NEW s \in Seq(S)
  PROVE  FlattenSeq(Append(ss, s)) = FlattenSeq(ss) \o s
<1> DEFINE n == Len(ss)
           tt == Append(ss, s)
<1>1. n \in Nat /\ Len(tt) = n + 1 /\ tt[n + 1] = s /\ \A i \in 1 .. n : ss[i] = tt[i]
  OBVIOUS
<1> HIDE DEF tt
<1>2. PICK g : Flattens(g, tt, n + 1) /\ FlattenSeq(tt) = g[n + 1]
  BY <1>1, FlattenIs
<1>3. g[n + 1] = IF n = 0 THEN s ELSE g[n] \o s
  <2>1. n + 1 \in 1 .. n + 1 /\ n + 1 - 1 = n /\ (n + 1 = 1 <=> n = 0)
    BY <1>1
  <2>2. g[n + 1] = Longer(g, tt, n + 1)
    BY <1>2, <2>1 DEF Flattens
  <2> QED  BY <1>1, <2>1, <2>2 DEF Longer
<1>4. CASE n = 0
  <2>1. ss = <<>> /\ <<>> \o s = s
    BY <1>4
  <2> QED  BY <1>2, <1>3, <1>4, <2>1, FlattenNone DEF tt
<1>5. CASE n # 0
  <2>1. PICK f : Flattens(f, ss, n) /\ FlattenSeq(ss) = f[n]
    BY <1>1, <1>5, FlattenIs
  <2>2. n \in 1 .. n /\ n <= n + 1 /\ n + 1 \in Nat
    BY <1>1, <1>5
  <2>3. f[n] = g[n]
    <3> HIDE DEF n
    <3>1. \A i \in 1 .. n : f[i] = g[i]
      BY <1>1, <1>2, <2>1, <2>2, FlatteningIsOne
    <3> QED  BY <2>2, <3>1
  <2> QED  BY <1>1, <1>2, <1>3, <1>5, <2>1, <2>3 DEF tt
<1> QED  BY <1>4, <1>5

LEMMA InParts ==
  ASSUME NEW S, NEW a \in Seq(S), NEW b \in Seq(S), NEW c \in Seq(S)
  PROVE  (a \o b) \o c = a \o (b \o c)
BY ConcatAssociative

LEMMA FlattenType ==
  ASSUME NEW S, NEW ss \in Seq(Seq(S))
  PROVE  FlattenSeq(ss) \in Seq(S)
<1> DEFINE n == Len(ss)
<1>1. n \in Nat /\ \A i \in 1 .. n : ss[i] \in Seq(S)
  OBVIOUS
<1>2. CASE n = 0
  <2>1. ss = <<>> /\ <<>> \in Seq(S)
    BY <1>2
  <2> QED  BY <2>1, FlattenNone
<1>3. CASE n # 0
  <2>1. PICK f : Flattens(f, ss, n) /\ FlattenSeq(ss) = f[n]
    BY <1>1, <1>3, FlattenIs
  <2> DEFINE Bad == {i \in 1 .. n : f[i] \notin Seq(S)}
  <2>2. SUFFICES ASSUME Bad # {} PROVE FALSE
    BY <1>1, <1>3, <2>1
  <2>3. PICK i \in Bad : \A k \in Bad : i <= k
    <3>1. Bad \in SUBSET Nat
      OBVIOUS
    <3> HIDE DEF Bad
    <3> QED  BY <2>2, <3>1, HasMin
  <2>4. f[i] = Longer(f, ss, i)
    BY <2>1 DEF Flattens
  <2>5. i # 1 => i - 1 \in 1 .. n /\ i - 1 \notin Bad
    BY <2>3
  <2>6. i \in 1 .. n /\ ss[i] \in Seq(S) /\ f[i] \notin Seq(S)
    BY <1>1, <2>3
  <2>7. i # 1 => f[i - 1] \in Seq(S)
    BY <2>5
  <2> QED  BY <2>4, <2>6, <2>7 DEF Longer
<1> QED  BY <1>2, <1>3

LEMMA FlattenConcat ==
  ASSUME NEW S, NEW ss \in Seq(Seq(S)), NEW tt \in Seq(Seq(S))
  PROVE  FlattenSeq(ss \o tt) = FlattenSeq(ss) \o FlattenSeq(tt)
<1> DEFINE P(k) == SubSeq(tt, 1, k)
           Bad == {k \in 0 .. Len(tt) : FlattenSeq(ss \o P(k)) # FlattenSeq(ss) \o FlattenSeq(P(k))}
<1>1. P(Len(tt)) = tt
  BY SubSeqFull
<1>2. SUFFICES ASSUME Bad # {} PROVE FALSE
  <2>1. Len(tt) \in 0 .. Len(tt)
    OBVIOUS
  <2> QED  BY <1>1, <2>1
<1>3. PICK k \in Bad : \A j \in Bad : k <= j
  <2>1. Bad \in SUBSET Nat
    OBVIOUS
  <2> HIDE DEF Bad
  <2> QED  BY <1>2, <2>1, HasMin
<1>4. FlattenSeq(ss) \in Seq(S)
  BY FlattenType
<1>5. CASE k = 0
  <2>1. P(0) = <<>> /\ ss \o <<>> = ss /\ FlattenSeq(ss) \o <<>> = FlattenSeq(ss)
    BY <1>4
  <2> QED  BY <1>5, <2>1, FlattenNone
<1>6. CASE k # 0
  <2> DEFINE p == P(k - 1)
  <2>1. k - 1 \in 0 .. Len(tt) /\ k - 1 \notin Bad /\ k \in 1 .. Len(tt)
    BY SMTT(30), <1>3, <1>6
  <2>2. p \in Seq(Seq(S)) /\ tt[k] \in Seq(S) /\ P(k) = Append(p, tt[k])
    BY SMTT(30), <2>1
  <2>3. ss \o P(k) = Append(ss \o p, tt[k]) /\ ss \o p \in Seq(Seq(S))
    BY SMTT(30), <2>2
  <2>4. FlattenSeq(ss \o p) = FlattenSeq(ss) \o FlattenSeq(p)
    BY <2>1
  <2>5. FlattenSeq(p) \in Seq(S)
    BY <2>2, FlattenType
  <2> HIDE DEF P, p
  <2>6. FlattenSeq(ss \o P(k)) = (FlattenSeq(ss) \o FlattenSeq(p)) \o tt[k]
    BY ZenonT(30), <2>2, <2>3, <2>4, FlattenAppend
  <2>7. FlattenSeq(P(k)) = FlattenSeq(p) \o tt[k]
    BY <2>2, FlattenAppend
  <2>8. (FlattenSeq(ss) \o FlattenSeq(p)) \o tt[k] = FlattenSeq(ss) \o (FlattenSeq(p) \o tt[k])
    <3>1. tt[k] \in Seq(S)
      BY <2>2
    <3> DEFINE a == FlattenSeq(ss)  b == FlattenSeq(p)  c == tt[k]
    <3>2. a \in Seq(S) /\ b \in Seq(S) /\ c \in Seq(S)
      BY <1>4, <2>5, <3>1
    <3> HIDE DEF a, b, c, Bad
    <3>3. (a \o b) \o c = a \o (b \o c)
      BY SMTT(30), <3>2, InParts
    <3> QED  BY <3>3 DEF a, b, c
  <2> QED  BY <1>3, <2>6, <2>7, <2>8
<1> QED  BY <1>5, <1>6

-----------------------------------------------------------------------------
(* Nodes and their bytes, in any memory.                                   *)

Memories == [Blocks -> [bytes : Seq(Chars), room : Int]]
Nodes(mem) == {n \in [block : Blocks, offset : Nat, key : Nat] : n.offset + n.key <= Len(mem[n.block].bytes)}

BytesIn(mem, n) == SubSeq(mem[n.block].bytes, n.offset + 1, n.offset + n.key)
BytesOf(mem, ns) == [i \in DOMAIN ns |-> BytesIn(mem, ns[i])]
ContentIn(mem, ns) == FlattenSeq(BytesOf(mem, ns))

LEMMA ContentIs == ASSUME NEW ns PROVE Content(ns) = ContentIn(memory, ns)
BY DEF Content, ContentIn, BytesOf, BytesIn, Bytes

LEMMA BytesFacts ==
  ASSUME NEW mem \in Memories, NEW n \in Nodes(mem)
  PROVE  /\ BytesIn(mem, n) \in Seq(Chars) /\ Len(BytesIn(mem, n)) = n.key
         /\ \A i \in 1 .. n.key : BytesIn(mem, n)[i] = mem[n.block].bytes[n.offset + i]
<1> DEFINE b == mem[n.block].bytes  o == n.offset  k == n.key
<1>1. b \in Seq(Chars) /\ o \in Nat /\ k \in Nat /\ o + k <= Len(b) /\ BytesIn(mem, n) = SubSeq(b, o + 1, o + k)
  BY DEF Memories, Nodes, BytesIn
<1> HIDE DEF b, o, k
<1>2. \A i \in o + 1 .. o + k : b[i] \in Chars
  BY <1>1
<1>3. /\ SubSeq(b, o + 1, o + k) \in Seq(Chars) /\ Len(SubSeq(b, o + 1, o + k)) = k
      /\ \A i \in 1 .. k : SubSeq(b, o + 1, o + k)[i] = b[o + i]
  BY <1>1, <1>2, SubSeqProperties
<1> QED  BY <1>1, <1>3 DEF b, o, k

LEMMA BytesOfFacts ==
  ASSUME NEW mem \in Memories, NEW ns \in Seq(Nodes(mem))
  PROVE  /\ BytesOf(mem, ns) \in Seq(Seq(Chars)) /\ Len(BytesOf(mem, ns)) = Len(ns)
         /\ \A i \in 1 .. Len(ns) : BytesOf(mem, ns)[i] = BytesIn(mem, ns[i])
<1> DEFINE bs == BytesOf(mem, ns)
<1>1. DOMAIN ns = 1 .. Len(ns) /\ Len(ns) \in Nat /\ \A i \in 1 .. Len(ns) : ns[i] \in Nodes(mem)
  OBVIOUS
<1>2. \A i \in 1 .. Len(ns) : BytesIn(mem, ns[i]) \in Seq(Chars)
  BY <1>1, BytesFacts
<1>3. bs = [i \in 1 .. Len(ns) |-> BytesIn(mem, ns[i])]
  BY <1>1 DEF BytesOf
<1>4. bs \in [1 .. Len(ns) -> Seq(Chars)]
  BY <1>2, <1>3
<1>5. bs \in Seq(Seq(Chars))
  BY <1>1, <1>4, SeqDef
<1> HIDE DEF bs
<1>6. Len(bs) = Len(ns)
  BY <1>1, <1>4, <1>5, LenProperties
<1> QED  BY <1>3, <1>5, <1>6 DEF bs

LEMMA ContentType ==
  ASSUME NEW mem \in Memories, NEW ns \in Seq(Nodes(mem))
  PROVE  ContentIn(mem, ns) \in Seq(Chars)
BY BytesOfFacts, FlattenType DEF ContentIn

LEMMA ContentNone == ASSUME NEW mem PROVE ContentIn(mem, <<>>) = <<>>
<1>1. BytesOf(mem, <<>>) = <<>>
  BY DEF BytesOf
<1> QED  BY <1>1, FlattenNone DEF ContentIn

LEMMA ContentConcat ==
  ASSUME NEW mem \in Memories, NEW ns \in Seq(Nodes(mem)), NEW ms \in Seq(Nodes(mem))
  PROVE  ContentIn(mem, ns \o ms) = ContentIn(mem, ns) \o ContentIn(mem, ms)
<1> DEFINE a == BytesOf(mem, ns)  b == BytesOf(mem, ms)  c == BytesOf(mem, ns \o ms)
<1>1. ns \o ms \in Seq(Nodes(mem)) /\ Len(ns \o ms) = Len(ns) + Len(ms)
  BY ConcatProperties
<1>2. /\ a \in Seq(Seq(Chars)) /\ Len(a) = Len(ns) /\ \A i \in 1 .. Len(ns) : a[i] = BytesIn(mem, ns[i])
      /\ b \in Seq(Seq(Chars)) /\ Len(b) = Len(ms) /\ \A i \in 1 .. Len(ms) : b[i] = BytesIn(mem, ms[i])
  BY BytesOfFacts
<1>3. /\ c \in Seq(Seq(Chars)) /\ Len(c) = Len(ns) + Len(ms)
      /\ \A i \in 1 .. Len(ns) + Len(ms) : c[i] = BytesIn(mem, (ns \o ms)[i])
  BY <1>1, BytesOfFacts
<1> HIDE DEF a, b, c
<1>4. a \o b \in Seq(Seq(Chars)) /\ Len(a \o b) = Len(ns) + Len(ms)
  <2>1. a \in Seq(Seq(Chars)) /\ b \in Seq(Seq(Chars))
    BY <1>2
  <2>2. a \o b \in Seq(Seq(Chars)) /\ Len(a \o b) = Len(a) + Len(b)
    BY <2>1, ConcatProperties
  <2> QED  BY <1>2, <2>2
<1>5. \A i \in 1 .. Len(ns) + Len(ms) : (a \o b)[i] = c[i]
  <2> TAKE i \in 1 .. Len(ns) + Len(ms)
  <2>1. CASE i <= Len(ns)
    <3>1. i \in 1 .. Len(ns)
      BY <2>1
    <3>2. (a \o b)[i] = a[i] /\ (ns \o ms)[i] = ns[i]
      BY <1>2, <3>1, ConcatProperties
    <3> QED  BY <1>2, <1>3, <3>1, <3>2
  <2>2. CASE i > Len(ns)
    <3>1. i - Len(ns) \in 1 .. Len(ms)
      BY <2>2
    <3>2. (a \o b)[i] = b[i - Len(ns)] /\ (ns \o ms)[i] = ms[i - Len(ns)]
      BY <1>2, <2>2, <3>1, ConcatProperties
    <3> QED  BY <1>2, <1>3, <3>1, <3>2
  <2>3. i <= Len(ns) \/ i > Len(ns)
    BY LenProperties
  <2> QED  BY <2>1, <2>2, <2>3, Zenon
<1>6. a \o b = c
  BY <1>3, <1>4, <1>5, SeqEqual
<1> QED  BY <1>2, <1>6, FlattenConcat DEF ContentIn, a, b, c

LEMMA ContentOne ==
  ASSUME NEW mem \in Memories, NEW n \in Nodes(mem)
  PROVE  ContentIn(mem, <<n>>) = BytesIn(mem, n)
<1> DEFINE b == BytesIn(mem, n)
<1>1. b \in Seq(Chars)
  BY BytesFacts
<1>2. BytesOf(mem, <<n>>) = <<b>>
  BY DEF BytesOf
<1> HIDE DEF b
<1>3. <<b>> = Append(<<>>, b) /\ <<>> \in Seq(Seq(Chars)) /\ <<>> \o b = b
  BY <1>1
<1>4. FlattenSeq(<<b>>) = FlattenSeq(<<>>) \o b
  BY <1>1, <1>3, FlattenAppend
<1> QED  BY <1>2, <1>3, <1>4, FlattenNone DEF ContentIn, b

\* Where a memory has the same bytes the nodes have the same content.
LEMMA ContentSame ==
  ASSUME NEW mem, NEW new, NEW ns, \A i \in DOMAIN ns : BytesIn(mem, ns[i]) = BytesIn(new, ns[i])
  PROVE  ContentIn(mem, ns) = ContentIn(new, ns)
<1>1. BytesOf(mem, ns) = BytesOf(new, ns)
  BY DEF BytesOf
<1> QED  BY <1>1 DEF ContentIn

-----------------------------------------------------------------------------
(* Where nodes end, and splitting them.                                    *)

Further(e, ns, i) == IF i = 0 THEN 0 ELSE e[i - 1] + ns[i].key
EndsWith(e, ns, n) == e = [i \in 0 .. n |-> Further(e, ns, i)]

LEMMA EndsExist ==
  ASSUME NEW ns, NEW n \in Nat
  PROVE  \E e : EndsWith(e, ns, n)
<1> DEFINE Bad == {k \in Nat : ~ \E e : EndsWith(e, ns, k)}
<1> SUFFICES ASSUME Bad # {} PROVE FALSE
  OBVIOUS
<1>1. PICK m \in Bad : \A k \in Bad : m <= k
  <2>1. Bad \in SUBSET Nat
    OBVIOUS
  <2> HIDE DEF Bad
  <2> QED  BY <2>1, HasMin
<1>2. CASE m = 0
  <2>1. EndsWith([i \in 0 .. 0 |-> 0], ns, 0)
    BY DEF EndsWith, Further
  <2> QED  BY <1>2, <2>1
<1>3. CASE m # 0
  <2>1. m - 1 \in Nat /\ m - 1 \notin Bad /\ m \in Nat
    BY <1>1, <1>3
  <2>2. PICK f : EndsWith(f, ns, m - 1)
    BY <2>1
  <2> DEFINE g == [i \in 0 .. m |-> IF i < m THEN f[i] ELSE f[m - 1] + ns[m].key]
  <2>3. \A i \in 0 .. m : g[i] = Further(g, ns, i)
    <3> TAKE i \in 0 .. m
    <3>1. CASE i < m
      <4>1. f[i] = Further(f, ns, i)
        BY <2>1, <2>2, <3>1 DEF EndsWith
      <4>2. g[i] = f[i] /\ (i # 0 => g[i - 1] = f[i - 1])
        BY <2>1, <3>1
      <4> HIDE DEF g
      <4> QED  BY <4>1, <4>2 DEF Further
    <3>2. CASE i = m
      <4>1. m \in 0 .. m /\ m - 1 \in 0 .. m /\ ~(m < m) /\ m - 1 < m
        BY <1>3, <2>1
      <4>2. g[m] = f[m - 1] + ns[m].key
        BY <4>1
      <4>3. g[m - 1] = f[m - 1]
        BY <4>1
      <4> HIDE DEF g
      <4> QED  BY <1>3, <3>2, <4>2, <4>3 DEF Further
    <3> HIDE DEF g
    <3> QED  BY <2>1, <3>1, <3>2
  <2>4. EndsWith(g, ns, m)
    <3>1. g = [i \in 0 .. m |-> g[i]]
      OBVIOUS
    <3> HIDE DEF g
    <3> QED  BY <2>3, <3>1 DEF EndsWith
  <2> QED  BY <2>4
<1> QED  BY <1>2, <1>3

LEMMA EndsFacts ==
  ASSUME NEW ns, Len(ns) \in Nat
  PROVE  Ends(ns)[0] = 0 /\ \A i \in 1 .. Len(ns) : Ends(ns)[i] = Ends(ns)[i - 1] + ns[i].key
<1> DEFINE n == Len(ns)
           e == CHOOSE f : f = [i \in 0 .. n |-> IF i = 0 THEN 0 ELSE f[i - 1] + ns[i].key]
<1>1. Ends(ns) = e
  BY DEF Ends
<1>2. e = CHOOSE f : EndsWith(f, ns, n)
  BY DEF EndsWith, Further
<1> HIDE DEF e
<1>3. EndsWith(e, ns, n)
  BY <1>2, EndsExist
<1>4. \A i \in 0 .. n : e[i] = Further(e, ns, i)
  BY <1>3 DEF EndsWith
<1> QED  BY <1>1, <1>4 DEF Further

LEMMA PartOfNodes ==
  ASSUME NEW S, NEW ns \in Seq(S), NEW k \in 0 .. Len(ns)
  PROVE  /\ SubSeq(ns, 1, k) \in Seq(S) /\ SubSeq(ns, k + 1, Len(ns)) \in Seq(S)
         /\ SubSeq(ns, 1, k) \o SubSeq(ns, k + 1, Len(ns)) = ns
         /\ k # 0 => ns[k] \in S /\ SubSeq(ns, 1, k - 1) \in Seq(S) /\ SubSeq(ns, 1, k) = SubSeq(ns, 1, k - 1) \o <<ns[k]>>
         /\ k # Len(ns) => /\ ns[k + 1] \in S /\ SubSeq(ns, k + 2, Len(ns)) \in Seq(S)
                           /\ SubSeq(ns, k + 1, Len(ns)) = <<ns[k + 1]>> \o SubSeq(ns, k + 2, Len(ns))
<1>1. Len(ns) \in Nat /\ \A i \in 1 .. Len(ns) : ns[i] \in S
  BY LenProperties
<1>2. SubSeq(ns, 1, k) \in Seq(S) /\ SubSeq(ns, k + 1, Len(ns)) \in Seq(S)
  BY <1>1, SubSeqProperties
<1>3. SubSeq(ns, 1, k) \o SubSeq(ns, k + 1, Len(ns)) = ns
  <2>1. 1 \in 1 .. Len(ns) + 1 /\ k \in 1 - 1 .. Len(ns) /\ Len(ns) \in k .. Len(ns)
    BY <1>1
  <2>2. SubSeq(ns, 1, k) \o SubSeq(ns, k + 1, Len(ns)) = SubSeq(ns, 1, Len(ns))
    BY <2>1, ConcatAdjacentSubSeq
  <2> QED  BY <2>2, SubSeqFull
<1>4. ASSUME k # 0
      PROVE  ns[k] \in S /\ SubSeq(ns, 1, k - 1) \in Seq(S) /\ SubSeq(ns, 1, k) = SubSeq(ns, 1, k - 1) \o <<ns[k]>>
  <2>1. 1 \in 1 .. Len(ns) /\ k \in 1 .. Len(ns)
    BY <1>1, <1>4
  <2>2. SubSeq(ns, 1, k) = SubSeq(ns, 1, k - 1) \o <<ns[k]>>
    BY <2>1, SubSeqRecursiveSecond
  <2>3. SubSeq(ns, 1, k - 1) \in Seq(S)
    BY <1>1, <2>1, SubSeqProperties
  <2> QED  BY <1>1, <2>1, <2>2, <2>3
<1>5. ASSUME k # Len(ns)
      PROVE  /\ ns[k + 1] \in S /\ SubSeq(ns, k + 2, Len(ns)) \in Seq(S)
             /\ SubSeq(ns, k + 1, Len(ns)) = <<ns[k + 1]>> \o SubSeq(ns, k + 2, Len(ns))
  <2>1. k + 1 \in 1 .. Len(ns) /\ Len(ns) \in k + 1 .. Len(ns) /\ k + 1 + 1 = k + 2
    BY <1>1, <1>5
  <2>2. SubSeq(ns, k + 1, Len(ns)) = <<ns[k + 1]>> \o SubSeq(ns, k + 2, Len(ns))
    BY <2>1, SubSeqRecursiveFirst
  <2>3. SubSeq(ns, k + 2, Len(ns)) \in Seq(S)
    BY <1>1, <2>1, SubSeqProperties
  <2> QED  BY <1>1, <2>1, <2>2, <2>3
<1> QED  BY <1>2, <1>3, <1>4, <1>5

\* A node's end is the length of the content up to it.
LEMMA EndsAre ==
  ASSUME NEW mem \in Memories, NEW ns \in Seq(Nodes(mem))
  PROVE  \A i \in 0 .. Len(ns) : Ends(ns)[i] = Len(ContentIn(mem, SubSeq(ns, 1, i)))
<1> DEFINE e == Ends(ns)
           L(i) == Len(ContentIn(mem, SubSeq(ns, 1, i)))
           Bad == {i \in 0 .. Len(ns) : e[i] # L(i)}
<1> SUFFICES ASSUME Bad # {} PROVE FALSE
  OBVIOUS
<1>1. PICK i \in Bad : \A k \in Bad : i <= k
  <2>1. Bad \in SUBSET Nat
    OBVIOUS
  <2> HIDE DEF Bad
  <2> QED  BY <2>1, HasMin
<1>2. e[0] = 0 /\ \A k \in 1 .. Len(ns) : e[k] = e[k - 1] + ns[k].key
  BY EndsFacts
<1> HIDE DEF e
<1>3. CASE i = 0
  <2>1. SubSeq(ns, 1, 0) = <<>>
    OBVIOUS
  <2>2. L(0) = 0
    <3>1. ContentIn(mem, SubSeq(ns, 1, 0)) = <<>>
      BY <2>1, ContentNone, Zenon
    <3> QED  BY <3>1
  <2> QED  BY <1>1, <1>2, <1>3, <2>2
<1>4. CASE i # 0
  <2> DEFINE a == SubSeq(ns, 1, i - 1)  n == ns[i]
  <2>1. i \in 1 .. Len(ns) /\ i \in 0 .. Len(ns) /\ i - 1 \in 0 .. Len(ns) /\ i - 1 \notin Bad
    BY <1>1, <1>4
  <2>2. n \in Nodes(mem) /\ a \in Seq(Nodes(mem)) /\ SubSeq(ns, 1, i) = a \o <<n>>
    BY <1>4, <2>1, PartOfNodes
  <2>3. e[i] = L(i - 1) + n.key
    BY <1>2, <2>1
  <2> HIDE DEF a, n
  <2>4. <<n>> \in Seq(Nodes(mem))
    BY <2>2
  <2>5. ContentIn(mem, a \o <<n>>) = ContentIn(mem, a) \o BytesIn(mem, n)
    BY <2>2, <2>4, ContentConcat, ContentOne
  <2>6. ContentIn(mem, a) \in Seq(Chars) /\ BytesIn(mem, n) \in Seq(Chars) /\ Len(BytesIn(mem, n)) = n.key
    BY <2>2, ContentType, BytesFacts
  <2>7. L(i) = L(i - 1) + n.key
    <3> DEFINE x == ContentIn(mem, a)  y == BytesIn(mem, n)
    <3>1. x \in Seq(Chars) /\ y \in Seq(Chars) /\ Len(y) = n.key
      BY <2>6
    <3>2. L(i) = Len(x \o y)
      BY <2>2, <2>5, Zenon
    <3>3. L(i - 1) = Len(x)
      BY DEF a
    <3> HIDE DEF x, y, L, Bad
    <3>4. Len(x \o y) = Len(x) + Len(y)
      BY <3>1, ConcatProperties
    <3> QED  BY <3>1, <3>2, <3>3, <3>4
  <2> QED  BY <1>1, <2>3, <2>7
<1> QED  BY <1>3, <1>4

LEMMA PartsOfConcat ==
  ASSUME NEW S, NEW x \in Seq(S), NEW y \in Seq(S)
  PROVE  /\ x \o y \in Seq(S) /\ Len(x \o y) = Len(x) + Len(y)
         /\ SubSeq(x \o y, 1, Len(x)) = x
         /\ SubSeq(x \o y, Len(x) + 1, Len(x \o y)) = y
<1> DEFINE z == x \o y  l == Len(x)  a == SubSeq(z, 1, l)  b == SubSeq(z, l + 1, Len(z))
<1>1. /\ z \in Seq(S) /\ Len(z) = l + Len(y) /\ l \in Nat /\ Len(y) \in Nat
      /\ \A i \in 1 .. l + Len(y) : z[i] = IF i <= l THEN x[i] ELSE y[i - l]
  BY ConcatProperties
<1> HIDE DEF z, l
<1>2. \A i \in 1 .. Len(z) : z[i] \in S
  BY <1>1
<1>3. a \in Seq(S) /\ Len(a) = l /\ \A i \in 1 .. l : a[i] = z[i]
  BY <1>1, <1>2, SubSeqProperties
<1>4. b \in Seq(S) /\ Len(b) = Len(y) /\ \A i \in 1 .. Len(y) : b[i] = z[l + i]
  BY <1>1, <1>2, SubSeqProperties
<1> HIDE DEF a, b
<1>5. a = x
  <2>1. \A i \in 1 .. l : a[i] = x[i]
    BY <1>1, <1>3
  <2> QED  BY <1>3, <2>1, SeqEqual DEF l
<1>6. b = y
  <2>1. \A i \in 1 .. Len(y) : b[i] = y[i]
    <3> TAKE i \in 1 .. Len(y)
    <3>1. l + i \in 1 .. l + Len(y) /\ ~(l + i <= l) /\ l + i - l = i
      BY <1>1
    <3>2. z[l + i] = y[l + i - l]
      BY <1>1, <3>1
    <3> QED  BY <1>4, <3>1, <3>2
  <2> QED  BY <1>4, <2>1, SeqEqual
<1> QED  BY <1>1, <1>5, <1>6 DEF a, b, z, l

LEMMA UsedOfConcat ==
  ASSUME NEW S, NEW ns \in Seq(S), NEW ms \in Seq(S)
  PROVE  Used(ns \o ms) = Used(ns) \cup Used(ms)
<1>1. /\ DOMAIN ns = 1 .. Len(ns) /\ DOMAIN ms = 1 .. Len(ms) /\ Len(ns) \in Nat /\ Len(ms) \in Nat
      /\ DOMAIN (ns \o ms) = 1 .. Len(ns) + Len(ms)
  BY ConcatProperties, LenProperties
<1>2. \A i \in 1 .. Len(ns) : (ns \o ms)[i] = ns[i] /\ i \in 1 .. Len(ns) + Len(ms)
  BY <1>1, ConcatProperties
<1>3. \A i \in 1 .. Len(ms) : (ns \o ms)[Len(ns) + i] = ms[i] /\ Len(ns) + i \in 1 .. Len(ns) + Len(ms)
  BY <1>1, ConcatProperties
<1>4. \A i \in 1 .. Len(ns) + Len(ms) : i \in 1 .. Len(ns) \/ \E j \in 1 .. Len(ms) : i = Len(ns) + j
  <2> TAKE i \in 1 .. Len(ns) + Len(ms)
  <2>1. CASE i <= Len(ns)
    BY <1>1, <2>1
  <2>2. CASE ~(i <= Len(ns))
    <3>1. i - Len(ns) \in 1 .. Len(ms) /\ i = Len(ns) + (i - Len(ns))
      BY <1>1, <2>2
    <3> QED  BY <3>1
  <2> QED  BY <2>1, <2>2
<1> DEFINE both == ns \o ms
<1>5. /\ DOMAIN both = 1 .. Len(ns) + Len(ms)
      /\ \A i \in 1 .. Len(ns) : both[i] = ns[i] /\ i \in 1 .. Len(ns) + Len(ms)
      /\ \A i \in 1 .. Len(ms) : both[Len(ns) + i] = ms[i] /\ Len(ns) + i \in 1 .. Len(ns) + Len(ms)
  BY <1>1, <1>2, <1>3
<1> HIDE DEF both
<1>6. Used(ns) \subseteq Used(both) /\ Used(ms) \subseteq Used(both)
  <2>1. \A i \in DOMAIN ns : i \in DOMAIN both /\ both[i] = ns[i]
    BY <1>1, <1>5
  <2>2. \A i \in DOMAIN ms : Len(ns) + i \in DOMAIN both /\ both[Len(ns) + i] = ms[i]
    BY <1>1, <1>5
  <2>3. \A i \in DOMAIN both : both[i].block \in Used(both)
    BY DEF Used
  <2>4. \A i \in DOMAIN ns : ns[i].block \in Used(both)
    BY <2>1, <2>3
  <2>5. \A i \in DOMAIN ms : ms[i].block \in Used(both)
    BY <2>2, <2>3
  <2> QED  BY <2>4, <2>5 DEF Used
<1>7. Used(both) \subseteq Used(ns) \cup Used(ms)
  <2> SUFFICES ASSUME NEW i \in 1 .. Len(ns) + Len(ms)
               PROVE  both[i].block \in Used(ns) \cup Used(ms)
    BY <1>5 DEF Used
  <2> QED  BY <1>1, <1>4, <1>5 DEF Used
<1> QED  BY <1>6, <1>7 DEF both

LEMMA UsedOne == ASSUME NEW n PROVE Used(<<n>>) = {n.block}
BY DEF Used

\* The two parts of a node have its bytes.
LEMMA NodeCut ==
  ASSUME NEW mem \in Memories, NEW n \in Nodes(mem), NEW cut \in 0 .. n.key
  PROVE  /\ [n EXCEPT !.key = cut] \in Nodes(mem)
         /\ [n EXCEPT !.offset = @ + cut, !.key = @ - cut] \in Nodes(mem)
         /\ BytesIn(mem, n) = BytesIn(mem, [n EXCEPT !.key = cut])
                                \o BytesIn(mem, [n EXCEPT !.offset = @ + cut, !.key = @ - cut])
<1> DEFINE l == [n EXCEPT !.key = cut]
           r == [n EXCEPT !.offset = @ + cut, !.key = @ - cut]
           B == BytesIn(mem, n)  BL == BytesIn(mem, l)  BR == BytesIn(mem, r)  at(i) == mem[n.block].bytes[i]
<1>0. mem[n.block] \in [bytes : Seq(Chars), room : Int] /\ Len(mem[n.block].bytes) \in Nat
  BY DEF Memories, Nodes
<1>1. n.block \in Blocks /\ n.offset \in Nat /\ n.key \in Nat /\ n.offset + n.key <= Len(mem[n.block].bytes)
  BY DEF Nodes
<1>2. /\ l \in [block : Blocks, offset : Nat, key : Nat] /\ l.block = n.block /\ l.offset = n.offset /\ l.key = cut
      /\ r \in [block : Blocks, offset : Nat, key : Nat] /\ r.block = n.block /\ r.offset = n.offset + cut /\ r.key = n.key - cut
  <2>1. n \in [block : Blocks, offset : Nat, key : Nat] /\ cut \in Nat /\ n.offset + cut \in Nat /\ n.key - cut \in Nat
    BY <1>1 DEF Nodes
  <2> QED  BY <2>1
<1> HIDE DEF l, r, at
<1>3. l \in Nodes(mem) /\ r \in Nodes(mem)
  BY SMTT(30), <1>0, <1>1, <1>2 DEF Nodes
<1>4. B \in Seq(Chars) /\ Len(B) = n.key /\ \A i \in 1 .. n.key : B[i] = at(n.offset + i)
  BY BytesFacts DEF at
<1>5. BL \in Seq(Chars) /\ Len(BL) = cut /\ \A i \in 1 .. cut : BL[i] = at(n.offset + i)
  BY <1>2, <1>3, BytesFacts DEF at
<1>6. BR \in Seq(Chars) /\ Len(BR) = n.key - cut /\ \A i \in 1 .. n.key - cut : BR[i] = at(n.offset + cut + i)
  BY SMTT(30), <1>2, <1>3, BytesFacts DEF at
<1> HIDE DEF B, BL, BR
<1>7. BL \o BR \in Seq(Chars) /\ Len(BL \o BR) = n.key
  <2>1. Len(BL \o BR) = Len(BL) + Len(BR) /\ BL \o BR \in Seq(Chars)
    BY <1>5, <1>6, ConcatProperties
  <2> QED  BY <1>1, <1>5, <1>6, <2>1
<1>8. \A i \in 1 .. n.key : (BL \o BR)[i] = at(n.offset + i)
  <2> TAKE i \in 1 .. n.key
  <2>1. (BL \o BR)[i] = IF i <= cut THEN BL[i] ELSE BR[i - cut]
    <3>1. \A j \in 1 .. Len(BL) + Len(BR) : (BL \o BR)[j] = IF j <= Len(BL) THEN BL[j] ELSE BR[j - Len(BL)]
      BY <1>5, <1>6, ConcatProperties
    <3>2. i \in 1 .. Len(BL) + Len(BR)
      BY <1>1, <1>5, <1>6
    <3> QED  BY <1>5, <3>1, <3>2
  <2>2. CASE i <= cut
    BY <1>5, <2>1, <2>2
  <2>3. CASE ~(i <= cut)
    <3>1. i - cut \in 1 .. n.key - cut /\ n.offset + cut + (i - cut) = n.offset + i
      BY <1>1, <2>3
    <3>2. BR[i - cut] = at(n.offset + i)
      BY <1>6, <3>1
    <3> QED  BY <2>1, <2>3, <3>2
  <2> QED  BY <2>2, <2>3
<1>9. B = BL \o BR
  BY <1>4, <1>7, <1>8, SeqEqual
<1> QED  BY <1>3, <1>9 DEF l, r, B, BL, BR

IsSplit(mem, ns, pos, l, r) ==
  /\ l \in Seq(Nodes(mem)) /\ r \in Seq(Nodes(mem)) /\ Used(l) \cup Used(r) \subseteq Used(ns)
  /\ ContentIn(mem, l) = SubSeq(ContentIn(mem, ns), 1, pos)
  /\ ContentIn(mem, r) = SubSeq(ContentIn(mem, ns), pos + 1, Len(ContentIn(mem, ns)))

LEMMA InTwo ==
  ASSUME NEW mem \in Memories, NEW ns, NEW l \in Seq(Nodes(mem)), NEW r \in Seq(Nodes(mem)),
         Used(l) \cup Used(r) \subseteq Used(ns),
         ContentIn(mem, ns) = ContentIn(mem, l) \o ContentIn(mem, r)
  PROVE  IsSplit(mem, ns, Len(ContentIn(mem, l)), l, r)
<1> DEFINE a == ContentIn(mem, l)  b == ContentIn(mem, r)
<1>1. a \in Seq(Chars) /\ b \in Seq(Chars)
  BY ContentType
<1>2. ContentIn(mem, ns) = a \o b
  OBVIOUS
<1> HIDE DEF a, b
<1>3. SubSeq(a \o b, 1, Len(a)) = a /\ SubSeq(a \o b, Len(a) + 1, Len(a \o b)) = b
  BY <1>1, PartsOfConcat
<1> QED  BY <1>2, <1>3 DEF IsSplit, a, b

\* What is before and behind a position, also if it is in a node.
LEMMA SplitSplits ==
  ASSUME NEW mem \in Memories, NEW ns \in Seq(Nodes(mem)), NEW pos \in 0 .. Len(ContentIn(mem, ns))
  PROVE  IsSplit(mem, ns, pos, Split(ns, pos).left, Split(ns, pos).right)
<1> DEFINE e == Ends(ns)  N == Len(ns)  K == {i \in 0 .. N : e[i] <= pos}  k == Max(K)  cut == pos - e[k]
           L == SubSeq(ns, 1, k)  R == SubSeq(ns, k + 1, N)  C == ContentIn(mem, ns)
<1>1. N \in Nat /\ C \in Seq(Chars) /\ Len(C) \in Nat /\ pos \in Nat /\ pos <= Len(C)
  <2>1. C \in Seq(Chars) /\ N \in Nat
    BY ContentType, LenProperties
  <2>2. Len(C) \in Nat
    BY <2>1, LenProperties
  <2> QED  BY <2>1, <2>2
<1>2. \A i \in 0 .. N : e[i] = Len(ContentIn(mem, SubSeq(ns, 1, i))) /\ e[i] \in Nat
  <2>1. \A i \in 0 .. N : SubSeq(ns, 1, i) \in Seq(Nodes(mem))
    BY PartOfNodes
  <2>2. \A i \in 0 .. N : Len(ContentIn(mem, SubSeq(ns, 1, i))) \in Nat
    BY <2>1, ContentType, LenProperties
  <2> QED  BY <2>2, EndsAre
<1>3. e[0] = 0 /\ \A i \in 1 .. N : e[i] = e[i - 1] + ns[i].key
  BY EndsFacts, <1>1
<1>4. e[N] = Len(C)
  <2>1. SubSeq(ns, 1, N) = ns
    BY SubSeqFull
  <2>2. N \in 0 .. N
    BY <1>1
  <2>3. e[N] = Len(ContentIn(mem, SubSeq(ns, 1, N)))
    BY <1>2, <2>2
  <2> QED  BY <2>1, <2>3
<1>5. k \in K /\ \A i \in K : k >= i
  <2>1. 0 \in K
    BY <1>1, <1>3
  <2>2. K \in SUBSET (0 .. N)
    OBVIOUS
  <2> HIDE DEF K
  <2> QED  BY <1>1, <2>1, <2>2, HasMax
<1>6. k \in 0 .. N /\ e[k] <= pos /\ cut \in Nat
  BY <1>1, <1>2, <1>5
<1>7. /\ cut = 0 => Split(ns, pos).left = L /\ Split(ns, pos).right = R
      /\ cut # 0 => /\ Split(ns, pos).left = Append(L, [ns[k + 1] EXCEPT !.key = cut])
                    /\ Split(ns, pos).right = <<[ns[k + 1] EXCEPT !.offset = @ + cut, !.key = @ - cut]>> \o SubSeq(ns, k + 2, N)
  BY DEF Split
<1> HIDE DEF e, K, k
<1>8. /\ L \in Seq(Nodes(mem)) /\ R \in Seq(Nodes(mem)) /\ L \o R = ns
      /\ k # N => /\ ns[k + 1] \in Nodes(mem) /\ SubSeq(ns, k + 2, N) \in Seq(Nodes(mem))
                  /\ R = <<ns[k + 1]>> \o SubSeq(ns, k + 2, N)
  BY <1>6, PartOfNodes
<1>9. Len(ContentIn(mem, L)) = e[k]
  BY <1>2, <1>6
<1> HIDE DEF L, R
<1>10. C = ContentIn(mem, L) \o ContentIn(mem, R) /\ Used(ns) = Used(L) \cup Used(R)
  <2>1. ContentIn(mem, L \o R) = ContentIn(mem, L) \o ContentIn(mem, R)
    BY <1>8, ContentConcat
  <2>2. Used(L \o R) = Used(L) \cup Used(R)
    <3>1. L \in Seq(Nodes(mem)) /\ R \in Seq(Nodes(mem))
      BY <1>8
    <3> QED  BY <3>1, UsedOfConcat
  <2> QED  BY <1>8, <2>1, <2>2
<1>11. CASE cut = 0
  <2>1. Split(ns, pos).left = L /\ Split(ns, pos).right = R
    BY <1>7, <1>11
  <2>2. pos = Len(ContentIn(mem, L))
    BY <1>1, <1>2, <1>6, <1>9, <1>11
  <2>3. IsSplit(mem, ns, Len(ContentIn(mem, L)), L, R)
    BY <1>8, <1>10, InTwo
  <2> QED  BY <2>1, <2>2, <2>3
<1>12. CASE cut # 0
  <2> DEFINE n == ns[k + 1]  T == SubSeq(ns, k + 2, N)
             n1 == [n EXCEPT !.key = cut]  n2 == [n EXCEPT !.offset = @ + cut, !.key = @ - cut]
             l == L \o <<n1>>  r == <<n2>> \o T
             cL == ContentIn(mem, L)  cT == ContentIn(mem, T)  b1 == BytesIn(mem, n1)  b2 == BytesIn(mem, n2)
  <2>1. k # N
    BY <1>1, <1>2, <1>4, <1>6, <1>12
  <2>2. n \in Nodes(mem) /\ T \in Seq(Nodes(mem)) /\ R = <<n>> \o T
    BY <1>8, <2>1
  <2>3. k + 1 \in 1 .. N /\ k + 1 \in 0 .. N /\ k + 1 - 1 = k
    BY <1>1, <1>6, <2>1
  <2>4. e[k + 1] = e[k] + n.key /\ ~(e[k + 1] <= pos)
    BY <1>3, <1>5, <1>6, <2>3 DEF K
  <2>5. cut \in 0 .. n.key /\ n.key \in Nat
    <3>1. n.key \in Nat
      BY <2>2 DEF Nodes
    <3> QED  BY <1>1, <1>2, <1>6, <2>4, <3>1
  <2>6. Split(ns, pos).left = Append(L, n1) /\ Split(ns, pos).right = r
    BY <1>7, <1>12
  <2> HIDE DEF n, T
  <2>7. n1 \in Nodes(mem) /\ n2 \in Nodes(mem) /\ BytesIn(mem, n) = b1 \o b2
    BY ZenonT(30), <2>2, <2>5, NodeCut
  <2>8. n1.block = n.block /\ n2.block = n.block /\ n1.key = cut
    BY <2>2 DEF Nodes
  <2> HIDE DEF n1, n2
  <2>9. <<n1>> \in Seq(Nodes(mem)) /\ <<n2>> \in Seq(Nodes(mem)) /\ <<n>> \in Seq(Nodes(mem)) /\ Append(L, n1) = l
    BY <1>8, <2>2, <2>7
  <2>10. l \in Seq(Nodes(mem)) /\ r \in Seq(Nodes(mem))
    BY <1>8, <2>2, <2>9, ConcatProperties
  <2>11. Used(l) \cup Used(r) \subseteq Used(ns)
    <3>1. /\ Used(l) = Used(L) \cup Used(<<n1>>) /\ Used(r) = Used(<<n2>>) \cup Used(T)
          /\ Used(R) = Used(<<n>>) \cup Used(T)
      <4>1. Used(L \o <<n1>>) = Used(L) \cup Used(<<n1>>)
        <5>1. L \in Seq(Nodes(mem)) /\ <<n1>> \in Seq(Nodes(mem))
          BY <1>8, <2>9
        <5> QED  BY <5>1, UsedOfConcat
      <4>2. Used(<<n2>> \o T) = Used(<<n2>>) \cup Used(T)
        BY ZenonT(30), <2>2, <2>9, UsedOfConcat
      <4>3. Used(<<n>> \o T) = Used(<<n>>) \cup Used(T)
        BY ZenonT(30), <2>2, <2>9, UsedOfConcat
      <4> QED  BY <2>2, <4>1, <4>2, <4>3
    <3> QED  BY <1>10, <2>8, <3>1, UsedOne
  <2>12. cL \in Seq(Chars) /\ cT \in Seq(Chars) /\ b1 \in Seq(Chars) /\ b2 \in Seq(Chars) /\ Len(b1) = cut
    BY <1>8, <2>2, <2>7, <2>8, ContentType, BytesFacts
  <2>13. ContentIn(mem, l) = cL \o b1 /\ ContentIn(mem, r) = b2 \o cT
    <3>1. ContentIn(mem, <<n1>>) = b1 /\ ContentIn(mem, <<n2>>) = b2
      BY <2>7, ContentOne
    <3>2. ContentIn(mem, L \o <<n1>>) = cL \o ContentIn(mem, <<n1>>)
      BY <1>8, <2>9, ContentConcat
    <3>3. ContentIn(mem, <<n2>> \o T) = ContentIn(mem, <<n2>>) \o cT
      BY <2>2, <2>9, ContentConcat
    <3> QED  BY <3>1, <3>2, <3>3
  <2>14. ContentIn(mem, R) = (b1 \o b2) \o cT
    <3>1. ContentIn(mem, <<n>>) = b1 \o b2
      BY <2>2, <2>7, ContentOne
    <3>2. ContentIn(mem, <<n>> \o T) = ContentIn(mem, <<n>>) \o cT
      BY <2>2, <2>9, ContentConcat
    <3> QED  BY <2>2, <3>1, <3>2
  <2> HIDE DEF l, r, cL, cT, b1, b2
  <2>15. cL \o ((b1 \o b2) \o cT) = (cL \o b1) \o (b2 \o cT)
    <3>1. (b1 \o b2) \o cT = b1 \o (b2 \o cT) /\ b2 \o cT \in Seq(Chars)
      BY SMTT(30), <2>12, InParts, ConcatProperties
    <3>2. (cL \o b1) \o (b2 \o cT) = cL \o (b1 \o (b2 \o cT))
      <4> DEFINE d == b2 \o cT
      <4>1. d \in Seq(Chars) /\ cL \in Seq(Chars) /\ b1 \in Seq(Chars)
        BY <2>12, <3>1
      <4> HIDE DEF d
      <4>2. (cL \o b1) \o d = cL \o (b1 \o d)
        BY <4>1, InParts
      <4> QED  BY <4>2 DEF d
    <3> QED  BY <3>1, <3>2
  <2>16. C = ContentIn(mem, l) \o ContentIn(mem, r)
    BY <1>10, <2>13, <2>14, <2>15 DEF cL
  <2>17. IsSplit(mem, ns, Len(ContentIn(mem, l)), l, r)
    BY <2>10, <2>11, <2>16, InTwo
  <2>18. Len(ContentIn(mem, l)) = pos
    <3>1. Len(cL \o b1) = Len(cL) + Len(b1) /\ Len(cL) = e[k]
      BY <1>9, <2>12, ConcatProperties DEF cL
    <3> QED  BY <1>1, <1>2, <1>6, <2>12, <2>13, <3>1
  <2> QED  BY <2>6, <2>9, <2>17, <2>18
<1> QED  BY <1>11, <1>12

LEMMA EraseErases ==
  ASSUME NEW mem \in Memories, NEW ns \in Seq(Nodes(mem)),
         NEW first \in Nat, NEW last \in Nat, first <= last, last <= Len(ContentIn(mem, ns))
  PROVE  /\ Erase(ns, first, last) \in Seq(Nodes(mem)) /\ Used(Erase(ns, first, last)) \subseteq Used(ns)
         /\ ContentIn(mem, Erase(ns, first, last)) =
              SubSeq(ContentIn(mem, ns), 1, first) \o SubSeq(ContentIn(mem, ns), last + 1, Len(ContentIn(mem, ns)))
<1> DEFINE C == ContentIn(mem, ns)  l == Split(ns, first).left  r == Split(ns, last).right
<1>1. first \in 0 .. Len(C) /\ last \in 0 .. Len(C)
  <2>1. Len(C) \in Nat
    BY ContentType, LenProperties
  <2> QED  BY <2>1
<1>2. IsSplit(mem, ns, first, l, Split(ns, first).right) /\ IsSplit(mem, ns, last, Split(ns, last).left, r)
  BY <1>1, SplitSplits
<1>3. Erase(ns, first, last) = l \o r
  BY DEF Erase
<1> HIDE DEF l, r
<1>4. /\ l \in Seq(Nodes(mem)) /\ r \in Seq(Nodes(mem)) /\ Used(l) \cup Used(r) \subseteq Used(ns)
      /\ ContentIn(mem, l) = SubSeq(C, 1, first) /\ ContentIn(mem, r) = SubSeq(C, last + 1, Len(C))
  BY <1>2 DEF IsSplit
<1>5. l \o r \in Seq(Nodes(mem))
  BY <1>4, ConcatProperties
<1>6. Used(l \o r) = Used(l) \cup Used(r)
  <2>1. l \in Seq(Nodes(mem)) /\ r \in Seq(Nodes(mem))
    BY <1>4
  <2> QED  BY <2>1, UsedOfConcat
<1>7. ContentIn(mem, l \o r) = ContentIn(mem, l) \o ContentIn(mem, r)
  BY <1>4, ContentConcat
<1> QED  BY <1>3, <1>4, <1>5, <1>6, <1>7

-----------------------------------------------------------------------------
(* Memory that is appended to, freed and allocated.                        *)

\* The blocks B have the bytes they had, or more behind them.
Extends(mem, new, B) ==
  \A b \in B : /\ Len(mem[b].bytes) <= Len(new[b].bytes)
               /\ \A i \in 1 .. Len(mem[b].bytes) : new[b].bytes[i] = mem[b].bytes[i]

\* Which nobody who refers to them can tell.
LEMMA StillThere ==
  ASSUME NEW mem \in Memories, NEW new \in Memories, NEW ns \in Seq(Nodes(mem)), Extends(mem, new, Used(ns))
  PROVE  ns \in Seq(Nodes(new)) /\ ContentIn(new, ns) = ContentIn(mem, ns)
<1>1. DOMAIN ns = 1 .. Len(ns) /\ Len(ns) \in Nat
  BY LenProperties
<1>2. ASSUME NEW i \in 1 .. Len(ns)
      PROVE  ns[i] \in Nodes(new) /\ BytesIn(mem, ns[i]) = BytesIn(new, ns[i])
  <2> DEFINE n == ns[i]  B == mem[n.block].bytes  D == new[n.block].bytes  o == n.offset  k == n.key
  <2>1. n \in Nodes(mem) /\ n.block \in Used(ns)
    BY <1>1 DEF Used
  <2>2. n \in [block : Blocks, offset : Nat, key : Nat] /\ n.block \in Blocks /\ o \in Nat /\ k \in Nat /\ o + k <= Len(B)
    BY <2>1 DEF Nodes
  <2>3. B \in Seq(Chars) /\ D \in Seq(Chars) /\ Len(B) \in Nat /\ Len(D) \in Nat
    BY <2>2, LenProperties DEF Memories
  <2>4. Len(B) <= Len(D) /\ \A j \in 1 .. Len(B) : D[j] = B[j]
    BY <2>1 DEF Extends
  <2>5. n \in Nodes(new)
    <3>1. o + k <= Len(D)
      BY <2>2, <2>3, <2>4
    <3> QED  BY <2>2, <3>1 DEF Nodes
  <2>6. /\ BytesIn(mem, n) \in Seq(Chars) /\ Len(BytesIn(mem, n)) = k /\ \A j \in 1 .. k : BytesIn(mem, n)[j] = B[o + j]
        /\ BytesIn(new, n) \in Seq(Chars) /\ Len(BytesIn(new, n)) = k /\ \A j \in 1 .. k : BytesIn(new, n)[j] = D[o + j]
    BY <2>1, <2>5, BytesFacts
  <2> HIDE DEF n, B, D, o, k
  <2>7. \A j \in 1 .. k : o + j \in 1 .. Len(B)
    BY <2>2, <2>3
  <2>8. \A j \in 1 .. k : BytesIn(mem, n)[j] = BytesIn(new, n)[j]
    BY <2>4, <2>6, <2>7
  <2>9. BytesIn(mem, n) = BytesIn(new, n)
    BY <2>6, <2>8, SeqEqual
  <2> QED  BY <2>5, <2>9 DEF n
<1>3. ns \in Seq(Nodes(new))
  <2>1. ns \in [1 .. Len(ns) -> Nodes(new)]
    BY <1>2, LenProperties
  <2> QED  BY <1>1, <2>1, SeqDef
<1> QED  BY <1>1, <1>2, <1>3, ContentSame

\* The last node of l ends where its block did, and the bytes s were appended
\* to the block.
AppendsTo(mem, new, n, s) ==
  n.key = Len(mem[n.block].bytes) - n.offset /\ new[n.block].bytes = mem[n.block].bytes \o s

LEMMA Appended ==
  ASSUME NEW mem \in Memories, NEW new \in Memories, NEW l \in Seq(Nodes(mem)), l # <<>>, NEW s \in Seq(Chars),
         Extends(mem, new, Used(l)), AppendsTo(mem, new, l[Len(l)], s)
  PROVE  /\ Grown(l, s) \in Seq(Nodes(new)) /\ Used(Grown(l, s)) = Used(l)
         /\ ContentIn(new, Grown(l, s)) = ContentIn(mem, l) \o s
<1> DEFINE N == Len(l)  f == SubSeq(l, 1, N - 1)  n == l[N]  m == [n EXCEPT !.key = @ + Len(s)]
           x == [l EXCEPT ![N].key = @ + Len(s)]
           B == mem[n.block].bytes  D == new[n.block].bytes  o == n.offset  k == n.key
<1>1. N \in Nat \ {0} /\ N \in 0 .. N /\ Len(s) \in Nat /\ DOMAIN l = 1 .. N
  BY EmptySeq, LenProperties
<1>2. n \in Nodes(mem) /\ f \in Seq(Nodes(mem)) /\ l = f \o <<n>>
  <2>1. l = SubSeq(l, 1, N)
    BY SubSeqFull
  <2> QED  BY ZenonT(30), <1>1, <2>1, PartOfNodes
<1>3. /\ n \in [block : Blocks, offset : Nat, key : Nat] /\ n.block \in Blocks
      /\ o \in Nat /\ k \in Nat /\ k = Len(B) - o /\ B \in Seq(Chars) /\ D = B \o s
  BY <1>2 DEF Nodes, Memories, AppendsTo
<1>4. m \in [block : Blocks, offset : Nat, key : Nat] /\ m.block = n.block /\ m.offset = o /\ m.key = k + Len(s)
  <2>1. k + Len(s) \in Nat
    <3>1. k \in Nat /\ Len(s) \in Nat
      BY <1>1, <1>3
    <3> HIDE DEF k
    <3> QED  BY <3>1
  <2> QED  BY <1>3, <2>1
<1>5. Len(D) = Len(B) + Len(s) /\ Len(B) \in Nat /\ \A i \in 1 .. Len(B) + Len(s) : D[i] = IF i <= Len(B) THEN B[i] ELSE s[i - Len(B)]
  <2>1. B \in Seq(Chars) /\ D = B \o s
    BY <1>3
  <2> HIDE DEF B, D
  <2>2. /\ Len(B \o s) = Len(B) + Len(s) /\ Len(B) \in Nat
        /\ \A i \in 1 .. Len(B) + Len(s) : (B \o s)[i] = IF i <= Len(B) THEN B[i] ELSE s[i - Len(B)]
    BY <2>1, ConcatProperties, LenProperties
  <2> QED  BY <2>1, <2>2
<1>6. m \in Nodes(new)
  <2>1. o + (k + Len(s)) <= Len(D)
    <3>1. o \in Nat /\ k \in Nat /\ Len(s) \in Nat /\ Len(B) \in Nat /\ k = Len(B) - o /\ Len(D) = Len(B) + Len(s)
      BY <1>1, <1>3, <1>5
    <3> HIDE DEF o, k, B, D
    <3> QED  BY <3>1
  <2> HIDE DEF m
  <2> QED  BY <1>4, <2>1 DEF Nodes
<1>7. x = f \o <<m>>
  <2> HIDE DEF m
  <2>1. \A i \in 1 .. N - 1 : l[i] = f[i]
    BY <1>1, SubSeqProperties
  <2>2. x = [i \in 1 .. N |-> IF i = N THEN m ELSE l[i]]
    BY <1>1 DEF m
  <2>3. f \o <<m>> = [i \in 1 .. N |-> IF i = N THEN m ELSE l[i]]
    <3>1. f \in Seq(Nodes(mem)) /\ Len(f) = N - 1 /\ N - 1 \in Nat
      <4>1. N - 1 \in Nat /\ \A i \in 1 .. N - 1 : l[i] \in Nodes(mem)
        BY <1>1
      <4>2. Len(f) = IF 1 <= N - 1 THEN N - 1 - 1 + 1 ELSE 0
        BY <4>1, SubSeqProperties
      <4>3. f \in Seq(Nodes(mem))
        BY <1>2
      <4> HIDE DEF f, N
      <4>4. Len(f) = N - 1
        BY <1>1, <4>2
      <4> QED  BY <4>1, <4>3, <4>4
    <3> HIDE DEF f, N
    <3> QED  BY <1>1, <2>1, <3>1
  <2> QED  BY <2>2, <2>3
<1> HIDE DEF m, n, f, x, B, D, o, k, N
<1>8. BytesIn(mem, n) \in Seq(Chars) /\ Len(BytesIn(mem, n)) = k /\ \A i \in 1 .. k : BytesIn(mem, n)[i] = B[o + i]
  BY <1>2, BytesFacts DEF B, o, k
<1>9. BytesIn(new, m) \in Seq(Chars) /\ Len(BytesIn(new, m)) = k + Len(s) /\ \A i \in 1 .. k + Len(s) : BytesIn(new, m)[i] = D[o + i]
  BY <1>4, <1>6, BytesFacts DEF D
<1>10. BytesIn(new, m) = BytesIn(mem, n) \o s
  <2> DEFINE b == BytesIn(mem, n)  c == BytesIn(new, m)
  <2> HIDE DEF b, c
  <2>1. /\ b \o s \in Seq(Chars) /\ Len(b \o s) = k + Len(s)
        /\ \A i \in 1 .. k + Len(s) : (b \o s)[i] = IF i <= k THEN b[i] ELSE s[i - k]
    <3>1. b \in Seq(Chars) /\ Len(b) = k
      BY <1>8 DEF b
    <3> QED  BY <3>1, ConcatProperties
  <2>2. \A i \in 1 .. k + Len(s) : c[i] = (b \o s)[i]
    <3> TAKE i \in 1 .. k + Len(s)
    <3>1. c[i] = D[o + i] /\ o + i \in 1 .. Len(B) + Len(s)
      BY <1>1, <1>3, <1>5, <1>9 DEF c
    <3>2. CASE i <= k
      <4>1. o + i <= Len(B) /\ i \in 1 .. k
        BY <1>1, <1>3, <1>5, <3>2
      <4>2. D[o + i] = B[o + i]
        BY <1>5, <3>1, <4>1
      <4>3. b[i] = B[o + i]
        BY <1>8, <4>1 DEF b
      <4> QED  BY <2>1, <3>1, <3>2, <4>2, <4>3
    <3>3. CASE ~(i <= k)
      <4>1. ~(o + i <= Len(B)) /\ (o + i) - Len(B) = i - k
        BY <1>1, <1>3, <1>5, <3>3
      <4>2. D[o + i] = s[i - k]
        <5>1. D[o + i] = IF o + i <= Len(B) THEN B[o + i] ELSE s[(o + i) - Len(B)]
          BY <1>5, <3>1
        <5> QED  BY <4>1, <5>1
      <4> QED  BY <2>1, <3>1, <3>3, <4>2
    <3> QED  BY <3>2, <3>3
  <2>3. c \in Seq(Chars) /\ Len(c) = k + Len(s)
    BY <1>9 DEF c
  <2>4. c = b \o s
    BY <2>1, <2>2, <2>3, SeqEqual
  <2> QED  BY <2>4 DEF b, c
<1>11. <<n>> \in Seq(Nodes(mem)) /\ <<m>> \in Seq(Nodes(new))
  <2>1. n \in Nodes(mem) /\ m \in Nodes(new)
    BY <1>2, <1>6
  <2> QED  BY <2>1
<1>12. Used(l) = Used(f) \cup {n.block}
  <2>1. f \in Seq(Nodes(mem)) /\ <<n>> \in Seq(Nodes(mem))
    BY <1>2, <1>11
  <2>2. Used(f \o <<n>>) = Used(f) \cup Used(<<n>>)
    BY <2>1, UsedOfConcat
  <2> QED  BY <1>2, <2>2, UsedOne
<1>13. f \in Seq(Nodes(new)) /\ ContentIn(new, f) = ContentIn(mem, f)
  <2>1. Extends(mem, new, Used(f))
    BY <1>12 DEF Extends
  <2> QED  BY <1>2, <2>1, StillThere
<1>14. x \in Seq(Nodes(new)) /\ Used(x) = Used(l)
  <2>1. Used(f \o <<m>>) = Used(f) \cup {m.block}
    <3>1. f \in Seq(Nodes(new)) /\ <<m>> \in Seq(Nodes(new))
      BY <1>11, <1>13
    <3> DEFINE S == Nodes(new)  g == <<m>>
    <3> HIDE DEF S, g
    <3>2. f \in Seq(S) /\ g \in Seq(S)
      BY <3>1 DEF S, g
    <3>3. Used(f \o g) = Used(f) \cup Used(g)
      BY SMTT(30), <3>2, UsedOfConcat
    <3> QED  BY <3>3, UsedOne DEF g
  <2> QED  BY <1>4, <1>7, <1>11, <1>12, <1>13, <2>1, ConcatProperties
<1>15. ContentIn(new, x) = ContentIn(mem, l) \o s
  <2> DEFINE c == ContentIn(mem, f)  b == BytesIn(mem, n)
  <2>1. c \in Seq(Chars) /\ b \in Seq(Chars)
    BY <1>2, <1>8, ContentType
  <2>2. ContentIn(new, f \o <<m>>) = c \o ContentIn(new, <<m>>)
    BY <1>11, <1>13, ContentConcat
  <2>3. ContentIn(new, <<m>>) = b \o s
    BY <1>6, <1>10, ContentOne
  <2>4. ContentIn(mem, f \o <<n>>) = c \o ContentIn(mem, <<n>>)
    BY <1>2, <1>11, ContentConcat
  <2>5. ContentIn(mem, <<n>>) = b
    BY <1>2, ContentOne
  <2> HIDE DEF c, b
  <2>6. (c \o b) \o s = c \o (b \o s)
    <3>1. c \in Seq(Chars) /\ b \in Seq(Chars) /\ s \in Seq(Chars)
      BY <2>1
    <3> QED  BY <3>1, InParts
  <2> QED  BY <1>2, <1>7, <2>2, <2>3, <2>4, <2>5, <2>6
<1> QED  BY <1>14, <1>15 DEF x, N, Grown

\* Blocks that nobody refers to are freed, and no other.
LEMMA FreedFacts ==
  ASSUME NEW w \in Memories, NEW U
  PROVE  Freed(w, U) \in Memories /\ \A b \in U \cap Blocks : Freed(w, U)[b] = w[b]
<1>1. Free \in [bytes : Seq(Chars), room : Int]
  <2>1. <<>> \in Seq(Chars) /\ 0 \in Int
    OBVIOUS
  <2> QED  BY <2>1 DEF Free
<1>2. \A b \in Blocks : w[b] \in [bytes : Seq(Chars), room : Int]
  BY DEF Memories
<1> QED  BY <1>1, <1>2 DEF Freed, Memories

LEMMA UsedBlocks ==
  ASSUME NEW mem, NEW ns \in Seq(Nodes(mem))
  PROVE  Used(ns) \subseteq Blocks
<1>1. DOMAIN ns = 1 .. Len(ns) /\ \A i \in 1 .. Len(ns) : ns[i] \in Nodes(mem)
  OBVIOUS
<1>2. \A n \in Nodes(mem) : n.block \in Blocks
  BY DEF Nodes
<1> QED  BY <1>1, <1>2 DEF Used

\* A memory in which the text s has been put behind the nodes l, as x, while
\* everybody else reads what they did.
Puts(mem, new, l, r, x, s) ==
  /\ new \in Memories
  /\ x \in Seq(Nodes(new)) /\ r \in Seq(Nodes(new)) /\ snapshot \in Seq(Nodes(new))
  /\ ContentIn(new, x) = ContentIn(mem, l) \o s
  /\ ContentIn(new, r) = ContentIn(mem, r) /\ ContentIn(new, snapshot) = ContentIn(mem, snapshot)

EndsItsBlock(mem, n) == n.key = Len(mem[n.block].bytes) - n.offset

LEMMA PutsBehind ==
  ASSUME NEW mem \in Memories, NEW w \in Memories,
         NEW l \in Seq(Nodes(mem)), l # <<>>, NEW r \in Seq(Nodes(mem)), snapshot \in Seq(Nodes(mem)), NEW s \in Seq(Chars),
         EndsItsBlock(mem, l[Len(l)]), w = Written(mem, l[Len(l)], s)
  PROVE  Puts(mem, Freed(w, Used(Grown(l, s) \o r) \cup Used(snapshot)), l, r, Grown(l, s), s)
<1> DEFINE n == l[Len(l)]  x == Grown(l, s)
           U == Used(x \o r) \cup Used(snapshot)  new == Freed(w, U)  B == mem[n.block].bytes
<1>1. Len(l) \in Nat \ {0} /\ Len(l) \in DOMAIN l /\ n \in Nodes(mem) /\ Len(s) \in Nat
  BY EmptySeq, LenProperties
<1>2. n.block \in Blocks /\ n.block \in Used(l) /\ B \in Seq(Chars)
  BY <1>1 DEF Used, Nodes, Memories
<1>3. Used(l) \subseteq Blocks /\ Used(r) \subseteq Blocks /\ Used(snapshot) \subseteq Blocks
  BY UsedBlocks
<1>4. n.key = Len(B) - n.offset /\ w = [mem EXCEPT ![n.block] = [bytes |-> B \o s, room |-> @.room - Len(s)]]
  BY DEF EndsItsBlock, Written
<1>5. w[n.block].bytes = B \o s /\ \A b \in Blocks \ {n.block} : w[b] = mem[b]
  <2>1. mem = [b \in Blocks |-> mem[b]]
    BY DEF Memories
  <2> HIDE DEF n, B
  <2> QED  BY <1>2, <1>4, <2>1
<1>6. Extends(mem, w, Blocks)
  <2>1. /\ Len(B) <= Len(B \o s) /\ \A i \in 1 .. Len(B) : (B \o s)[i] = B[i]
    <3> HIDE DEF B
    <3> QED  BY <1>2, ConcatProperties, LenProperties
  <2>2. \A b \in Blocks : Len(mem[b].bytes) \in Nat
    BY LenProperties DEF Memories
  <2> HIDE DEF B, n
  <2>3. ASSUME NEW b \in Blocks
        PROVE  /\ Len(mem[b].bytes) <= Len(w[b].bytes)
               /\ \A i \in 1 .. Len(mem[b].bytes) : w[b].bytes[i] = mem[b].bytes[i]
    <3>1. CASE b = n.block
      BY <1>5, <2>1, <3>1 DEF B
    <3>2. CASE b # n.block
      BY <1>5, <2>2, <3>2
    <3> QED  BY <3>1, <3>2
  <2> QED  BY <2>3 DEF Extends
<1> HIDE DEF B, n, new, x, U
<1>7. x \in Seq(Nodes(w)) /\ Used(x) = Used(l) /\ ContentIn(w, x) = ContentIn(mem, l) \o s
  <2>1. Extends(mem, w, Used(l)) /\ AppendsTo(mem, w, l[Len(l)], s)
    BY <1>3, <1>4, <1>5, <1>6 DEF Extends, AppendsTo, n, B
  <2> QED  BY <2>1, Appended DEF x
<1>8. /\ r \in Seq(Nodes(w)) /\ ContentIn(w, r) = ContentIn(mem, r)
      /\ snapshot \in Seq(Nodes(w)) /\ ContentIn(w, snapshot) = ContentIn(mem, snapshot)
  <2>1. Extends(mem, w, Used(r)) /\ Extends(mem, w, Used(snapshot))
    BY <1>3, <1>6 DEF Extends
  <2> QED  BY <2>1, StillThere
<1>9. U = Used(x) \cup Used(r) \cup Used(snapshot)
  <2>1. x \in Seq(Nodes(w)) /\ r \in Seq(Nodes(w))
    BY <1>7, <1>8
  <2>2. Used(x \o r) = Used(x) \cup Used(r)
    BY <2>1, UsedOfConcat
  <2> QED  BY <2>2 DEF U
<1>10. new \in Memories /\ \A b \in U \cap Blocks : new[b] = w[b]
  BY FreedFacts DEF new
<1>11. Extends(w, new, Used(x)) /\ Extends(w, new, Used(r)) /\ Extends(w, new, Used(snapshot))
  <2>1. \A b \in Blocks : Len(w[b].bytes) \in Nat
    BY LenProperties DEF Memories
  <2>2. \A b \in Used(x) \cup Used(r) \cup Used(snapshot) : new[b] = w[b] /\ Len(w[b].bytes) <= Len(w[b].bytes)
    <3> TAKE b \in Used(x) \cup Used(r) \cup Used(snapshot)
    <3>1. b \in U /\ b \in Blocks
      BY <1>3, <1>7, <1>9
    <3>2. new[b] = w[b] /\ Len(w[b].bytes) \in Nat
      BY <1>10, <2>1, <3>1
    <3> QED  BY <3>2
  <2> QED  BY <2>2 DEF Extends
<1>12. /\ x \in Seq(Nodes(new)) /\ ContentIn(new, x) = ContentIn(w, x)
       /\ r \in Seq(Nodes(new)) /\ ContentIn(new, r) = ContentIn(w, r)
       /\ snapshot \in Seq(Nodes(new)) /\ ContentIn(new, snapshot) = ContentIn(w, snapshot)
  BY <1>7, <1>8, <1>10, <1>11, StillThere
<1>13. Puts(mem, new, l, r, x, s)
  BY <1>7, <1>8, <1>10, <1>12 DEF Puts
<1> QED  BY <1>13 DEF new, x, U

LEMMA PutsAnew ==
  ASSUME NEW mem \in Memories, NEW block \in Blocks,
         NEW l \in Seq(Nodes(mem)), NEW r \in Seq(Nodes(mem)), snapshot \in Seq(Nodes(mem)), NEW s \in Seq(Chars),
         block \notin Used(l) \cup Used(r) \cup Used(snapshot), Room \in Int
  PROVE  LET x == Append(l, [block |-> block, offset |-> 0, key |-> Len(s)])
             w == [mem EXCEPT ![block] = [bytes |-> s, room |-> Room]]
         IN Puts(mem, Freed(w, Used(x \o r) \cup Used(snapshot)), l, r, x, s)
<1> DEFINE n == [block |-> block, offset |-> 0, key |-> Len(s)]
           x == Append(l, n)  w == [mem EXCEPT ![block] = [bytes |-> s, room |-> Room]]
           U == Used(x \o r) \cup Used(snapshot)  new == Freed(w, U)
<1>1. w \in Memories /\ w[block].bytes = s /\ \A b \in Blocks \ {block} : w[b] = mem[b]
  BY DEF Memories
<1>2. n \in [block : Blocks, offset : Nat, key : Nat] /\ n.block = block /\ n.offset = 0 /\ n.key = Len(s) /\ Len(s) \in Nat
  BY LenProperties
<1> HIDE DEF w, n
<1>3. n \in Nodes(w) /\ BytesIn(w, n) = s
  <2>1. n.offset + n.key <= Len(w[n.block].bytes)
    BY <1>1, <1>2
  <2>2. SubSeq(s, 1, Len(s)) = s
    BY SubSeqFull
  <2>3. n.offset + 1 = 1 /\ n.offset + n.key = Len(s)
    BY <1>2
  <2>4. BytesIn(w, n) = s
    BY <1>1, <1>2, <2>2, <2>3 DEF BytesIn
  <2> QED  BY <1>2, <2>1, <2>4 DEF Nodes
<1>4. Used(l) \subseteq Blocks /\ Used(r) \subseteq Blocks /\ Used(snapshot) \subseteq Blocks
  BY UsedBlocks
<1>5. Extends(mem, w, Blocks \ {block})
  <2>1. \A b \in Blocks : Len(mem[b].bytes) \in Nat
    BY LenProperties DEF Memories
  <2>2. \A b \in Blocks \ {block} : w[b] = mem[b] /\ Len(mem[b].bytes) <= Len(mem[b].bytes)
    BY <1>1, <2>1
  <2> QED  BY <2>2 DEF Extends
<1>6. /\ l \in Seq(Nodes(w)) /\ ContentIn(w, l) = ContentIn(mem, l)
      /\ r \in Seq(Nodes(w)) /\ ContentIn(w, r) = ContentIn(mem, r)
      /\ snapshot \in Seq(Nodes(w)) /\ ContentIn(w, snapshot) = ContentIn(mem, snapshot)
  <2>1. Extends(mem, w, Used(l)) /\ Extends(mem, w, Used(r)) /\ Extends(mem, w, Used(snapshot))
    BY <1>4, <1>5 DEF Extends
  <2> QED  BY <1>1, <2>1, StillThere
<1>7. <<n>> \in Seq(Nodes(w))
  BY <1>3
<1>8. x = l \o <<n>>
  <2>1. l \in Seq(Nodes(w)) /\ n \in Nodes(w)
    BY <1>3, <1>6
  <2> QED  BY <2>1, AppendIsConcat
<1> HIDE DEF x, new, U
<1>9. x \in Seq(Nodes(w)) /\ ContentIn(w, x) = ContentIn(mem, l) \o s /\ Used(x) = Used(l) \cup {block}
  <2> DEFINE one == <<n>>
  <2>4. Used(one) = {block}
    BY <1>2, UsedOne
  <2>6. ContentIn(w, one) = s
    BY <1>1, <1>3, ContentOne
  <2>7. x = l \o one /\ one \in Seq(Nodes(w))
    BY <1>7, <1>8
  <2> HIDE DEF one
  <2>1. l \in Seq(Nodes(w)) /\ one \in Seq(Nodes(w))
    BY <1>6, <2>7
  <2>2. l \o one \in Seq(Nodes(w))
    BY <2>1, ConcatProperties
  <2>3. Used(l \o one) = Used(l) \cup Used(one)
    BY <2>1, UsedOfConcat
  <2>5. ContentIn(w, l \o one) = ContentIn(w, l) \o ContentIn(w, one)
    BY <1>1, <2>1, ContentConcat
  <2> QED  BY <1>6, <2>2, <2>3, <2>4, <2>5, <2>6, <2>7
<1>10. U = Used(x) \cup Used(r) \cup Used(snapshot)
  <2>1. x \in Seq(Nodes(w)) /\ r \in Seq(Nodes(w))
    BY <1>6, <1>9
  <2>2. Used(x \o r) = Used(x) \cup Used(r)
    BY <2>1, UsedOfConcat
  <2> QED  BY <2>2 DEF U
<1>11. new \in Memories /\ \A b \in U \cap Blocks : new[b] = w[b]
  BY <1>1, FreedFacts DEF new
<1>12. Extends(w, new, Used(x)) /\ Extends(w, new, Used(r)) /\ Extends(w, new, Used(snapshot))
  <2>1. \A b \in Blocks : Len(w[b].bytes) \in Nat
    BY <1>1, LenProperties DEF Memories
  <2>2. \A b \in Used(x) \cup Used(r) \cup Used(snapshot) : new[b] = w[b] /\ Len(w[b].bytes) <= Len(w[b].bytes)
    <3> TAKE b \in Used(x) \cup Used(r) \cup Used(snapshot)
    <3>1. b \in U /\ b \in Blocks
      BY <1>4, <1>9, <1>10
    <3>2. new[b] = w[b] /\ Len(w[b].bytes) \in Nat
      BY <1>11, <2>1, <3>1
    <3> QED  BY <3>2
  <2> QED  BY <2>2 DEF Extends
<1>13. /\ x \in Seq(Nodes(new)) /\ ContentIn(new, x) = ContentIn(w, x)
       /\ r \in Seq(Nodes(new)) /\ ContentIn(new, r) = ContentIn(w, r)
       /\ snapshot \in Seq(Nodes(new)) /\ ContentIn(new, snapshot) = ContentIn(w, snapshot)
  BY <1>1, <1>6, <1>9, <1>11, <1>12, StillThere
<1>14. Puts(mem, new, l, r, x, s)
  BY <1>6, <1>9, <1>11, <1>13 DEF Puts
<1> QED  BY <1>14 DEF new, x, U, n, w

\* An insertion leaves the copy alone, and puts the text where it should be.
Inserted(mem, new, ns, ms, pos, s) ==
  /\ new \in Memories /\ ms \in Seq(Nodes(new)) /\ snapshot \in Seq(Nodes(new))
  /\ ContentIn(new, ms) = (SubSeq(ContentIn(mem, ns), 1, pos) \o s)
                            \o SubSeq(ContentIn(mem, ns), pos + 1, Len(ContentIn(mem, ns)))
  /\ ContentIn(new, snapshot) = ContentIn(mem, snapshot)

LEMMA PutsInserts ==
  ASSUME NEW mem \in Memories, NEW new, NEW ns, NEW pos, NEW l, NEW r, NEW x, NEW s,
         IsSplit(mem, ns, pos, l, r), Puts(mem, new, l, r, x, s)
  PROVE  Inserted(mem, new, ns, x \o r, pos, s)
<1>1. x \in Seq(Nodes(new)) /\ r \in Seq(Nodes(new)) /\ new \in Memories
  BY DEF Puts
<1>2. x \o r \in Seq(Nodes(new))
  BY <1>1, ConcatProperties
<1>3. ContentIn(new, x \o r) = ContentIn(new, x) \o ContentIn(new, r)
  BY <1>1, ContentConcat
<1> QED  BY <1>1, <1>2, <1>3 DEF Puts, IsSplit, Inserted

LEMMA InsertInserts ==
  ASSUME memory \in Memories, NEW ns \in Seq(Nodes(memory)), snapshot \in Seq(Nodes(memory)), NEW s \in Seq(Chars),
         NEW pos \in 0 .. Len(ContentIn(memory, ns)), IsFiniteSet(Blocks), Room \in Int, Insert(ns, pos, s)
  PROVE  Inserted(memory, memory', ns, nodes', pos, s)
<1> DEFINE l == Split(ns, pos).left  r == Split(ns, pos).right  last == l[Len(l)]  U == Used(ns) \cup Used(snapshot)
           block == CHOOSE b \in Blocks : b \notin U
           n == [block |-> block, offset |-> 0, key |-> Len(s)]
           append == l # <<>> /\ MayAppend(last, Len(s))
           w == [memory EXCEPT ![block] = [bytes |-> s, room |-> Room]]
<1>1. IsSplit(memory, ns, pos, l, r)
  BY SplitSplits
<1>2. Cardinality(U) < Cardinality(Blocks)
  BY DEF Insert
<1>3. s = <<>> => nodes' = ns /\ memory' = Freed(memory, Used(ns) \cup Used(snapshot))
  BY DEF Insert, Becomes
<1>4. s # <<>> /\ append => /\ nodes' = Grown(l, s) \o r
                            /\ memory' = Freed(Written(memory, last, s), Used(Grown(l, s) \o r) \cup Used(snapshot))
  BY DEF Insert, Becomes
<1>5. s # <<>> /\ ~append => nodes' = Append(l, n) \o r /\ memory' = Freed(w, Used(Append(l, n) \o r) \cup Used(snapshot))
  BY DEF Insert, Becomes
<1> HIDE DEF l, r
<1>6. l \in Seq(Nodes(memory)) /\ r \in Seq(Nodes(memory)) /\ Used(l) \cup Used(r) \subseteq Used(ns)
  BY <1>1 DEF IsSplit
<1>7. CASE s = <<>>
  <2> DEFINE C == ContentIn(memory, ns)
  <2>1. memory' \in Memories /\ \A b \in U \cap Blocks : memory'[b] = memory[b]
    BY <1>3, <1>7, FreedFacts
  <2>2. Used(ns) \subseteq Blocks /\ Used(snapshot) \subseteq Blocks
    BY UsedBlocks
  <2>3. \A b \in Blocks : Len(memory[b].bytes) \in Nat
    BY LenProperties DEF Memories
  <2>4. \A b \in U : memory'[b] = memory[b] /\ Len(memory[b].bytes) <= Len(memory[b].bytes)
    BY <2>1, <2>2, <2>3
  <2>5. Extends(memory, memory', Used(ns)) /\ Extends(memory, memory', Used(snapshot))
    BY <2>4 DEF Extends
  <2>6. /\ ns \in Seq(Nodes(memory')) /\ ContentIn(memory', ns) = C
        /\ snapshot \in Seq(Nodes(memory')) /\ ContentIn(memory', snapshot) = ContentIn(memory, snapshot)
    BY <2>1, <2>5, StillThere
  <2>7. C \in Seq(Chars) /\ pos \in 0 .. Len(C)
    BY ContentType
  <2> HIDE DEF C
  <2>8. SubSeq(C, 1, pos) \in Seq(Chars) /\ SubSeq(C, 1, pos) \o SubSeq(C, pos + 1, Len(C)) = C
    BY <2>7, PartOfNodes
  <2>9. SubSeq(C, 1, pos) \o s = SubSeq(C, 1, pos)
    BY <1>7, <2>8, ConcatEmptySeq
  <2> QED  BY <1>3, <1>7, <2>1, <2>6, <2>8, <2>9 DEF Inserted, C
<1>8. CASE s # <<>> /\ append
  <2>1. last \in Nodes(memory)
    <3>1. Len(l) \in 1 .. Len(l)
      BY <1>6, <1>8, EmptySeq, LenProperties
    <3> QED  BY <1>6, <3>1
  <2>2. EndsItsBlock(memory, last)
    BY <1>8 DEF MayAppend, EndsItsBlock
  <2>3. Written(memory, last, s) \in Memories
    <3> HIDE DEF last
    <3> DEFINE B == memory[last.block].bytes
    <3>1. last.block \in Blocks /\ \A b \in Blocks : memory[b] \in [bytes : Seq(Chars), room : Int]
      BY <2>1 DEF Memories, Nodes
    <3>2. B \in Seq(Chars) /\ memory[last.block].room - Len(s) \in Int
      BY <3>1, LenProperties
    <3>3. B \o s \in Seq(Chars)
      BY <3>2, ConcatProperties
    <3> QED  BY <3>1, <3>2, <3>3 DEF Written, Memories
  <2>4. Puts(memory, memory', l, r, Grown(l, s), s)
    BY <1>4, <1>6, <1>8, <2>2, <2>3, PutsBehind
  <2> QED  BY <1>1, <1>4, <1>8, <2>4, PutsInserts
<1>9. CASE s # <<>> /\ ~append
  <2>1. block \in Blocks /\ block \notin U
    <3>1. U \subseteq Blocks
      BY UsedBlocks
    <3>2. Cardinality(Blocks) \in Nat
      BY FS_CardinalityType
    <3>3. U # Blocks
      <4> HIDE DEF U
      <4> QED  BY <1>2, <3>2
    <3> QED  BY <3>1, <3>3
  <2> HIDE DEF block
  <2>2. block \notin Used(l) \cup Used(r) \cup Used(snapshot)
    BY <1>6, <2>1
  <2>3. Puts(memory, memory', l, r, Append(l, n), s)
    BY SMTT(30), <1>5, <1>6, <1>9, <2>1, <2>2, PutsAnew
  <2> QED  BY <1>1, <1>5, <1>9, <2>3, PutsInserts
<1> QED  BY <1>7, <1>8, <1>9

-----------------------------------------------------------------------------
(* The newlines follow an edit.                                            *)

Newlines(t) == {i \in 0 .. Len(t) - 1 : t[i + 1] = NL}
LinesAfter(m, from, to, s) ==
  {from + k - 1 : k \in {j \in DOMAIN s : s[j] = NL}} \cup DOMAIN Replace(m, from, to, Len(s), TRUE)

LEMMA LinesFollow ==
  ASSUME NEW t \in Seq(Chars), NEW s \in Seq(Chars), NEW from \in Nat, NEW to \in Nat, from <= to, to <= Len(t),
         NEW m, DOMAIN m = Newlines(t)
  PROVE  LinesAfter(m, from, to, s) = Newlines(Splice(t, from, to, s))
<1> DEFINE x == Splice(t, from, to, s)  n == Len(s)  d == n - (to - from)
           kept == {k \in DOMAIN m : ~(from <= k /\ k < to)}
           after(k) == IF k > to \/ k = to THEN k + n - (to - from) ELSE k
<1>1. /\ x \in Seq(Chars) /\ Len(x) = Len(t) - (to - from) + n
      /\ \A i \in 1 .. Len(x) : x[i] = IF i <= from THEN t[i] ELSE IF i <= from + n THEN s[i - from] ELSE t[i - n + (to - from)]
  BY SpliceFacts
<1>2. n \in Nat /\ Len(t) \in Nat /\ DOMAIN s = 1 .. n
  BY LenProperties
<1>3. DOMAIN Replace(m, from, to, n, TRUE) = {after(k) : k \in kept}
  BY DEF Replace, IsReplaced, KeyAfter
<1>4. kept = {k \in 0 .. Len(t) - 1 : t[k + 1] = NL /\ ~(from <= k /\ k < to)}
  BY DEF Newlines
<1> HIDE DEF x, n, kept
<1>5. ASSUME NEW k \in 1 .. n, s[k] = NL PROVE from + k - 1 \in Newlines(x)
  <2> DEFINE i == from + k
  <2>1. i \in 1 .. Len(x) /\ ~(i <= from) /\ i <= from + n /\ i - from = k /\ (from + k - 1) + 1 = i /\ from + k - 1 \in 0 .. Len(x) - 1
    <3>1. n \in Nat /\ Len(t) \in Nat /\ Len(x) = Len(t) - (to - from) + n
      BY <1>1, <1>2
    <3>2. k \in 1 .. n
      OBVIOUS
    <3> QED  BY <3>1, <3>2
  <2>2. x[i] = IF i <= from THEN t[i] ELSE IF i <= from + n THEN s[i - from] ELSE t[i - n + (to - from)]
    BY <1>1, <2>1
  <2> HIDE DEF i
  <2>3. x[i] = s[k]
    BY <2>1, <2>2
  <2> QED  BY <1>5, <2>1, <2>3 DEF Newlines
<1>6. ASSUME NEW k \in kept PROVE after(k) \in Newlines(x)
  <2>1. k \in 0 .. Len(t) - 1 /\ t[k + 1] = NL /\ ~(from <= k /\ k < to)
    BY <1>4
  <2>2. CASE k < from
    <3>1. after(k) = k /\ k + 1 \in 1 .. Len(x) /\ k + 1 <= from /\ k \in 0 .. Len(x) - 1
      BY <1>1, <1>2, <2>1, <2>2
    <3>2. x[k + 1] = t[k + 1]
      BY <1>1, <3>1
    <3> QED  BY <2>1, <3>1, <3>2 DEF Newlines
  <2>3. CASE ~(k < from)
    <3> DEFINE i == (k + n - (to - from)) + 1
    <3>1. /\ k >= to /\ after(k) = k + n - (to - from) /\ i \in 1 .. Len(x) /\ ~(i <= from) /\ ~(i <= from + n)
          /\ i - n + (to - from) = k + 1 /\ k + n - (to - from) \in 0 .. Len(x) - 1
      BY <1>1, <1>2, <2>1, <2>3
    <3>2. x[i] = IF i <= from THEN t[i] ELSE IF i <= from + n THEN s[i - from] ELSE t[i - n + (to - from)]
      BY <1>1, <3>1
    <3>3. x[i] = t[k + 1]
      <4> HIDE DEF i
      <4> QED  BY <3>1, <3>2
    <3> QED  BY <2>1, <3>1, <3>3 DEF Newlines
  <2> QED  BY <2>2, <2>3
<1>7. ASSUME NEW i \in Newlines(x)
      PROVE  (\E k \in 1 .. n : s[k] = NL /\ i = from + k - 1) \/ (\E k \in kept : i = after(k))
  <2>1. i \in 0 .. Len(x) - 1 /\ x[i + 1] = NL /\ i + 1 \in 1 .. Len(x)
    BY <1>1, <1>2 DEF Newlines
  <2> DEFINE j == i + 1
  <2>2. x[j] = IF j <= from THEN t[j] ELSE IF j <= from + n THEN s[j - from] ELSE t[j - n + (to - from)]
    BY <1>1, <2>1
  <2>3. CASE j <= from
    <3>1. i \in 0 .. Len(t) - 1 /\ ~(from <= i /\ i < to) /\ i = after(i)
      BY <1>2, <2>1, <2>3
    <3>2. t[i + 1] = NL
      BY <2>1, <2>2, <2>3
    <3> QED  BY <1>4, <3>1, <3>2
  <2>4. CASE ~(j <= from) /\ j <= from + n
    <3>1. j - from \in 1 .. n /\ i = from + (j - from) - 1
      BY <1>2, <2>1, <2>4
    <3>2. s[j - from] = NL
      BY <2>1, <2>2, <2>4
    <3> QED  BY <3>1, <3>2
  <2>5. CASE ~(j <= from + n)
    <3> DEFINE k == i - n + (to - from)
    <3>1. k \in 0 .. Len(t) - 1 /\ ~(from <= k /\ k < to) /\ i = after(k) /\ k + 1 = j - n + (to - from) /\ ~(j <= from)
      BY <1>1, <1>2, <2>1, <2>5
    <3>2. t[k + 1] = NL
      BY <2>1, <2>2, <2>5, <3>1
    <3> HIDE DEF k
    <3> QED  BY <1>4, <3>1, <3>2
  <2> QED  BY <2>3, <2>4, <2>5
<1>8. LinesAfter(m, from, to, s) = {from + k - 1 : k \in {j \in 1 .. n : s[j] = NL}} \cup {after(k) : k \in kept}
  BY <1>2, <1>3 DEF LinesAfter, n
<1> HIDE DEF after
<1> QED  BY <1>5, <1>6, <1>7, <1>8 DEF x

-----------------------------------------------------------------------------
(* The inductive invariant, and what it shows.                             *)

\* Nodes lie in blocks; what they hold is the text, and the text of the copy.
IndInv ==
  /\ memory \in Memories /\ nodes \in Seq(Nodes(memory)) /\ snapshot \in Seq(Nodes(memory))
  /\ text \in Seq(Chars)
  /\ ContentIn(memory, nodes) = text /\ ContentIn(memory, snapshot) = copied
  /\ DOMAIN hardlines = Newlines(text)

LEMMA InitInd == Init => IndInv
<1> SUFFICES ASSUME Init PROVE IndInv
  OBVIOUS
<1>1. memory \in Memories
  <2>1. Free \in [bytes : Seq(Chars), room : Int]
    <3>1. <<>> \in Seq(Chars) /\ 0 \in Int
      OBVIOUS
    <3> QED  BY <3>1 DEF Free
  <2> QED  BY <2>1 DEF Init, Memories
<1>2. nodes = <<>> /\ snapshot = <<>> /\ text = <<>> /\ copied = <<>> /\ DOMAIN hardlines = {}
  BY DEF Init, NoKeys
<1>3. nodes \in Seq(Nodes(memory)) /\ snapshot \in Seq(Nodes(memory)) /\ text \in Seq(Chars)
  BY <1>2
<1>4. ContentIn(memory, <<>>) = <<>>
  BY ContentNone
<1>5. Newlines(<<>>) = {}
  BY DEF Newlines
<1> QED  BY <1>1, <1>2, <1>3, <1>4, <1>5 DEF IndInv

\* erase and insert do to the content of the nodes what Splice does.
LEMMA ReplaceSplices ==
  ASSUME memory \in Memories, nodes \in Seq(Nodes(memory)), snapshot \in Seq(Nodes(memory)),
         IsFiniteSet(Blocks), Room \in Int, NEW t \in Seq(Chars), ContentIn(memory, nodes) = t,
         NEW f \in Nat, NEW e \in Nat, f <= e, e <= Len(t), NEW u \in Seq(Chars),
         Insert(Erase(nodes, f, e), f, u)
  PROVE  /\ memory' \in Memories /\ nodes' \in Seq(Nodes(memory')) /\ snapshot \in Seq(Nodes(memory'))
         /\ ContentIn(memory', nodes') = Splice(t, f, e, u)
         /\ ContentIn(memory', snapshot) = ContentIn(memory, snapshot)
<1> DEFINE ns == Erase(nodes, f, e)  a == SubSeq(t, 1, f)  b == SubSeq(t, e + 1, Len(t))  c == ContentIn(memory, ns)
<1>1. ns \in Seq(Nodes(memory)) /\ c = a \o b
  BY EraseErases
<1>2. f \in 0 .. Len(t) /\ e \in 0 .. Len(t) /\ Len(t) \in Nat
  BY LenProperties
<1>3. a \in Seq(Chars) /\ b \in Seq(Chars) /\ Len(a) = f
  <2>1. a \in Seq(Chars) /\ b \in Seq(Chars)
    BY <1>2, PartOfNodes
  <2>2. \A i \in 1 .. f : t[i] \in Chars
    BY <1>2
  <2>3. Len(a) = f
    BY <1>2, <2>2, SubSeqProperties
  <2> QED  BY <2>1, <2>3
<1>4. Splice(t, f, e, u) = (a \o u) \o b
  BY DEF Splice
<1> HIDE DEF a, b, ns
<1>5. c \in Seq(Chars) /\ Len(c) = f + Len(b) /\ SubSeq(c, 1, f) = a /\ SubSeq(c, f + 1, Len(c)) = b
  <2>1. a \in Seq(Chars) /\ b \in Seq(Chars)
    BY <1>3
  <2>2. /\ a \o b \in Seq(Chars) /\ Len(a \o b) = Len(a) + Len(b)
        /\ SubSeq(a \o b, 1, Len(a)) = a /\ SubSeq(a \o b, Len(a) + 1, Len(a \o b)) = b
    BY <2>1, PartsOfConcat
  <2> QED  BY <1>1, <1>3, <2>2
<1>6. f \in 0 .. Len(c)
  <2>1. Len(b) \in Nat
    BY <1>3, LenProperties
  <2> HIDE DEF c
  <2> QED  BY <1>5, <2>1
<1>7. Insert(ns, f, u)
  BY DEF ns
<1>8. Inserted(memory, memory', ns, nodes', f, u)
  BY <1>1, <1>6, <1>7, InsertInserts
<1> QED  BY <1>4, <1>5, <1>8 DEF Inserted

LEMMA StepInd == ASSUME IsFiniteSet(Blocks), Room \in Int, IndInv, [Next]_vars PROVE IndInv'
<1>0. /\ memory \in Memories /\ nodes \in Seq(Nodes(memory)) /\ snapshot \in Seq(Nodes(memory))
      /\ text \in Seq(Chars)
      /\ ContentIn(memory, nodes) = text /\ ContentIn(memory, snapshot) = copied
      /\ DOMAIN hardlines = Newlines(text)
  BY DEF IndInv
<1>1. ASSUME NEW from \in 0 .. Len(text), NEW to \in 0 .. Len(text), NEW s \in SeqOf(Chars, MaxInsert), from <= to, BufferReplace(from, to, s)
      PROVE  IndInv'
  <2> DEFINE old == SubSeq(text, from + 1, to)  l == CommonPrefix(old, s)  r == CommonSuffix(old, s, l)
             f == from + l  e == to - r  u == SubSeq(s, l + 1, Len(s) - r)
  <2>1. s \in Seq(Chars) /\ from \in Nat /\ to \in Nat /\ to <= Len(text)
    <3>1. s \in Seq(Chars)
      <4>1. PICK n \in 0 .. MaxInsert : s \in [1 .. n -> Chars]
        BY DEF SeqOf
      <4> QED  BY <4>1, SeqDef
    <3>2. Len(text) \in Nat
      BY <1>0, LenProperties
    <3> QED  BY <3>1, <3>2
  <2>2. SameEnds(text, from, to, s, l, r)
    BY <1>0, <1>1, <2>1, CommonEnds
  <2>3. Content(nodes) = text
    BY <1>0, ContentIs
  <2>4. ActualReplace(f, e, u) /\ text' = Splice(text, from, to, s) /\ snapshot' = snapshot /\ copied' = copied
    BY <1>1, <2>3 DEF BufferReplace
  <2> HIDE DEF l, r
  <2>5. /\ u \in Seq(Chars) /\ f \in Nat /\ e \in Nat /\ f <= e /\ e <= Len(text)
        /\ Splice(text, f, e, u) = Splice(text, from, to, s)
    BY <1>0, <1>1, <2>1, <2>2, TrimKeeps
  <2>6. Insert(Erase(nodes, f, e), f, u) /\ DOMAIN hardlines' = LinesAfter(hardlines, f, e, u)
    BY <2>4 DEF ActualReplace, LinesAfter
  <2> HIDE DEF f, e, u
  <2>7. /\ memory' \in Memories /\ nodes' \in Seq(Nodes(memory')) /\ snapshot \in Seq(Nodes(memory'))
        /\ ContentIn(memory', nodes') = text'
        /\ ContentIn(memory', snapshot) = ContentIn(memory, snapshot)
    BY <1>0, <2>4, <2>5, <2>6, ReplaceSplices
  <2>8. DOMAIN hardlines' = Newlines(text')
    <3>1. text \in Seq(Chars) /\ DOMAIN hardlines = Newlines(text)
      BY <1>0
    <3>2. LinesAfter(hardlines, f, e, u) = Newlines(Splice(text, f, e, u))
      BY <2>5, <3>1, LinesFollow
    <3> QED  BY <2>4, <2>5, <2>6, <3>2
  <2>9. text' \in Seq(Chars)
    BY <1>0, <1>1, <2>1, <2>4, SpliceFacts
  <2> QED  BY <1>0, <2>4, <2>7, <2>8, <2>9 DEF IndInv
<1>2. CASE TakeSnapshot
  <2>1. memory' = Freed(memory, Used(nodes)) /\ nodes' = nodes /\ snapshot' = nodes
        /\ text' = text /\ copied' = text /\ hardlines' = hardlines
    BY <1>2 DEF TakeSnapshot
  <2>2. memory' \in Memories /\ \A b \in Used(nodes) \cap Blocks : memory'[b] = memory[b]
    BY <1>0, <2>1, FreedFacts
  <2>3. Used(nodes) \subseteq Blocks /\ \A b \in Blocks : Len(memory[b].bytes) \in Nat
    BY <1>0, UsedBlocks, LenProperties DEF Memories
  <2>4. \A b \in Used(nodes) : memory'[b] = memory[b] /\ Len(memory[b].bytes) <= Len(memory[b].bytes)
    BY <2>2, <2>3
  <2>5. Extends(memory, memory', Used(nodes))
    BY <2>4 DEF Extends
  <2>6. nodes \in Seq(Nodes(memory')) /\ ContentIn(memory', nodes) = ContentIn(memory, nodes)
    BY <1>0, <2>2, <2>5, StillThere
  <2> QED  BY <1>0, <2>1, <2>2, <2>6 DEF IndInv
<1>3. CASE UNCHANGED vars
  BY <1>0, <1>3 DEF vars, IndInv
<1> QED  BY <1>1, <1>2, <1>3 DEF Next

\* storage_t, buffer_t::replace: however nodes share blocks of memory, are freed
\* and appended to in place, the buffer reads as its edits made it, and the copy
\* of it as it was when it was taken; each newline of the text has its entry in
\* the hardlines of buffer_t, and nothing else has one.
THEOREM EditsAreRead == Spec => []ReadsAsText
<1>1. IndInv => ReadsAsText
  BY ContentIs DEF IndInv, ReadsAsText, Newlines
<1>2. IndInv /\ [Next]_vars => IndInv'
  BY ConstAssumption, StepInd
<1> QED  BY <1>1, <1>2, InitInd, PTL DEF Spec
=============================================================================
