--------------------------- MODULE BufferMapsProofs ----------------------------
(***************************************************************************)
(* What a buffer keeps in maps from offsets: marks stay behind their       *)
(* characters and next and previous mark visit all of them; pairs of       *)
(* brackets stay whole and nested; scopes and states are those of a parse  *)
(* of the text up to the first dirty line, and the parser goes on: for     *)
(* texts of any size, any number of types of marks and any edits.          *)
(***************************************************************************)
EXTENDS BufferMarks, BufferParser, DataLemmas

\* Two halves of a pair.
Mates(a, b) == a \div 2 = b \div 2 /\ a # b

\* Pairs p in a text of size n, of ranks below r: whole, in order, and nested.
PairsIn(p, n, r) ==
  /\ p \in [DOMAIN p -> 0 .. r - 1] /\ DOMAIN p \subseteq 0 .. n - 1
  /\ \A i, j \in DOMAIN p : p[i] = p[j] => i = j
  /\ \A i \in DOMAIN p : \E j \in DOMAIN p : Mates(p[i], p[j])
  /\ \A i, j \in DOMAIN p : Mates(p[i], p[j]) /\ p[i] % 2 = 0 => i < j
  /\ \A i, j, k, l \in DOMAIN p :
       Mates(p[i], p[k]) /\ Mates(p[j], p[l]) /\ i < j /\ j < k => i < l /\ l < k
TypedAt(p, t) == \A i \in DOMAIN p : p[i] \in DOMAIN t /\ t[p[i]] = i + 1

MarksOf(m, n) ==
  /\ m = [k \in DOMAIN m |-> m[k]] /\ DOMAIN m \subseteq 0 .. n
  /\ \A k \in DOMAIN m : m[k] \in {k, Gone}
MarksIn(mm, n) == mm = [t \in MarkTypes |-> mm[t]] /\ \A t \in MarkTypes : MarksOf(mm[t], n)

IndInv ==
  /\ size \in Nat /\ rank \in Nat /\ rank % 2 = 0
  /\ MarksIn(marks, size) /\ PairsIn(pairs, size, rank) /\ TypedAt(pairs, typed)

-----------------------------------------------------------------------------
(* The map: where keys go.                                                 *)

\* r has each key of m that is kept where it is moved to, with its value.
KeptKeys(m, from, to, right) == {k \in DOMAIN m : ~IsReplaced(k, from, to, right)}
HasMoved(r, m, from, to, n, right) ==
  /\ r = [j \in DOMAIN r |-> r[j]] /\ DOMAIN r = {KeyAfter(k, from, to, n, right) : k \in KeptKeys(m, from, to, right)}
  /\ \A k \in KeptKeys(m, from, to, right) : r[KeyAfter(k, from, to, n, right)] = m[k]

\* Replacing text moves the keys that are not in it.
LEMMA ReplaceMoves ==
  ASSUME NEW m, DOMAIN m \subseteq Int, NEW from \in Nat, NEW to \in Nat, from <= to, NEW n \in Nat, NEW right \in BOOLEAN
  PROVE  HasMoved(Replace(m, from, to, n, right), m, from, to, n, right)
<1> DEFINE kept == KeptKeys(m, from, to, right)
           At(k) == KeyAfter(k, from, to, n, right)
           r     == Replace(m, from, to, n, right)
<1>1. r = [j \in {At(k) : k \in kept} |-> m[CHOOSE k \in kept : At(k) = j]]
  BY DEF Replace, KeptKeys
<1>2. \A k, j \in kept : At(k) = At(j) => k = j
  BY DEF KeptKeys, IsReplaced, KeyAfter
<1> HIDE DEF kept, At, r
<1>3. \A k \in kept : (CHOOSE j \in kept : At(j) = At(k)) = k
  BY <1>2
<1>4. \A k \in kept : r[At(k)] = m[k]
  BY <1>1, <1>3
<1>5. r = [j \in DOMAIN r |-> r[j]] /\ DOMAIN r = {At(k) : k \in kept}
  BY <1>1
<1> QED  BY <1>4, <1>5 DEF r, kept, At, HasMoved

LEMMA SetFacts ==
  ASSUME NEW m, NEW k, NEW v
  PROVE  /\ Set(m, k, v) = [j \in DOMAIN Set(m, k, v) |-> Set(m, k, v)[j]]
         /\ DOMAIN Set(m, k, v) = {k} \cup DOMAIN m /\ Set(m, k, v)[k] = v
         /\ \A j \in DOMAIN m : j # k => Set(m, k, v)[j] = m[j]
BY DEF Set

LEMMA NoKeysFacts == NoKeys = [j \in DOMAIN NoKeys |-> NoKeys[j]] /\ DOMAIN NoKeys = {}
BY DEF NoKeys

LEMMA IsNoKeys ==
  ASSUME NEW m, m = [j \in DOMAIN m |-> m[j]], DOMAIN m = {}
  PROVE  m = NoKeys
BY NoKeysFacts

-----------------------------------------------------------------------------
(* Pairs.                                                                  *)

LEMMA Halves ==
  ASSUME NEW a \in Nat, NEW b \in Nat
  PROVE  /\ Mates(a, b) <=> Mates(b, a)
         /\ a % 2 = 0 => (Mates(a, b) <=> b = a + 1)
         /\ a % 2 # 0 => (Mates(a, b) <=> b = a - 1)
         /\ Mates(a, b) => (a % 2 = 0 <=> b % 2 # 0)
  BY DEF Mates

\* Each half has one other half.
LEMMA OneMate ==
  ASSUME NEW p, NEW n \in Nat, NEW r \in Nat, PairsIn(p, n, r), NEW i \in DOMAIN p
  PROVE  \A j, k \in DOMAIN p : Mates(p[i], p[j]) /\ Mates(p[i], p[k]) => j = k
<1>1. \A j \in DOMAIN p : p[j] \in Nat
  BY DEF PairsIn
<1>2. \A j, k \in DOMAIN p : Mates(p[i], p[j]) /\ Mates(p[i], p[k]) => p[j] = p[k]
  BY <1>1, Halves
<1> QED  BY <1>2 DEF PairsIn

\* q has the pairs of p that are in S, with the one at i at at[i].
IsMovedBy(q, p, S, at) ==
  q = [i \in DOMAIN q |-> q[i]] /\ DOMAIN q = {at[i] : i \in S} /\ \A i \in S : q[at[i]] = p[i]

\* Whole pairs that are moved in order are whole, in order and nested.
LEMMA PairsMove ==
  ASSUME NEW p, NEW n \in Nat, NEW r \in Nat, PairsIn(p, n, r),
         NEW S \in SUBSET DOMAIN p,
         \A i \in S, j \in DOMAIN p : Mates(p[i], p[j]) => j \in S,
         NEW m \in Nat, NEW at \in [S -> 0 .. m - 1], \A i, j \in S : i < j => at[i] < at[j],
         NEW q, IsMovedBy(q, p, S, at)
  PROVE  PairsIn(q, m, r)
<1>0. q = [i \in DOMAIN q |-> q[i]] /\ DOMAIN q = {at[i] : i \in S} /\ \A i \in S : q[at[i]] = p[i]
  BY DEF IsMovedBy
<1>1. q \in [DOMAIN q -> 0 .. r - 1] /\ DOMAIN q \subseteq 0 .. m - 1
  <2>1. \A i \in S : q[at[i]] \in 0 .. r - 1 /\ at[i] \in 0 .. m - 1
    BY <1>0 DEF PairsIn
  <2> QED  BY <1>0, <2>1
<1>2. \A x \in DOMAIN q : \E i \in S : x = at[i] /\ q[x] = p[i]
  BY <1>0
<1>3. \A i, j \in S : at[i] < at[j] => i < j
  <2>1. \A i \in S : i \in Nat /\ at[i] \in Nat
    BY DEF PairsIn
  <2> QED  BY <2>1
<1>4. \A x, y \in DOMAIN q : q[x] = q[y] => x = y
  <2>1. \A i, j \in S : p[i] = p[j] => i = j
    BY DEF PairsIn
  <2> QED  BY <1>2, <2>1
<1>5. \A x \in DOMAIN q : \E y \in DOMAIN q : Mates(q[x], q[y])
  <2> TAKE x \in DOMAIN q
  <2>1. PICK i \in S : x = at[i] /\ q[x] = p[i]
    BY <1>2
  <2>2. PICK j \in S : Mates(p[i], p[j])
    BY DEF PairsIn
  <2> QED  BY <1>0, <2>1, <2>2
<1>6. \A x, y \in DOMAIN q : Mates(q[x], q[y]) /\ q[x] % 2 = 0 => x < y
  <2> TAKE x, y \in DOMAIN q
  <2>1. PICK i \in S : x = at[i] /\ q[x] = p[i]
    BY <1>2
  <2>2. PICK j \in S : y = at[j] /\ q[y] = p[j]
    BY <1>2
  <2>3. Mates(p[i], p[j]) /\ p[i] % 2 = 0 => i < j
    BY DEF PairsIn
  <2> QED  BY <2>1, <2>2, <2>3
<1>7. \A x, y, z, w \in DOMAIN q :
        Mates(q[x], q[z]) /\ Mates(q[y], q[w]) /\ x < y /\ y < z => x < w /\ w < z
  <2> TAKE x, y, z, w \in DOMAIN q
  <2>1. PICK i \in S : x = at[i] /\ q[x] = p[i]
    BY <1>2
  <2>2. PICK j \in S : y = at[j] /\ q[y] = p[j]
    BY <1>2
  <2>3. PICK k \in S : z = at[k] /\ q[z] = p[k]
    BY <1>2
  <2>4. PICK l \in S : w = at[l] /\ q[w] = p[l]
    BY <1>2
  <2>5. Mates(p[i], p[k]) /\ Mates(p[j], p[l]) /\ i < j /\ j < k => i < l /\ l < k
    BY DEF PairsIn
  <2> QED  BY <2>1, <2>2, <2>3, <2>4, <2>5, <1>3
<1> QED  BY <1>1, <1>4, <1>5, <1>6, <1>7 DEF PairsIn

\* Text that is replaced takes the pairs in it along, whole.
LEMMA PairsReplaced ==
  ASSUME NEW p, NEW n \in Nat, NEW r \in Nat, PairsIn(p, n, r), NEW t, TypedAt(p, t), Gone \notin Int,
         NEW from \in Nat, NEW to \in 0 .. n, from <= to, NEW len \in Nat
  PROVE  /\ PairsIn(PairsReplace(p, from, to, len), n - (to - from) + len, r)
         /\ TypedAt(PairsReplace(p, from, to, len), [v \in DOMAIN t |-> Moved(t[v], from, to, len)])
         /\ \A k \in DOMAIN PairsReplace(p, from, to, len) : k < from \/ k >= from + len
<1> DEFINE gone == {p[k] \div 2 : k \in {j \in DOMAIN p : from <= j /\ j < to}}
           S    == DOMAIN p \ {k \in DOMAIN p : p[k] \div 2 \in gone}
           left == [k \in S |-> p[k]]
           at   == [k \in S |-> KeyAfter(k, from, to, len, TRUE)]
           q    == PairsReplace(p, from, to, len)
           m    == n - (to - from) + len
<1>1. DOMAIN p \subseteq 0 .. n - 1 /\ S \subseteq Nat /\ m \in Nat
  BY DEF PairsIn
<1>2. \A k \in S : k < from \/ k >= to
  BY <1>1 DEF KeyAfter
<1>3. q = Replace(left, from, to, len, TRUE)
  BY DEF PairsReplace, Without, Restrict, Keys
<1>4. KeptKeys(left, from, to, TRUE) = S
  BY <1>1, <1>2 DEF KeptKeys, IsReplaced
<1>5. /\ q = [j \in DOMAIN q |-> q[j]] /\ DOMAIN q = {at[k] : k \in S}
      /\ \A k \in S : q[at[k]] = p[k]
  <2>1. DOMAIN left = S /\ \A k \in S : left[k] = p[k] /\ at[k] = KeyAfter(k, from, to, len, TRUE)
    OBVIOUS
  <2>2. DOMAIN left \subseteq Int /\ to \in Nat /\ TRUE \in BOOLEAN
    BY <1>1
  <2> HIDE DEF S, q, left, at
  <2> DEFINE r0 == Replace(left, from, to, len, TRUE)
  <2>3. HasMoved(r0, left, from, to, len, TRUE)
    BY <2>2, ReplaceMoves, Zenon
  <2> HIDE DEF r0
  <2>4. {at[k] : k \in S} = {KeyAfter(k, from, to, len, TRUE) : k \in S}
    BY <2>1
  <2>5. \A k \in S : r0[at[k]] = p[k]
    BY <1>4, <2>1, <2>3 DEF HasMoved
  <2> QED  BY <1>3, <1>4, <2>3, <2>4, <2>5 DEF r0, HasMoved
<1>6. at \in [S -> 0 .. m - 1]
  BY <1>1, <1>2 DEF KeyAfter
<1>7. \A i, j \in S : i < j => at[i] < at[j]
  BY <1>1, <1>2 DEF KeyAfter
<1>8. \A i \in S, j \in DOMAIN p : Mates(p[i], p[j]) => j \in S
  BY DEF Mates
<1>9. PairsIn(q, m, r)
  <2> HIDE DEF S, at, q, m
  <2>1. S \in SUBSET DOMAIN p
    BY DEF S
  <2>2. IsMovedBy(q, p, S, at)
    BY <1>5 DEF IsMovedBy
  <2> QED  BY <1>1, <1>6, <1>7, <1>8, <2>1, <2>2, PairsMove
<1>10. TypedAt(q, [v \in DOMAIN t |-> Moved(t[v], from, to, len)])
  <2>1. \A k \in S : p[k] \in DOMAIN t /\ t[p[k]] = k + 1
    BY DEF TypedAt
  <2>2. \A k \in S : Moved(k + 1, from, to, len) = at[k] + 1
    BY <1>1, <1>2 DEF Moved, KeyAfter
  <2> HIDE DEF q, at, S
  <2> QED  BY <2>1, <2>2, <1>5 DEF TypedAt
<1>11. \A k \in S : at[k] < from \/ at[k] >= from + len
  BY <1>1, <1>2 DEF KeyAfter
<1> HIDE DEF q, at, S
<1> QED  BY <1>5, <1>9, <1>10, <1>11 DEF q

-----------------------------------------------------------------------------
(* Marks.                                                                  *)

\* Marks go where their characters go, and one stays where there were some.
AfterMove(m, from, to, len) ==
  [k \in DOMAIN ReplacePreserving(m, from, to, len, FALSE) |->
     Moved(ReplacePreserving(m, from, to, len, FALSE)[k], from, to, len)]

LEMMA MarksMove ==
  ASSUME NEW m, NEW n \in Nat, MarksOf(m, n), Gone \notin Int,
         NEW from \in Nat, NEW to \in 0 .. n, from <= to, NEW len \in Nat
  PROVE  /\ MarksOf(AfterMove(m, from, to, len), n - (to - from) + len)
         /\ DOMAIN AfterMove(m, from, to, len) = {} <=> DOMAIN m = {}
<1> DEFINE inside == {k \in DOMAIN m : from < k /\ k <= to}
           kept   == KeptKeys(m, from, to, FALSE)
           rest   == Replace(m, from, to, len, FALSE)
           r      == ReplacePreserving(m, from, to, len, FALSE)
           q      == AfterMove(m, from, to, len)
           At(k)  == KeyAfter(k, from, to, len, FALSE)
           new    == n - (to - from) + len
<1>1. DOMAIN m \subseteq 0 .. n /\ DOMAIN m \subseteq Nat /\ inside \subseteq 0 .. n /\ new \in Nat
  BY DEF MarksOf
<1>2. HasMoved(rest, m, from, to, len, FALSE)
  <2>1. to \in Nat /\ FALSE \in BOOLEAN /\ DOMAIN m \subseteq Int
    BY <1>1
  <2> QED  BY <2>1, ReplaceMoves, Zenon
<1>3. DOMAIN rest = {At(k) : k \in kept} /\ \A k \in kept : rest[At(k)] = m[k]
  BY <1>2 DEF HasMoved
<1>4. kept \cup inside = DOMAIN m /\ kept \subseteq DOMAIN m
  BY <1>1 DEF KeptKeys, IsReplaced
<1>5. \A k \in kept : k <= from \/ k > to
  BY <1>1 DEF KeptKeys, IsReplaced
<1>6. \A k \in Int : At(k) = IF k > to THEN k + len - (to - from) ELSE k
  BY DEF KeyAfter
<1>7. /\ inside = {} => r = rest
      /\ inside # {} => r = Set(rest, from + len, m[Max(inside)])
  BY DEF ReplacePreserving
<1>8. q = [k \in DOMAIN r |-> Moved(r[k], from, to, len)]
  BY DEF AfterMove
<1>9. Max(inside) \in inside \/ inside = {}
  BY <1>1, HasMax
<1>10. \A k \in inside : Moved(m[k], from, to, len) = Gone
  BY <1>1 DEF MarksOf, Moved
<1> HIDE DEF kept, rest, r, q, At, inside
<1>11. \A k \in kept : At(k) \in 0 .. new /\ Moved(m[k], from, to, len) \in {At(k), Gone}
  <2> TAKE k \in kept
  <2>1. k \in 0 .. n /\ k \in Int /\ k # Gone /\ (k <= from \/ k > to)
    BY <1>1, <1>4, <1>5
  <2>2. At(k) \in 0 .. new /\ Moved(k, from, to, len) = At(k)
    <3>1. CASE k <= from
      BY <1>6, <2>1, <3>1 DEF Moved
    <3>2. CASE k > to
      BY <1>6, <2>1, <3>2 DEF Moved
    <3> QED  BY <2>1, <3>1, <3>2
  <2>3. m[k] \in {k, Gone} /\ Moved(Gone, from, to, len) = Gone
    BY <1>4 DEF MarksOf, Moved
  <2> QED  BY <2>2, <2>3
<1>12. \A k \in DOMAIN r : k \in 0 .. new /\ Moved(r[k], from, to, len) \in {k, Gone}
  <2>1. CASE inside = {}
    BY <1>3, <1>7, <1>11, <2>1
  <2>2. CASE inside # {}
    <3> DEFINE w == m[Max(inside)]
    <3>1. Moved(w, from, to, len) = Gone
      BY <1>9, <1>10, <2>2
    <3> HIDE DEF w
    <3>2. /\ DOMAIN Set(rest, from + len, w) = {from + len} \cup DOMAIN rest /\ Set(rest, from + len, w)[from + len] = w
          /\ \A k \in DOMAIN rest : k # from + len => Set(rest, from + len, w)[k] = rest[k]
      BY DEF Set
    <3>3. r = Set(rest, from + len, w)
      BY <1>7, <2>2 DEF w
    <3>4. from + len \in 0 .. new
      OBVIOUS
    <3> QED  BY <1>3, <1>11, <3>1, <3>2, <3>3, <3>4
  <2> QED  BY <2>1, <2>2
<1>13. DOMAIN r = {} <=> DOMAIN m = {}
  <2>1. inside # {} => from + len \in DOMAIN r
    BY <1>7 DEF Set
  <2> QED  BY <1>3, <1>4, <1>7, <2>1
<1>14. DOMAIN q = DOMAIN r /\ q = [k \in DOMAIN q |-> q[k]] /\ \A k \in DOMAIN q : k \in 0 .. new /\ q[k] \in {k, Gone}
  BY <1>8, <1>12
<1>15. MarksOf(q, new)
  BY <1>14 DEF MarksOf
<1> QED  BY <1>13, <1>14, <1>15 DEF q

SameEmpty(mm, nn) == \A t \in MarkTypes : DOMAIN mm[t] = {} <=> DOMAIN nn[t] = {}

\* The same of every type, when the text of a buffer is replaced.
LEMMA MarksReplaced ==
  ASSUME NEW mm, NEW n \in Nat, MarksIn(mm, n), Gone \notin Int,
         NEW from \in Nat, NEW to \in 0 .. n, from <= to, NEW len \in Nat
  PROVE  /\ MarksIn(MarksReplace(mm, from, to, len), n - (to - from) + len)
         /\ SameEmpty(MarksReplace(mm, from, to, len), mm)
<1>1. MarksReplace(mm, from, to, len) = [t \in MarkTypes |-> AfterMove(mm[t], from, to, len)]
  BY DEF MarksReplace, Keys, AfterMove
<1>2. \A t \in MarkTypes : /\ MarksOf(AfterMove(mm[t], from, to, len), n - (to - from) + len)
                           /\ DOMAIN AfterMove(mm[t], from, to, len) = {} <=> DOMAIN mm[t] = {}
  <2> TAKE t \in MarkTypes
  <2>1. MarksOf(mm[t], n)
    BY DEF MarksIn
  <2> QED  BY ZenonT(30), <2>1, MarksMove
<1> QED  BY <1>1, <1>2 DEF MarksIn, SameEmpty

-----------------------------------------------------------------------------
(* The operations.                                                         *)

Sound(b, r) ==
  /\ b.size \in Nat /\ MarksIn(b.marks, b.size)
  /\ PairsIn(b.pairs, b.size, r) /\ TypedAt(b.pairs, b.typed)

LEMMA ReplacedSound ==
  ASSUME NEW b, NEW r \in Nat, Sound(b, r), Gone \notin Int,
         NEW from \in Nat, NEW to \in 0 .. b.size, from <= to, NEW n \in Nat
  PROVE  /\ Sound(Replaced(b, from, to, n), r)
         /\ Replaced(b, from, to, n).size = b.size - (to - from) + n
         /\ \A k \in DOMAIN Replaced(b, from, to, n).pairs : k < from \/ k >= from + n
         /\ SameEmpty(Replaced(b, from, to, n).marks, b.marks)
<1> DEFINE z == b.size  m == b.marks  p == b.pairs  t == b.typed
           moved == [v \in DOMAIN t |-> Moved(t[v], from, to, n)]
<1>1. z \in Nat /\ MarksIn(m, z) /\ PairsIn(p, z, r) /\ TypedAt(p, t) /\ to \in 0 .. z
  BY DEF Sound
<1>2. Replaced(b, from, to, n) =
        [size |-> z - (to - from) + n, marks |-> MarksReplace(m, from, to, n),
         pairs |-> PairsReplace(p, from, to, n), typed |-> moved]
  BY DEF Replaced
<1> HIDE DEF z, m, p, t
<1>3. /\ MarksIn(MarksReplace(m, from, to, n), z - (to - from) + n)
      /\ SameEmpty(MarksReplace(m, from, to, n), m)
  BY <1>1, MarksReplaced
<1>4. /\ PairsIn(PairsReplace(p, from, to, n), z - (to - from) + n, r)
      /\ TypedAt(PairsReplace(p, from, to, n), moved)
      /\ \A k \in DOMAIN PairsReplace(p, from, to, n) : k < from \/ k >= from + n
  BY <1>1, PairsReplaced
<1>5. z - (to - from) + n \in Nat
  BY <1>1
<1> HIDE DEF moved
<1> QED  BY <1>2, <1>3, <1>4, <1>5 DEF Sound, z, m, p

\* A new pair on two characters next to each other.
LEMMA PairAdded ==
  ASSUME NEW p, NEW n \in Nat, NEW r \in Nat, r % 2 = 0, PairsIn(p, n, r),
         NEW c \in Nat, c + 1 < n, c \notin DOMAIN p, c + 1 \notin DOMAIN p,
         NEW t, TypedAt(p, t)
  PROVE  /\ PairsIn(Set(Set(p, c, r), c + 1, r + 1), n, r + 2)
         /\ TypedAt(Set(Set(p, c, r), c + 1, r + 1), Set(Set(t, r, c + 1), r + 1, c + 2))
<1> DEFINE q == Set(Set(p, c, r), c + 1, r + 1)
           u == Set(Set(t, r, c + 1), r + 1, c + 2)
<1>1. /\ q = [i \in DOMAIN q |-> q[i]] /\ DOMAIN q = {c, c + 1} \cup DOMAIN p
      /\ q[c] = r /\ q[c + 1] = r + 1 /\ \A i \in DOMAIN p : q[i] = p[i]
  BY DEF Set
<1>2. DOMAIN t \cup {r, r + 1} = DOMAIN u /\ u[r] = c + 1 /\ u[r + 1] = c + 2
  BY DEF Set
<1>3. \A v \in DOMAIN t : v # r /\ v # r + 1 => u[v] = t[v]
  BY DEF Set
<1> HIDE DEF q, u
<1>5. \A i \in DOMAIN p : p[i] \in 0 .. r - 1 /\ i \in 0 .. n - 1
  BY DEF PairsIn
<1>6. \A i \in DOMAIN p : ~Mates(q[i], q[c]) /\ ~Mates(q[i], q[c + 1]) /\ ~Mates(q[c], q[i]) /\ ~Mates(q[c + 1], q[i])
  BY <1>1, <1>5 DEF Mates
<1>7. ~Mates(q[c], q[c]) /\ ~Mates(q[c + 1], q[c + 1]) /\ Mates(q[c], q[c + 1]) /\ Mates(q[c + 1], q[c])
  BY <1>1 DEF Mates
<1>8. q \in [DOMAIN q -> 0 .. r + 2 - 1] /\ DOMAIN q \subseteq 0 .. n - 1
  <2>1. \A i \in DOMAIN q : q[i] \in 0 .. r + 2 - 1 /\ i \in 0 .. n - 1
    BY <1>1, <1>5
  <2> QED  BY <1>1, <2>1
<1>9. \A i, j \in DOMAIN q : q[i] = q[j] => i = j
  <2>1. \A i, j \in DOMAIN p : p[i] = p[j] => i = j
    BY DEF PairsIn
  <2> QED  BY <1>1, <1>5, <2>1
<1>10. \A i \in DOMAIN q : \E j \in DOMAIN q : Mates(q[i], q[j])
  <2>1. \A i \in DOMAIN p : \E j \in DOMAIN p : Mates(p[i], p[j])
    BY DEF PairsIn
  <2> QED  BY <1>1, <1>7, <2>1
<1>11. \A i, j \in DOMAIN q : Mates(q[i], q[j]) /\ q[i] % 2 = 0 => i < j
  <2>1. \A i, j \in DOMAIN p : Mates(p[i], p[j]) /\ p[i] % 2 = 0 => i < j
    BY DEF PairsIn
  <2>2. q[c + 1] % 2 # 0 /\ c < c + 1
    BY <1>1
  <2> QED  BY <1>1, <1>6, <1>7, <2>1, <2>2
<1>12. \A i, j, k, l \in DOMAIN q : Mates(q[i], q[k]) /\ Mates(q[j], q[l]) /\ i < j /\ j < k => i < l /\ l < k
  <2> SUFFICES ASSUME NEW i \in DOMAIN q, NEW j \in DOMAIN q, NEW k \in DOMAIN q, NEW l \in DOMAIN q,
                      Mates(q[i], q[k]), Mates(q[j], q[l]), i < j, j < k
               PROVE  i < l /\ l < k
    OBVIOUS
  <2>1. i \in DOMAIN p /\ k \in DOMAIN p
    <3>1. \/ i \in DOMAIN p /\ k \in DOMAIN p
          \/ i = c /\ k = c + 1
          \/ i = c + 1 /\ k = c
      BY <1>1, <1>6, <1>7
    <3>2. j \in Int
      BY <1>8
    <3> QED  BY <3>1, <3>2
  <2>2. CASE j \in DOMAIN p
    <3>1. l \in DOMAIN p
      BY <1>1, <1>6, <2>2
    <3> QED  BY <1>1, <2>1, <2>2, <3>1 DEF PairsIn
  <2>3. CASE j \in {c, c + 1}
    <3>1. l \in {c, c + 1}
      BY <1>1, <1>6, <2>3
    <3>2. i \in Nat /\ k \in Nat /\ i # c /\ i # c + 1 /\ k # c /\ k # c + 1
      BY <1>5, <2>1
    <3> QED  BY <2>3, <3>1, <3>2
  <2> QED  BY <1>1, <2>2, <2>3
<1>13. PairsIn(q, n, r + 2)
  BY <1>8, <1>9, <1>10, <1>11, <1>12 DEF PairsIn
<1>14. TypedAt(q, u)
  <2>1. \A i \in DOMAIN p : p[i] \in DOMAIN t /\ t[p[i]] = i + 1 /\ p[i] # r /\ p[i] # r + 1
    BY <1>5 DEF TypedAt
  <2> QED  BY <1>1, <1>2, <1>3, <2>1 DEF TypedAt
<1> QED  BY <1>13, <1>14 DEF q, u

\* A pair that is removed, both halves of it.
LEMMA PairRemoved ==
  ASSUME NEW p, NEW n \in Nat, NEW r \in Nat, PairsIn(p, n, r), NEW t, TypedAt(p, t),
         NEW i \in DOMAIN p, NEW j \in DOMAIN p, Mates(p[i], p[j])
  PROVE  PairsIn(Without(p, {i, j}), n, r) /\ TypedAt(Without(p, {i, j}), t)
<1> DEFINE q == Without(p, {i, j})
           S == DOMAIN p \ {i, j}
           at == [k \in S |-> k]
<1>1. q = [k \in DOMAIN q |-> q[k]] /\ DOMAIN q = S /\ \A k \in S : q[k] = p[k]
  BY DEF Without, Restrict
<1>2. \A k \in S, l \in DOMAIN p : Mates(p[k], p[l]) => l \in S
  <2>1. \A a, b \in DOMAIN p : Mates(p[a], p[b]) => Mates(p[b], p[a])
    BY DEF Mates
  <2>2. \A k \in DOMAIN p : (Mates(p[i], p[k]) => k = j) /\ (Mates(p[j], p[k]) => k = i)
    BY <2>1, OneMate
  <2> QED  BY <2>1, <2>2
<1>3. at \in [S -> 0 .. n - 1] /\ \A k \in S : at[k] = k
  BY DEF PairsIn
<1> HIDE DEF q, S, at
<1>4. IsMovedBy(q, p, S, at)
  BY <1>1, <1>3 DEF IsMovedBy
<1>5. S \in SUBSET DOMAIN p
  BY DEF S
<1>6. \A k, l \in S : k < l => at[k] < at[l]
  BY <1>3
<1>7. PairsIn(q, n, r)
  BY <1>2, <1>3, <1>4, <1>5, <1>6, PairsMove
<1>8. TypedAt(q, t)
  BY <1>1, <1>5 DEF TypedAt
<1> QED  BY <1>7, <1>8 DEF q

-----------------------------------------------------------------------------
(* The invariant.                                                          *)

\* The code keeps no deleted characters: what stands for them is no place.
GoneIsNoPlace == Gone \notin Int

LEMMA InitInd == Init => IndInv
<1> SUFFICES ASSUME Init PROVE IndInv
  OBVIOUS
<1> DEFINE none == NoKeys
<1>1. none = [j \in DOMAIN none |-> none[j]] /\ DOMAIN none = {}
  BY NoKeysFacts
<1> HIDE DEF none
<1>2. MarksOf(none, size) /\ PairsIn(none, size, rank) /\ TypedAt(none, typed)
  BY <1>1 DEF MarksOf, PairsIn, TypedAt
<1>3. marks = [t \in MarkTypes |-> none] /\ pairs = none /\ size \in Nat /\ rank = 0
  BY DEF Init, none
<1> QED  BY <1>2, <1>3 DEF IndInv, MarksIn

LEMMA BufferSound == IndInv <=> size \in Nat /\ rank \in Nat /\ rank % 2 = 0 /\ Sound(Buffer, rank)
BY DEF IndInv, Sound, Buffer

LEMMA BecomesSound ==
  ASSUME NEW b, rank' \in Nat, rank' % 2 = 0, Sound(b, rank'), Becomes(b)
  PROVE  IndInv'
<1>1. size' = b.size /\ marks' = b.marks /\ pairs' = b.pairs /\ typed' = [v \in Range(b.pairs) |-> b.typed[v]]
  BY DEF Becomes, Restrict
<1>2. TypedAt(pairs', typed')
  BY <1>1 DEF Sound, TypedAt, Range
<1> QED  BY <1>1, <1>2 DEF Sound, IndInv

LEMMA EditSound ==
  ASSUME IndInv, GoneIsNoPlace, NEW from \in 0 .. size, NEW to \in 0 .. size, from <= to, NEW n \in 0 .. 1, Edit(from, to, n)
  PROVE  IndInv'
<1>1. Sound(Buffer, rank) /\ rank \in Nat /\ Buffer.size = size /\ size \in Nat
  BY BufferSound DEF Buffer
<1>2. from \in Nat /\ to \in 0 .. Buffer.size /\ n \in Nat
  BY <1>1
<1>3. Sound(Replaced(Buffer, from, to, n), rank)
  BY <1>1, <1>2, ReplacedSound DEF GoneIsNoPlace
<1>4. rank' = rank /\ Becomes(Replaced(Buffer, from, to, n)) /\ rank % 2 = 0
  BY DEF Edit, IndInv
<1> QED  BY <1>1, <1>3, <1>4, BecomesSound

LEMMA TypeFirstSound ==
  ASSUME IndInv, GoneIsNoPlace, NEW i \in 0 .. size, TypeFirst(i)
  PROVE  IndInv'
<1> DEFINE b == Replaced(Buffer, i, i, 2)
           p == Set(Set(b.pairs, i, rank), i + 1, rank + 1)
           t == Set(Set(b.typed, rank, i + 1), rank + 1, i + 2)
           c == [b EXCEPT !.pairs = p, !.typed = t]
<1>1. Sound(Buffer, rank) /\ rank \in Nat /\ rank % 2 = 0 /\ Buffer.size = size /\ size \in Nat
  BY BufferSound DEF Buffer
<1>2. i \in Nat /\ i \in 0 .. Buffer.size /\ 2 \in Nat
  BY <1>1
<1>3. Sound(b, rank) /\ b.size = Buffer.size - (i - i) + 2 /\ \A k \in DOMAIN b.pairs : k < i \/ k >= i + 2
  BY <1>1, <1>2, ReplacedSound DEF GoneIsNoPlace
<1>4. c.size = b.size /\ c.marks = b.marks /\ c.pairs = p /\ c.typed = t
  BY DEF Replaced
<1>5. Becomes(c) /\ rank' = rank + 2
  BY DEF TypeFirst
<1> HIDE DEF b, c
<1>6. b.size \in Nat /\ i + 1 < b.size /\ i \notin DOMAIN b.pairs /\ i + 1 \notin DOMAIN b.pairs
  BY <1>1, <1>2, <1>3
<1>7. PairsIn(p, b.size, rank + 2) /\ TypedAt(p, t)
  <2> HIDE DEF p, t
  <2>1. PairsIn(b.pairs, b.size, rank) /\ TypedAt(b.pairs, b.typed)
    BY <1>3 DEF Sound
  <2> QED  BY <1>1, <1>2, <1>6, <2>1, PairAdded DEF p, t
<1> HIDE DEF p, t
<1>8. Sound(c, rank + 2) /\ rank + 2 \in Nat /\ (rank + 2) % 2 = 0
  BY <1>1, <1>3, <1>4, <1>7 DEF Sound
<1> QED  BY <1>5, <1>8, BecomesSound

\* counterpart() finds the one other half.
LEMMA CounterpartIs ==
  ASSUME IndInv, NEW i \in DOMAIN pairs
  PROVE  /\ Counterpart(i) \in DOMAIN pairs /\ Mates(pairs[i], pairs[Counterpart(i)])
         /\ \A k \in DOMAIN pairs : Mates(pairs[i], pairs[k]) => k = Counterpart(i)
<1>1. PairsIn(pairs, size, rank) /\ size \in Nat /\ rank \in Nat
  BY DEF IndInv
<1>2. PICK j \in DOMAIN pairs : Mates(pairs[i], pairs[j])
  BY <1>1 DEF PairsIn
<1>3. Counterpart(i) \in DOMAIN pairs /\ Mates(pairs[i], pairs[Counterpart(i)])
  BY <1>2 DEF Counterpart, Keys, Mates
<1> QED  BY <1>1, <1>3, OneMate

LEMMA TypeLastSound ==
  ASSUME IndInv, NEW i \in 0 .. size, TypeLast(i)
  PROVE  IndInv'
<1> DEFINE j == Counterpart(i)
           b == [Buffer EXCEPT !.pairs = Without(@, {i, j})]
<1>1. i \in DOMAIN pairs /\ Becomes(b) /\ rank' = rank
  BY DEF TypeLast, IsLast, Keys
<1>2. j \in DOMAIN pairs /\ Mates(pairs[i], pairs[j])
  BY <1>1, CounterpartIs
<1>3. b.size = size /\ b.marks = marks /\ b.pairs = Without(pairs, {i, j}) /\ b.typed = typed
  BY DEF Buffer
<1> HIDE DEF b, j
<1>4. /\ PairsIn(pairs, size, rank) /\ TypedAt(pairs, typed)
      /\ size \in Nat /\ rank \in Nat /\ rank % 2 = 0 /\ MarksIn(marks, size)
  BY DEF IndInv
<1>5. PairsIn(Without(pairs, {i, j}), size, rank) /\ TypedAt(Without(pairs, {i, j}), typed)
  BY <1>1, <1>2, <1>4, PairRemoved
<1>6. Sound(b, rank)
  BY <1>3, <1>4, <1>5 DEF Sound
<1> QED  BY <1>1, <1>4, <1>6, BecomesSound

LEMMA DeleteFirstSound ==
  ASSUME IndInv, GoneIsNoPlace, NEW i \in 0 .. size, DeleteFirst(i)
  PROVE  IndInv'
<1> DEFINE j == Counterpart(i)
<1>1. i \in DOMAIN pairs /\ pairs[i] % 2 = 0 /\ rank' = rank
  BY DEF DeleteFirst, IsFirst, Keys
<1>2. j \in DOMAIN pairs /\ Mates(pairs[i], pairs[j])
  BY <1>1, CounterpartIs
<1>3. Becomes(IF j = i + 1 THEN Replaced(Buffer, i, i + 2, 0) ELSE Replaced(Replaced(Buffer, i, i + 1, 0), j - 1, j, 0))
  BY DEF DeleteFirst
<1> HIDE DEF j
<1>4. i < j /\ i \in Nat /\ j \in 0 .. size - 1
  BY <1>1, <1>2 DEF IndInv, PairsIn
<1>5. Sound(Buffer, rank) /\ rank \in Nat /\ rank % 2 = 0 /\ Buffer.size = size /\ size \in Nat /\ 0 \in Nat
  BY BufferSound DEF Buffer
<1>6. CASE j = i + 1
  <2>1. i + 2 \in 0 .. Buffer.size /\ i <= i + 2
    BY <1>4, <1>5, <1>6
  <2>2. Sound(Replaced(Buffer, i, i + 2, 0), rank)
    BY <1>4, <1>5, <2>1, ReplacedSound DEF GoneIsNoPlace
  <2> QED  BY <1>1, <1>3, <1>5, <1>6, <2>2, BecomesSound
<1>7. CASE j # i + 1
  <2> DEFINE b == Replaced(Buffer, i, i + 1, 0)
  <2>1. i + 1 \in 0 .. Buffer.size /\ i <= i + 1
    BY <1>4, <1>5
  <2>2. Sound(b, rank) /\ b.size = Buffer.size - 1
    <3>1. Sound(b, rank)
      BY <1>4, <1>5, <2>1, ReplacedSound DEF GoneIsNoPlace
    <3>2. b.size = Buffer.size - 1
      BY <1>4, <1>5 DEF Replaced
    <3> QED  BY <3>1, <3>2
  <2>3. Becomes(Replaced(b, j - 1, j, 0))
    BY <1>3, <1>7
  <2> HIDE DEF b
  <2>4. j - 1 \in Nat /\ j \in 0 .. b.size /\ j - 1 <= j
    BY <1>4, <1>5, <2>2
  <2>5. Sound(Replaced(b, j - 1, j, 0), rank)
    BY <1>5, <2>2, <2>4, ReplacedSound DEF GoneIsNoPlace
  <2> QED  BY <1>1, <1>5, <2>3, <2>5, BecomesSound
<1> QED  BY <1>6, <1>7

LEMMA SetMarkSound ==
  ASSUME IndInv, NEW t \in MarkTypes, NEW i \in 0 .. size, SetMark(t, i) \/ RemoveMark(t, i)
  PROVE  IndInv'
<1> DEFINE m == marks[t]
<1>1. MarksOf(m, size) /\ size \in Nat /\ marks = [u \in MarkTypes |-> marks[u]] /\ \A u \in MarkTypes : MarksOf(marks[u], size)
  BY DEF IndInv, MarksIn
<1>2. PICK new \in {Set(m, i, i), Without(m, {i})} : marks' = [marks EXCEPT ![t] = new]
  BY DEF SetMark, RemoveMark
<1>3. MarksOf(new, size)
  <2>1. MarksOf(Set(m, i, i), size)
    BY <1>1 DEF MarksOf, Set
  <2>2. MarksOf(Without(m, {i}), size)
    BY <1>1 DEF MarksOf, Without, Restrict
  <2> QED  BY <1>2, <2>1, <2>2
<1>4. MarksIn(marks', size)
  BY <1>1, <1>2, <1>3 DEF MarksIn
<1>5. size' = size /\ pairs' = pairs /\ rank' = rank /\ typed' = typed
  BY DEF SetMark, RemoveMark
<1> QED  BY <1>4, <1>5 DEF IndInv

LEMMA StepInd == ASSUME IndInv, GoneIsNoPlace, [Next]_vars PROVE IndInv'
<1>1. ASSUME NEW from \in 0 .. size, NEW to \in 0 .. size, NEW n \in 0 .. 1, from <= to, Edit(from, to, n) PROVE IndInv'
  BY <1>1, EditSound
<1>2. ASSUME NEW i \in 0 .. size, TypeFirst(i) PROVE IndInv'
  BY <1>2, TypeFirstSound
<1>3. ASSUME NEW i \in 0 .. size, TypeLast(i) PROVE IndInv'
  BY <1>3, TypeLastSound
<1>4. ASSUME NEW i \in 0 .. size, DeleteFirst(i) PROVE IndInv'
  BY <1>4, DeleteFirstSound
<1>5. ASSUME NEW i \in 0 .. size, NEW t \in MarkTypes, SetMark(t, i) \/ RemoveMark(t, i) PROVE IndInv'
  BY <1>5, SetMarkSound
<1>6. ASSUME UNCHANGED vars PROVE IndInv'
  BY <1>6 DEF vars, IndInv
<1> QED  BY <1>1, <1>2, <1>3, <1>4, <1>5, <1>6 DEF Next

-----------------------------------------------------------------------------
(* Going from mark to mark.                                                *)

\* n is the next of the keys S behind i, or the first of them; or the other
\* way round.
IsNext(S, i, n) == n \in S /\ \A k \in S : (k > i => i < n /\ n <= k) /\ (n <= i => n <= k)
IsPrev(S, i, n) == n \in S /\ \A k \in S : (k < i => n < i /\ k <= n) /\ (n >= i => k <= n)

LEMMA NextOfEach ==
  ASSUME NEW S \in SUBSET Nat, S # {}, NEW i \in Nat
  PROVE  IsNext(S, i, LET after == {k \in S : k > i} IN IF after # {} THEN Min(after) ELSE Min(S))
<1> DEFINE after == {k \in S : k > i}
           n == IF after # {} THEN Min(after) ELSE Min(S)
<1>1. Min(S) \in S /\ \A k \in S : Min(S) <= k
  BY HasMin
<1>2. after # {} => Min(after) \in after /\ \A k \in after : Min(after) <= k
  <2>1. after \in SUBSET Nat
    OBVIOUS
  <2> HIDE DEF after
  <2> QED  BY <2>1, HasMin
<1>3. IsNext(S, i, n)
  <2>1. CASE after # {}
    <3>1. n = Min(after)
      BY <2>1
    <3> HIDE DEF n
    <3>2. n \in S /\ n > i /\ n \in Nat /\ \A k \in S : k \in Nat /\ (k > i => n <= k)
      BY <1>2, <2>1, <3>1
    <3> QED  BY <3>2 DEF IsNext
  <2>2. CASE after = {}
    <3>1. n = Min(S)
      BY <2>2
    <3> HIDE DEF n
    <3>2. n \in S /\ \A k \in S : ~(k > i) /\ n <= k
      BY <1>1, <2>2, <3>1
    <3> QED  BY <3>2 DEF IsNext
  <2> QED  BY <2>1, <2>2
<1> QED  BY <1>3

LEMMA PrevOfEach ==
  ASSUME NEW m \in Nat, NEW S \in SUBSET (0 .. m), S # {}, NEW i \in Nat
  PROVE  IsPrev(S, i, LET before == {k \in S : k < i} IN IF before # {} THEN Max(before) ELSE Max(S))
<1> DEFINE before == {k \in S : k < i}
           n == IF before # {} THEN Max(before) ELSE Max(S)
<1>1. Max(S) \in S /\ \A k \in S : Max(S) >= k
  BY HasMax
<1>2. before # {} => Max(before) \in before /\ \A k \in before : Max(before) >= k
  <2>1. before \in SUBSET (0 .. m)
    OBVIOUS
  <2> HIDE DEF before
  <2> QED  BY <2>1, HasMax
<1>3. IsPrev(S, i, n)
  <2>1. CASE before # {}
    <3>1. n = Max(before)
      BY <2>1
    <3> HIDE DEF n
    <3>2. n \in S /\ n < i /\ n \in Nat /\ \A k \in S : k \in Nat /\ (k < i => k <= n)
      <4>1. \A k \in S : k \in Nat
        OBVIOUS
      <4> QED  BY <1>2, <2>1, <3>1, <4>1
    <3> QED  BY <3>2 DEF IsPrev
  <2>2. CASE before = {}
    <3>1. n = Max(S)
      BY <2>2
    <3> HIDE DEF n
    <3>2. n \in S /\ \A k \in S : ~(k < i) /\ k <= n
      BY <1>1, <2>2, <3>1
    <3> QED  BY <3>2 DEF IsPrev
  <2> QED  BY <2>1, <2>2
<1> QED  BY <1>3

AllMarks == UNION {Keys(marks[t]) : t \in MarkTypes}
Marked == {t \in MarkTypes : marks[t] # NoKeys}

LEMMA AllMarked ==
  ASSUME IndInv
  PROVE  /\ AllMarks \subseteq 0 .. size /\ size \in Nat
         /\ \A t \in Marked : Keys(marks[t]) # {} /\ Keys(marks[t]) \subseteq AllMarks
         /\ \A k \in AllMarks : \E t \in Marked : k \in Keys(marks[t])
<1>1. size \in Nat /\ \A t \in MarkTypes : MarksOf(marks[t], size)
  BY DEF IndInv, MarksIn
<1>2. \A t \in MarkTypes : marks[t] # NoKeys <=> Keys(marks[t]) # {}
  BY <1>1, IsNoKeys, NoKeysFacts DEF MarksOf, Keys
<1>3. AllMarks \subseteq 0 .. size
  BY <1>1 DEF AllMarks, Keys, MarksOf
<1>4. \A k \in AllMarks : \E t \in MarkTypes : k \in Keys(marks[t])
  BY DEF AllMarks
<1>5. \A t \in MarkTypes : Keys(marks[t]) \subseteq AllMarks
  BY DEF AllMarks
<1> QED  BY <1>1, <1>2, <1>3, <1>4, <1>5 DEF Marked

\* Of the candidates of all types, the code picks the next of all marks.
LEMMA NextMarkIs ==
  ASSUME IndInv, NEW i \in AllMarks
  PROVE  IsNext(AllMarks, i, NextMark(i))
<1> DEFINE Of(t) == LET after == {k \in Keys(marks[t]) : k > i} IN IF after # {} THEN Min(after) ELSE Min(Keys(marks[t]))
           C == {Of(t) : t \in Marked}
           B == {k \in C : k > i}
<1>1. NextCandidates(i) = C
  BY DEF NextCandidates, Marked
<1>2. i \in Nat /\ AllMarks \subseteq Nat
  BY AllMarked
<1>3. \A t \in Marked : IsNext(Keys(marks[t]), i, Of(t))
  <2> TAKE t \in Marked
  <2>1. Keys(marks[t]) \in SUBSET Nat /\ Keys(marks[t]) # {}
    BY <1>2, AllMarked
  <2> QED  BY <1>2, <2>1, NextOfEach
<1> HIDE DEF Of
<1>4. C \subseteq AllMarks /\ C # {} /\ C \in SUBSET Nat
  BY <1>2, <1>3, AllMarked DEF IsNext
<1>5. \A k \in AllMarks : \E c \in C : (k > i => i < c /\ c <= k) /\ (c <= i => c <= k)
  <2> TAKE k \in AllMarks
  <2>1. PICK t \in Marked : k \in Keys(marks[t])
    BY AllMarked
  <2> QED  BY <1>3, <2>1 DEF IsNext
<1>6. Min(C) \in C /\ \A c \in C : Min(C) <= c
  BY <1>4, HasMin
<1>7. B # {} => Min(B) \in B /\ \A c \in B : Min(B) <= c
  <2>1. B \in SUBSET Nat
    BY <1>4
  <2> HIDE DEF B
  <2> QED  BY <2>1, HasMin
<1>8. NextMark(i) = IF B # {} THEN Min(B) ELSE Min(C)
  BY <1>1 DEF NextMark
<1> HIDE DEF C
<1>9. CASE B # {}
  <2>1. NextMark(i) \in AllMarks /\ NextMark(i) > i
    BY <1>4, <1>7, <1>8, <1>9
  <2>2. ASSUME NEW k \in AllMarks, k > i PROVE NextMark(i) <= k
    <3>1. PICK c \in B : c <= k
      BY <1>5, <2>2
    <3>2. NextMark(i) <= c /\ NextMark(i) \in Nat /\ c \in Nat /\ k \in Nat
      BY <1>2, <1>4, <1>7, <1>8, <1>9, <2>1, <3>1
    <3> QED  BY <3>1, <3>2
  <2> DEFINE n == NextMark(i)
  <2>3. n \in AllMarks /\ n > i /\ n \in Nat /\ \A k \in AllMarks : k \in Nat /\ (k > i => n <= k)
    BY <1>2, <2>1, <2>2
  <2> HIDE DEF n
  <2>4. IsNext(AllMarks, i, n)
    BY <1>2, <2>3 DEF IsNext
  <2> QED  BY <2>4 DEF n
<1>10. CASE B = {}
  <2>1. NextMark(i) \in AllMarks
    BY <1>4, <1>6, <1>8, <1>10
  <2>2. ASSUME NEW k \in AllMarks PROVE ~(k > i) /\ NextMark(i) <= k
    <3>1. PICK c \in C : (k > i => i < c /\ c <= k) /\ (c <= i => c <= k)
      BY <1>5
    <3>2. c \in Nat /\ k \in Nat /\ ~(c > i) /\ NextMark(i) <= c /\ NextMark(i) \in Nat
      BY <1>2, <1>4, <1>6, <1>8, <1>10, <2>1, <3>1
    <3> QED  BY <1>2, <3>1, <3>2
  <2> DEFINE n == NextMark(i)
  <2>3. n \in AllMarks /\ \A k \in AllMarks : ~(k > i) /\ n <= k
    BY <2>1, <2>2
  <2> HIDE DEF n
  <2>4. IsNext(AllMarks, i, n)
    BY <2>3 DEF IsNext
  <2> QED  BY <2>4 DEF n
<1> QED  BY <1>9, <1>10

LEMMA PrevMarkIs ==
  ASSUME IndInv, NEW i \in AllMarks
  PROVE  IsPrev(AllMarks, i, PrevMark(i))
<1> DEFINE Of(t) == LET before == {k \in Keys(marks[t]) : k < i} IN IF before # {} THEN Max(before) ELSE Max(Keys(marks[t]))
           C == {Of(t) : t \in Marked}
           B == {k \in C : k < i}
<1>1. PrevCandidates(i) = C
  BY DEF PrevCandidates, Marked
<1>2. i \in Nat /\ AllMarks \subseteq 0 .. size /\ size \in Nat /\ AllMarks \subseteq Nat
  BY AllMarked
<1>3. \A t \in Marked : IsPrev(Keys(marks[t]), i, Of(t))
  <2> TAKE t \in Marked
  <2>1. Keys(marks[t]) \in SUBSET (0 .. size) /\ Keys(marks[t]) # {}
    BY <1>2, AllMarked
  <2> QED  BY <1>2, <2>1, PrevOfEach
<1> HIDE DEF Of
<1>4. C \subseteq AllMarks /\ C # {} /\ C \in SUBSET (0 .. size)
  BY <1>2, <1>3, AllMarked DEF IsPrev
<1>5. \A k \in AllMarks : \E c \in C : (k < i => c < i /\ k <= c) /\ (c >= i => k <= c)
  <2> TAKE k \in AllMarks
  <2>1. PICK t \in Marked : k \in Keys(marks[t])
    BY AllMarked
  <2> QED  BY <1>3, <2>1 DEF IsPrev
<1>6. Max(C) \in C /\ \A c \in C : Max(C) >= c
  BY <1>2, <1>4, HasMax
<1>7. B # {} => Max(B) \in B /\ \A c \in B : Max(B) >= c
  <2>1. B \in SUBSET (0 .. size)
    BY <1>4
  <2> HIDE DEF B
  <2> QED  BY <1>2, <2>1, HasMax
<1>8. PrevMark(i) = IF B # {} THEN Max(B) ELSE Max(C)
  BY <1>1 DEF PrevMark
<1> HIDE DEF C
<1>9. CASE B # {}
  <2>1. PrevMark(i) \in AllMarks /\ PrevMark(i) < i
    BY <1>4, <1>7, <1>8, <1>9
  <2>2. ASSUME NEW k \in AllMarks, k < i PROVE PrevMark(i) >= k
    <3>1. PICK c \in B : k <= c
      BY <1>5, <2>2
    <3>2. PrevMark(i) >= c /\ PrevMark(i) \in Nat /\ c \in Nat /\ k \in Nat
      BY <1>2, <1>4, <1>7, <1>8, <1>9, <2>1, <3>1
    <3> QED  BY <3>1, <3>2
  <2> DEFINE n == PrevMark(i)
  <2>3. n \in AllMarks /\ n < i /\ n \in Nat /\ \A k \in AllMarks : k \in Nat /\ (k < i => k <= n)
    BY <1>2, <2>1, <2>2
  <2> HIDE DEF n
  <2>4. IsPrev(AllMarks, i, n)
    BY <1>2, <2>3 DEF IsPrev
  <2> QED  BY <2>4 DEF n
<1>10. CASE B = {}
  <2>1. PrevMark(i) \in AllMarks
    BY <1>4, <1>6, <1>8, <1>10
  <2>2. ASSUME NEW k \in AllMarks PROVE ~(k < i) /\ PrevMark(i) >= k
    <3>1. PICK c \in C : (k < i => c < i /\ k <= c) /\ (c >= i => k <= c)
      BY <1>5
    <3>2. c \in Nat /\ k \in Nat /\ ~(c < i) /\ PrevMark(i) >= c /\ PrevMark(i) \in Nat
      BY <1>2, <1>4, <1>6, <1>8, <1>10, <2>1, <3>1
    <3> QED  BY <1>2, <3>1, <3>2
  <2> DEFINE n == PrevMark(i)
  <2>3. n \in AllMarks /\ \A k \in AllMarks : ~(k < i) /\ k <= n
    BY <2>1, <2>2
  <2> HIDE DEF n
  <2>4. IsPrev(AllMarks, i, n)
    BY <2>3 DEF IsPrev
  <2> QED  BY <2>4 DEF n
<1> QED  BY <1>9, <1>10

-----------------------------------------------------------------------------
(* What the runs check, of any buffer.                                     *)

LEMMA Tour == ASSUME IndInv PROVE MarksTour
<1> SUFFICES ASSUME NEW i \in AllMarks
             PROVE  /\ PrevMark(NextMark(i)) = i /\ NextMark(PrevMark(i)) = i
                    /\ \A j \in AllMarks : ~(i < j /\ j < NextMark(i))
  BY DEF MarksTour, AllMarks
<1> DEFINE n == NextMark(i)  p == PrevMark(i)  np == NextMark(p)  pn == PrevMark(n)
<1>1. AllMarks \subseteq Nat
  BY AllMarked
<1>2. IsNext(AllMarks, i, n) /\ IsPrev(AllMarks, i, p)
  BY NextMarkIs, PrevMarkIs
<1>3. IsNext(AllMarks, p, np) /\ IsPrev(AllMarks, n, pn)
  <2>1. n \in AllMarks /\ p \in AllMarks
    BY <1>2 DEF IsNext, IsPrev
  <2> HIDE DEF n, p
  <2> QED  BY <2>1, NextMarkIs, PrevMarkIs
<1> HIDE DEF n, p, np, pn
<1>4. pn = i
  BY <1>1, <1>2, <1>3 DEF IsNext, IsPrev
<1>5. np = i
  BY <1>1, <1>2, <1>3 DEF IsNext, IsPrev
<1>6. \A j \in AllMarks : ~(i < j /\ j < n)
  BY <1>1, <1>2 DEF IsNext
<1> QED  BY <1>4, <1>5, <1>6 DEF n, p, np, pn

LEMMA Intact == ASSUME IndInv PROVE PairsIntact
<1>1. PairsIn(pairs, size, rank) /\ TypedAt(pairs, typed) /\ rank \in Nat /\ size \in Nat
  BY DEF IndInv
<1>2. \A i \in Keys(pairs) : pairs[i] \in Nat /\ i \in Nat
  BY <1>1 DEF PairsIn, Keys
<1>3. ASSUME NEW i \in Keys(pairs)
      PROVE  \E j \in Keys(pairs) : pairs[j] \div 2 = pairs[i] \div 2 /\ i # j /\ (IsFirst(i) <=> i < j)
  <2>1. PICK j \in Keys(pairs) : Mates(pairs[i], pairs[j])
    BY <1>1 DEF PairsIn, Keys
  <2>2. Mates(pairs[j], pairs[i]) /\ (pairs[i] % 2 = 0 <=> pairs[j] % 2 # 0)
    BY <1>2, <2>1, Halves
  <2>3. (pairs[i] % 2 = 0 => i < j) /\ (pairs[j] % 2 = 0 => j < i)
    BY <1>1, <2>1, <2>2 DEF PairsIn, Keys
  <2>4. pairs[i] % 2 = 0 <=> i < j
    BY <1>2, <2>2, <2>3
  <2>5. i # j
    BY <2>1 DEF Mates
  <2> QED  BY <2>1, <2>4, <2>5 DEF IsFirst, Mates
<1>4. \A i \in Keys(pairs) : typed[pairs[i]] = i + 1
  BY <1>1 DEF TypedAt, Keys
<1>5. ASSUME NEW i \in Keys(pairs), NEW j \in Keys(pairs), i < j, j < Counterpart(i)
      PROVE  i < Counterpart(j) /\ Counterpart(j) < Counterpart(i)
  <2>1. /\ Counterpart(i) \in DOMAIN pairs /\ Mates(pairs[i], pairs[Counterpart(i)])
        /\ Counterpart(j) \in DOMAIN pairs /\ Mates(pairs[j], pairs[Counterpart(j)])
    BY CounterpartIs DEF Keys
  <2> QED  BY <1>1, <1>5, <2>1 DEF PairsIn, Keys
<1> QED  BY <1>3, <1>4, <1>5 DEF PairsIntact

LEMMA Kept == ASSUME IndInv, GoneIsNoPlace PROVE OneIsKept
<1> SUFFICES ASSUME NEW from \in 0 .. size, NEW to \in 0 .. size, NEW n \in 0 .. 1, from < to, Edit(from, to, n),
                    NEW t \in MarkTypes
             PROVE  (marks[t] # NoKeys) = (marks'[t] # NoKeys)
  BY DEF OneIsKept
<1>1. Sound(Buffer, rank) /\ rank \in Nat /\ Buffer.size = size /\ Buffer.marks = marks
  BY BufferSound DEF Buffer
<1>2. from \in Nat /\ to \in 0 .. Buffer.size /\ from <= to /\ n \in Nat
  BY <1>1 DEF IndInv
<1>3. SameEmpty(Replaced(Buffer, from, to, n).marks, Buffer.marks)
  BY <1>1, <1>2, ReplacedSound DEF GoneIsNoPlace
<1>4. marks' = Replaced(Buffer, from, to, n).marks
  BY DEF Edit, Becomes
<1>5. DOMAIN marks'[t] = {} <=> DOMAIN marks[t] = {}
  BY <1>1, <1>3, <1>4 DEF SameEmpty
<1>6. MarksOf(marks[t], size) /\ MarksOf(marks'[t], size')
  <2>1. from <= to
    BY <1>2
  <2>2. IndInv'
    BY <2>1, EditSound
  <2> QED  BY <2>2 DEF IndInv, MarksIn
<1>7. (marks[t] = NoKeys <=> DOMAIN marks[t] = {}) /\ (marks'[t] = NoKeys <=> DOMAIN marks'[t] = {})
  BY <1>6, IsNoKeys, NoKeysFacts DEF MarksOf
<1> QED  BY <1>5, <1>7

\* However the text is edited, each mark is behind the character it was set
\* behind, for as long as the text has that character (marks_t::replace); next
\* and prev of marks_t are inverse to each other and pass no mark, of any number
\* of types; and however brackets are typed, typed over, deleted and edited
\* around, each half of a pair that pairs_t has is on the character it was added
\* for, in front of or behind its other half, and pairs never cross.
THEOREM MarksStay == Spec => []MarksStick
<1>0. GoneIsNoPlace
  BY ConstAssumption DEF GoneIsNoPlace
<1>1. IndInv => MarksFollow
  BY DEF IndInv, MarksIn, MarksOf, MarksFollow, Keys
<1>2. IndInv => MarksStick
  BY <1>1, Tour, Intact DEF MarksStick
<1> QED  BY <1>0, <1>2, InitInd, StepInd, PTL DEF Spec

\* Text that is replaced keeps one of its marks: no edit takes the last mark of a
\* type (marks_t::replace preserves one of them).
THEOREM NoEditLosesMarks == Spec => MarksKept
<1>0. GoneIsNoPlace
  BY ConstAssumption DEF GoneIsNoPlace
<1>1. IndInv /\ [Next]_vars => [OneIsKept]_vars
  BY <1>0, Kept
<1> QED  BY <1>0, <1>1, InitInd, StepInd, PTL DEF Spec, MarksKept

-----------------------------------------------------------------------------
(* Where the keys of a map and its values are after an edit.               *)

\* The states: what was at the begin of the edit stays, what was at its end goes.
StatesMoved(r, m, from, to, n) ==
  /\ r = [j \in DOMAIN r |-> r[j]] /\ DOMAIN r \subseteq Int
  /\ \A k \in Int : k \in DOMAIN r <=> (k <= from /\ k \in DOMAIN m) \/ (from + n < k /\ k - n + (to - from) \in DOMAIN m)
  /\ \A k \in DOMAIN r : k <= from => r[k] = m[k]
  /\ \A k \in DOMAIN r : from + n < k => r[k] = m[k - n + (to - from)]

LEMMA StatesMove ==
  ASSUME NEW m, DOMAIN m \subseteq Int, NEW from \in Nat, NEW to \in Nat, from <= to, NEW n \in Nat
  PROVE  StatesMoved(Replace(m, from, to, n, FALSE), m, from, to, n)
<1> DEFINE r == Replace(m, from, to, n, FALSE)
           kept == KeptKeys(m, from, to, FALSE)
           At(k) == KeyAfter(k, from, to, n, FALSE)
<1>1. r = [j \in DOMAIN r |-> r[j]] /\ DOMAIN r = {At(k) : k \in kept} /\ \A k \in kept : r[At(k)] = m[k]
  <2>1. HasMoved(r, m, from, to, n, FALSE)
    BY ReplaceMoves
  <2> HIDE DEF r
  <2> QED  BY <2>1 DEF HasMoved
<1> HIDE DEF r
<1>2. \A k \in Int : k \in kept <=> k \in DOMAIN m /\ (k <= from \/ to < k)
  BY DEF KeptKeys, IsReplaced
<1>3. \A k \in Int : At(k) = IF to < k THEN k + n - (to - from) ELSE k
  BY DEF KeyAfter
<1>4. kept \subseteq Int
  BY DEF KeptKeys
<1> HIDE DEF kept, At
<1>5. DOMAIN r \subseteq Int
  BY <1>1, <1>3, <1>4
<1>6. ASSUME NEW k \in Int, k \in DOMAIN r
      PROVE  \/ k <= from /\ k \in DOMAIN m /\ r[k] = m[k]
             \/ from + n < k /\ k - n + (to - from) \in DOMAIN m /\ r[k] = m[k - n + (to - from)]
  <2>1. PICK i \in kept : k = At(i) /\ r[k] = m[i]
    BY <1>1, <1>6
  <2>2. i \in Int /\ i \in DOMAIN m /\ (i <= from \/ to < i) /\ k = (IF to < i THEN i + n - (to - from) ELSE i)
    BY <1>2, <1>3, <1>4, <2>1
  <2>3. CASE to < i
    <3>1. i = k - n + (to - from) /\ from + n < k
      BY <2>2, <2>3
    <3> QED  BY <2>1, <2>2, <3>1
  <2>4. CASE ~(to < i)
    BY <2>1, <2>2, <2>4
  <2> QED  BY <2>3, <2>4
<1>7. ASSUME NEW k \in Int, k <= from, k \in DOMAIN m PROVE k \in DOMAIN r
  <2>1. k \in kept /\ At(k) = k
    BY <1>2, <1>3, <1>7
  <2> QED  BY <1>1, <2>1
<1>8. ASSUME NEW k \in Int, from + n < k, k - n + (to - from) \in DOMAIN m PROVE k \in DOMAIN r
  <2> DEFINE i == k - n + (to - from)
  <2>1. i \in Int /\ to < i /\ i + n - (to - from) = k
    BY <1>8
  <2>2. i \in DOMAIN m
    BY <1>8
  <2> HIDE DEF i
  <2>3. i \in kept /\ At(i) = k
    BY <1>2, <1>3, <2>1, <2>2
  <2> QED  BY <1>1, <2>3
<1>9. \A k \in Int : k \in DOMAIN r <=> (k <= from /\ k \in DOMAIN m) \/ (from + n < k /\ k - n + (to - from) \in DOMAIN m)
  BY <1>6, <1>7, <1>8
<1>10. ASSUME NEW k \in DOMAIN r PROVE (k <= from => r[k] = m[k]) /\ (from + n < k => r[k] = m[k - n + (to - from)])
  <2>1. k \in Int /\ n \in Nat
    BY <1>5
  <2> QED  BY <1>6, <2>1
<1> QED  BY <1>1, <1>5, <1>9, <1>10 DEF StatesMoved, r

\* The scopes: before the edit and behind the new text they are what they were.
ScopesMoved(r, m, from, to, n) ==
  /\ DOMAIN r \subseteq Int
  /\ \A k \in DOMAIN r : k < from \/ from + n < k \/ k \in from .. from + n
  /\ \A k \in Int : k < from => (k \in DOMAIN r <=> k \in DOMAIN m)
  /\ \A k \in Int : from + n < k => (k \in DOMAIN r <=> k - n + (to - from) \in DOMAIN m)
  /\ \A k \in DOMAIN r : k < from => r[k] = m[k]
  /\ \A k \in DOMAIN r : from + n < k => r[k] = m[k - n + (to - from)]

LEMMA ScopesMove ==
  ASSUME NEW m, DOMAIN m \subseteq Int, NEW from \in Nat, NEW to \in Nat, from <= to, NEW n \in Nat
  PROVE  ScopesMoved(ReplacePreserving(m, from, to, n, TRUE), m, from, to, n)
<1> DEFINE r == Replace(m, from, to, n, TRUE)
           p == ReplacePreserving(m, from, to, n, TRUE)
           kept == KeptKeys(m, from, to, TRUE)
           At(k) == KeyAfter(k, from, to, n, TRUE)
<1>1. DOMAIN r = {At(k) : k \in kept} /\ \A k \in kept : r[At(k)] = m[k]
  <2>1. HasMoved(r, m, from, to, n, TRUE)
    BY ReplaceMoves
  <2> HIDE DEF r
  <2> QED  BY <2>1 DEF HasMoved
<1>2. \A k \in Int : k \in kept <=> k \in DOMAIN m /\ (k < from \/ to <= k)
  BY DEF KeptKeys, IsReplaced
<1>3. \A k \in Int : At(k) = IF to <= k THEN k + n - (to - from) ELSE k
  BY DEF KeyAfter
<1>4. kept \subseteq Int
  BY DEF KeptKeys
<1>0. \/ p = r
      \/ \E v : p = Set(r, from + n, v)
  BY DEF ReplacePreserving
<1> HIDE DEF kept, At, r, p
<1>5. /\ DOMAIN p \subseteq DOMAIN r \cup {from + n} /\ DOMAIN r \subseteq DOMAIN p
      /\ \A k \in DOMAIN r : k # from + n => p[k] = r[k]
  BY <1>0 DEF Set
<1>6. ASSUME NEW k \in DOMAIN r
      PROVE  /\ k \in Int
             /\ \/ k < from /\ k \in DOMAIN m /\ r[k] = m[k]
                \/ from + n <= k /\ k - n + (to - from) \in DOMAIN m /\ r[k] = m[k - n + (to - from)]
  <2>1. PICK i \in kept : k = At(i) /\ r[k] = m[i]
    BY <1>1, <1>6
  <2>2. i \in Int /\ i \in DOMAIN m /\ (i < from \/ to <= i) /\ k = (IF to <= i THEN i + n - (to - from) ELSE i)
    BY <1>2, <1>3, <1>4, <2>1
  <2>3. CASE to <= i
    <3>1. i = k - n + (to - from) /\ from + n <= k /\ k \in Int
      BY <2>2, <2>3
    <3> QED  BY <2>1, <2>2, <3>1
  <2>4. CASE ~(to <= i)
    BY <2>1, <2>2, <2>4
  <2> QED  BY <2>3, <2>4
<1>7. ASSUME NEW k \in Int, k < from, k \in DOMAIN m PROVE k \in DOMAIN r
  <2>1. k \in kept /\ At(k) = k
    BY <1>2, <1>3, <1>7
  <2> QED  BY <1>1, <2>1
<1>8. ASSUME NEW k \in Int, from + n < k, k - n + (to - from) \in DOMAIN m PROVE k \in DOMAIN r
  <2> DEFINE i == k - n + (to - from)
  <2>1. i \in Int /\ to <= i /\ i + n - (to - from) = k
    BY <1>8
  <2>2. i \in DOMAIN m
    BY <1>8
  <2> HIDE DEF i
  <2>3. i \in kept /\ At(i) = k
    BY <1>2, <1>3, <2>1, <2>2
  <2> QED  BY <1>1, <2>3
<1>9. ASSUME NEW k \in DOMAIN p PROVE k \in Int /\ (k \in DOMAIN r \/ k = from + n) /\ (k # from + n => k \in DOMAIN r /\ p[k] = r[k])
  <2>1. k \in DOMAIN r \/ k = from + n
    BY <1>5
  <2> QED  BY <1>5, <1>6, <2>1
<1>10. DOMAIN p \subseteq Int
  BY <1>9
<1>11. ASSUME NEW k \in DOMAIN p PROVE k < from \/ from + n < k \/ k \in from .. from + n
  <2>1. k \in Int /\ (k \in DOMAIN r \/ k = from + n)
    BY <1>9
  <2> QED  BY <1>6, <2>1
<1>12. ASSUME NEW k \in Int, k < from PROVE k \in DOMAIN p <=> k \in DOMAIN m
  <2>1. k # from + n /\ ~(from + n <= k)
    BY <1>12
  <2> QED  BY <1>5, <1>6, <1>7, <1>9, <1>12, <2>1
<1>13. ASSUME NEW k \in Int, from + n < k PROVE k \in DOMAIN p <=> k - n + (to - from) \in DOMAIN m
  <2>1. k # from + n /\ ~(k < from)
    BY <1>13
  <2> QED  BY <1>5, <1>6, <1>8, <1>9, <1>13, <2>1
<1>14. ASSUME NEW k \in DOMAIN p, k < from PROVE p[k] = m[k]
  <2>1. k \in Int /\ k # from + n /\ ~(from + n <= k)
    BY <1>9, <1>14
  <2> QED  BY <1>6, <1>9, <2>1
<1>15. ASSUME NEW k \in DOMAIN p, from + n < k PROVE p[k] = m[k - n + (to - from)]
  <2>1. k \in Int /\ k # from + n /\ ~(k < from)
    BY <1>9, <1>15
  <2> QED  BY <1>6, <1>9, <2>1
<1> QED  BY <1>10, <1>11, <1>12, <1>13, <1>14, <1>15 DEF ScopesMoved, p

\* The last key at or before i; its value is the one that is found there.
LastKey(m, i, k) == k \in DOMAIN m /\ k <= i /\ \A j \in DOMAIN m : j <= i => j <= k

LEMMA ValueOf ==
  ASSUME NEW m, DOMAIN m \subseteq Int, NEW i \in Int, NEW k, LastKey(m, i, k)
  PROVE  ValueAt(m, i) = m[k]
<1> DEFINE S == {j \in DOMAIN m : j <= i}
<1>1. k \in S /\ S \subseteq Int /\ \A j \in S : j <= k
  BY DEF LastKey
<1> HIDE DEF S
<1>2. Max(S) \in S /\ \A j \in S : Max(S) >= j
  <2>1. \A j \in S : k >= j
    BY <1>1
  <2> QED  BY <1>1, <2>1 DEF Max
<1>3. Max(S) = k
  <2>1. Max(S) \in Int /\ k \in Int /\ Max(S) <= k /\ Max(S) >= k
    BY <1>1, <1>2
  <2> QED  BY <2>1
<1> QED  BY <1>3 DEF ValueAt, S

\* There is one if there is a key at or before i.
LEMMA LastKeyExists ==
  ASSUME NEW m, NEW a \in Int, DOMAIN m \subseteq Int, a \in DOMAIN m, NEW i \in Int, a <= i
  PROVE  \E k : LastKey(m, i, k) /\ a <= k
<1> DEFINE S == {d \in 0 .. i - a : i - d \in DOMAIN m}
<1>1. i - a \in S /\ S \in SUBSET Nat
  OBVIOUS
<1>2. Min(S) \in S /\ \A d \in S : Min(S) <= d
  <2> HIDE DEF S
  <2> QED  BY <1>1, HasMin
<1>3. PICK d \in 0 .. i - a : i - d \in DOMAIN m /\ \A e \in S : d <= e
  BY <1>2
<1>4. \A j \in DOMAIN m : j <= i => j <= i - d
  <2> SUFFICES ASSUME NEW j \in DOMAIN m, j <= i, ~(j <= i - d) PROVE FALSE
    OBVIOUS
  <2>1. i - j \in 0 .. i - a /\ i - (i - j) = j /\ i - j < d
    BY <1>3
  <2>2. i - j \in S
    BY <2>1
  <2> HIDE DEF S
  <2> QED  BY <1>3, <2>1, <2>2
<1>5. i - d <= i /\ a <= i - d
  BY <1>3
<1> QED  BY <1>3, <1>4, <1>5 DEF LastKey

\* Two maps are the same before a place.
SameBefore(r, m, f) ==
  \A k \in Int : k < f => (k \in DOMAIN r <=> k \in DOMAIN m) /\ (k \in DOMAIN r => r[k] = m[k])

\* From a key of both, r is m moved by d.
SameFrom(r, m, f, d) ==
  \A k \in Int : f <= k => (k + d \in DOMAIN r <=> k \in DOMAIN m) /\ (k + d \in DOMAIN r => r[k + d] = m[k])

LEMMA ValueBefore ==
  ASSUME NEW m, NEW r, DOMAIN m \subseteq Int, DOMAIN r \subseteq Int, NEW f \in Int, SameBefore(r, m, f),
         NEW a \in DOMAIN m, NEW i \in Int, a <= i, i < f
  PROVE  ValueAt(r, i) = ValueAt(m, i)
<1>1. PICK k : LastKey(m, i, k) /\ a <= k
  BY LastKeyExists
<1>2. k \in Int /\ k < f
  BY <1>1 DEF LastKey
<1>3. k \in DOMAIN r /\ r[k] = m[k]
  BY <1>1, <1>2 DEF LastKey, SameBefore
<1>4. \A j \in DOMAIN r : j <= i => j \in DOMAIN m
  BY DEF SameBefore
<1>5. LastKey(r, i, k)
  BY <1>1, <1>3, <1>4 DEF LastKey
<1> QED  BY <1>1, <1>3, <1>5, ValueOf

LEMMA ValueBehind ==
  ASSUME NEW m, NEW r, DOMAIN m \subseteq Int, DOMAIN r \subseteq Int, NEW f \in Int, NEW d \in Int, SameFrom(r, m, f, d),
         f \in DOMAIN m, NEW i \in Int, f <= i
  PROVE  ValueAt(r, i + d) = ValueAt(m, i)
<1>1. PICK k : LastKey(m, i, k) /\ f <= k
  BY LastKeyExists
<1>2. k \in Int /\ i + d \in Int /\ k + d <= i + d
  BY <1>1 DEF LastKey
<1>3. k + d \in DOMAIN r /\ r[k + d] = m[k]
  BY <1>1, <1>2 DEF LastKey, SameFrom
<1>4. ASSUME NEW j \in DOMAIN r, j <= i + d PROVE j <= k + d
  <2>1. j - d \in Int /\ (j - d) + d = j
    OBVIOUS
  <2>2. CASE j - d < f
    <3>1. j \in Int
      OBVIOUS
    <3>2. k \in Int /\ f <= k
      BY Zenon, <1>1, <1>2
    <3> QED  BY <2>2, <3>1, <3>2
  <2>3. CASE f <= j - d
    <3>1. j - d \in DOMAIN m
      BY <2>1, <2>3 DEF SameFrom
    <3>2. j - d <= k
      BY <1>1, <1>4, <3>1 DEF LastKey
    <3> QED  BY <1>2, <3>2
  <2> QED  BY <2>1, <2>2, <2>3
<1>5. LastKey(r, i + d, k + d)
  BY <1>2, <1>3, <1>4 DEF LastKey
<1> QED  BY <1>1, <1>2, <1>3, <1>5, ValueOf

-----------------------------------------------------------------------------
(* Lines.                                                                  *)

\* A line begins at f; no line begins behind f up to k.
Start(t, f)      == f \in 0 .. Len(t) /\ (f = 0 \/ t[f] = Newline)
OneLine(t, f, k) == f <= k /\ \A j \in f + 1 .. k : t[j] # Newline

LEMMA NewlinesFacts ==
  ASSUME NEW S, NEW t \in Seq(S)
  PROVE  /\ Newlines(t) \subseteq 0 .. Len(t) - 1
         /\ \A j \in 1 .. Len(t) : t[j] = Newline <=> j - 1 \in Newlines(t)
<1>1. Len(t) \in Nat
  OBVIOUS
<1>2. ASSUME NEW j \in 1 .. Len(t) PROVE t[j] = Newline <=> j - 1 \in Newlines(t)
  <2>1. j - 1 \in 0 .. Len(t) - 1 /\ (j - 1) + 1 = j
    BY <1>1
  <2> QED  BY <2>1 DEF Newlines
<1> QED  BY <1>2 DEF Newlines

LEMMA BeginFacts ==
  ASSUME NEW S, NEW t \in Seq(S), NEW i \in 0 .. Len(t)
  PROVE  Start(t, BeginOf(t, i)) /\ OneLine(t, BeginOf(t, i), i)
<1> DEFINE B == {0} \cup {k + 1 : k \in {n \in Newlines(t) : n < i}}  b == BeginOf(t, i)
<1>1. Len(t) \in Nat
  OBVIOUS
<1>2. /\ Newlines(t) \subseteq 0 .. Len(t) - 1
      /\ \A j \in 1 .. Len(t) : t[j] = Newline <=> j - 1 \in Newlines(t)
  BY NewlinesFacts
<1>3. B \in SUBSET (0 .. i) /\ 0 \in B
  <2>1. \A k \in Newlines(t) : k < i => k + 1 \in 0 .. i
    BY <1>1, <1>2
  <2> QED  BY <1>1, <2>1
<1>4. b = Max(B)
  BY DEF BeginOf
<1> HIDE DEF b
<1>5. b \in B /\ \A k \in B : b >= k
  <2>1. i \in Nat /\ B # {}
    BY <1>1, <1>3
  <2> HIDE DEF B
  <2> QED  BY <1>3, <1>4, <2>1, HasMax
<1>6. \A j \in 1 .. i : t[j] = Newline => j \in B
  <2> SUFFICES ASSUME NEW j \in 1 .. i, t[j] = Newline PROVE j \in B
    OBVIOUS
  <2>1. j \in 1 .. Len(t) /\ j - 1 < i /\ (j - 1) + 1 = j
    BY <1>1
  <2>2. j - 1 \in Newlines(t)
    BY <1>2, <2>1
  <2> QED  BY <2>1, <2>2
<1>7. b = 0 \/ t[b] = Newline
  <2>1. CASE b # 0
    <3>1. PICK k \in Newlines(t) : b = k + 1
      BY <1>5, <2>1
    <3>2. k + 1 \in 1 .. Len(t) /\ (k + 1) - 1 = k
      BY <1>1, <1>2
    <3> QED  BY <1>2, <3>1, <3>2
  <2> QED  BY <2>1
<1>8. b \in 0 .. i
  BY <1>3, <1>5
<1>9. ASSUME NEW j \in b + 1 .. i, t[j] = Newline PROVE FALSE
  <2>1. j \in 1 .. i /\ ~(b >= j)
    BY <1>1, <1>8
  <2> HIDE DEF B
  <2> QED  BY <1>5, <1>6, <1>9, <2>1
<1>10. b \in 0 .. Len(t) /\ b <= i
  BY <1>1, <1>8
<1> QED  BY <1>7, <1>9, <1>10 DEF Start, OneLine, b

\* There is one line that a position is on.
LEMMA BeginIs ==
  ASSUME NEW S, NEW t \in Seq(S), NEW i \in 0 .. Len(t), NEW f, Start(t, f), OneLine(t, f, i)
  PROVE  BeginOf(t, i) = f
<1> DEFINE b == BeginOf(t, i)
<1>1. Start(t, b) /\ OneLine(t, b, i)
  BY BeginFacts
<1> HIDE DEF b
<1>2. b \in Nat /\ f \in Nat /\ i \in Nat /\ b <= i /\ f <= i
  BY <1>1 DEF Start, OneLine
<1>3. ~(b < f)
  <2> SUFFICES ASSUME b < f PROVE FALSE
    OBVIOUS
  <2>1. f \in b + 1 .. i /\ f # 0
    BY <1>2
  <2> QED  BY <1>1, <2>1 DEF Start, OneLine
<1>4. ~(f < b)
  <2> SUFFICES ASSUME f < b PROVE FALSE
    OBVIOUS
  <2>1. b \in f + 1 .. i /\ b # 0
    BY <1>2
  <2> QED  BY <1>1, <2>1 DEF Start, OneLine
<1> QED  BY <1>2, <1>3, <1>4 DEF b

\* A line ends behind its newline, or at the end of the text.
LEMMA EndFacts ==
  ASSUME NEW S, NEW t \in Seq(S), NEW f \in 0 .. Len(t)
  PROVE  LET e == EndOf(t, f) IN
         /\ e \in f .. Len(t)
         /\ AtEOF(t, f) => e = Len(t) /\ OneLine(t, f, e)
         /\ ~AtEOF(t, f) => f < e /\ t[e] = Newline /\ OneLine(t, f, e - 1)
<1> DEFINE E == {Len(t)} \cup {k + 1 : k \in {n \in Newlines(t) : n >= f}}  e == EndOf(t, f)
<1>1. Len(t) \in Nat
  OBVIOUS
<1>2. /\ Newlines(t) \subseteq 0 .. Len(t) - 1
      /\ \A j \in 1 .. Len(t) : t[j] = Newline <=> j - 1 \in Newlines(t)
  BY NewlinesFacts
<1>3. E \in SUBSET (f .. Len(t)) /\ Len(t) \in E
  <2>1. \A k \in Newlines(t) : k >= f => k + 1 \in f .. Len(t)
    BY <1>1, <1>2
  <2> QED  BY <1>1, <2>1
<1>4. e = Min(E)
  BY DEF EndOf
<1> HIDE DEF e
<1>5. e \in E /\ (\A k \in E : e <= k) /\ e \in f .. Len(t)
  <2>1. E \in SUBSET Nat
    BY <1>1, <1>3
  <2> HIDE DEF E
  <2> QED  BY <1>3, <1>4, <2>1, HasMin
<1>6. \A j \in f + 1 .. Len(t) : t[j] = Newline => j \in E /\ ~AtEOF(t, f)
  <2> SUFFICES ASSUME NEW j \in f + 1 .. Len(t), t[j] = Newline PROVE j \in E /\ ~AtEOF(t, f)
    OBVIOUS
  <2>1. j \in 1 .. Len(t) /\ j - 1 >= f /\ (j - 1) + 1 = j
    BY <1>1
  <2>2. j - 1 \in Newlines(t)
    BY <1>2, <2>1
  <2> QED  BY <2>1, <2>2 DEF AtEOF
<1>7. ASSUME NEW j \in f + 1 .. e - 1, t[j] = Newline PROVE FALSE
  <2>1. j \in f + 1 .. Len(t) /\ ~(e <= j)
    BY <1>1, <1>5
  <2> HIDE DEF E
  <2> QED  BY <1>5, <1>6, <1>7, <2>1
<1>8. ASSUME AtEOF(t, f) PROVE e = Len(t) /\ OneLine(t, f, e)
  <2>1. e = Len(t)
    BY <1>5, <1>8 DEF AtEOF
  <2> HIDE DEF E
  <2> QED  BY <1>5, <1>6, <1>8, <2>1 DEF OneLine
<1>9. ASSUME ~AtEOF(t, f) PROVE f < e /\ t[e] = Newline /\ OneLine(t, f, e - 1)
  <2>1. PICK n \in Newlines(t) : n >= f
    BY <1>9 DEF AtEOF
  <2>2. n + 1 \in E /\ n + 1 <= Len(t)
    BY <1>1, <1>2, <2>1
  <2>3. \A k \in Newlines(t) : k >= f => t[k + 1] = Newline /\ f < k + 1
    <3> SUFFICES ASSUME NEW k \in Newlines(t), k >= f PROVE t[k + 1] = Newline /\ f < k + 1
      OBVIOUS
    <3>1. k + 1 \in 1 .. Len(t) /\ (k + 1) - 1 = k /\ f < k + 1
      BY <1>1, <1>2
    <3> QED  BY <1>2, <3>1
  <2>4. e <= n + 1
    <3> HIDE DEF E
    <3> QED  BY <1>5, <2>2
  <2>5. \E k \in Newlines(t) : k >= f /\ e = k + 1
    <3>1. CASE e = Len(t)
      <4>1. n + 1 = e
        BY <1>1, <1>2, <2>2, <2>4, <3>1
      <4> QED  BY <2>1, <4>1
    <3>2. CASE e # Len(t)
      BY <1>5, <3>2
    <3> QED  BY <3>1, <3>2
  <2>6. t[e] = Newline /\ f < e
    BY <2>3, <2>5
  <2>7. f <= e - 1
    BY <1>5, <2>6
  <2> HIDE DEF E
  <2> QED  BY <1>7, <2>6, <2>7 DEF OneLine
<1> QED  BY <1>5, <1>8, <1>9 DEF e

\* What is on the line that begins at f.
LEMMA OnLine ==
  ASSUME NEW S, NEW t \in Seq(S), NEW f \in 0 .. Len(t), NEW k \in 0 .. Len(t)
  PROVE  OneLine(t, f, k) <=> f <= k /\ (AtEOF(t, f) \/ k < EndOf(t, f))
<1> DEFINE e == EndOf(t, f)
<1>1. /\ e \in f .. Len(t)
      /\ AtEOF(t, f) => e = Len(t) /\ OneLine(t, f, e)
      /\ ~AtEOF(t, f) => f < e /\ t[e] = Newline /\ OneLine(t, f, e - 1)
  BY EndFacts
<1> HIDE DEF e
<1>2. Len(t) \in Nat /\ f \in Nat /\ k \in Nat /\ e \in Nat /\ k <= Len(t)
  BY <1>1
<1>3. CASE AtEOF(t, f)
  <2>1. \A j \in f + 1 .. k : j \in f + 1 .. e
    BY <1>1, <1>2, <1>3
  <2>2. \A j \in f + 1 .. k : t[j] # Newline
    BY <1>1, <1>3, <2>1 DEF OneLine
  <2> QED  BY <1>3, <2>2 DEF OneLine
<1>4. CASE ~AtEOF(t, f) /\ k < e
  <2>1. \A j \in f + 1 .. k : j \in f + 1 .. e - 1
    BY <1>2, <1>4
  <2>2. \A j \in f + 1 .. k : t[j] # Newline
    BY <1>1, <1>4, <2>1 DEF OneLine
  <2> QED  BY <1>4, <2>2 DEF OneLine, e
<1>5. CASE ~AtEOF(t, f) /\ ~(k < e)
  <2>1. e \in f + 1 .. k /\ t[e] = Newline
    BY <1>1, <1>2, <1>5
  <2>2. ~OneLine(t, f, k)
    BY <2>1 DEF OneLine
  <2> QED  BY <1>5, <2>2 DEF e
<1> QED  BY <1>3, <1>4, <1>5 DEF e

-----------------------------------------------------------------------------
(* The parse of a line.                                                    *)

Flip(c, g, x) == IF c = g THEN ~x ELSE x
Here(g, x, c) == Scope(g, x \/ c = g)

Quotes(q, n, line, g, s) == q = [i \in 0 .. n |-> IF i = 0 THEN s ELSE Flip(line[i], g, q[i - 1])]

LEMMA QuotesExist ==
  ASSUME NEW n \in Nat, NEW line, NEW g, NEW s
  PROVE  \E q : Quotes(q, n, line, g, s)
<1> DEFINE Bad == {k \in Nat : ~ \E q : Quotes(q, k, line, g, s)}
<1> SUFFICES ASSUME Bad # {} PROVE FALSE
  OBVIOUS
<1>1. PICK m \in Bad : \A k \in Bad : m <= k
  <2>1. Bad \in SUBSET Nat
    OBVIOUS
  <2> HIDE DEF Bad
  <2> QED  BY <2>1, HasMin
<1>2. CASE m = 0
  <2>1. Quotes([i \in 0 .. 0 |-> s], 0, line, g, s)
    BY DEF Quotes
  <2> QED  BY <1>2, <2>1
<1>3. CASE m # 0
  <2>1. m - 1 \in Nat /\ m - 1 \notin Bad /\ m \in Nat
    BY <1>1, <1>3
  <2>2. PICK f : Quotes(f, m - 1, line, g, s)
    BY <2>1
  <2> DEFINE h == [i \in 0 .. m |-> IF i < m THEN f[i] ELSE Flip(line[m], g, f[m - 1])]
  <2>3. ASSUME NEW i \in 0 .. m PROVE h[i] = IF i = 0 THEN s ELSE Flip(line[i], g, h[i - 1])
    <3>1. CASE i < m
      <4>1. i \in 0 .. m - 1
        BY <2>1, <3>1
      <4>2. f[i] = IF i = 0 THEN s ELSE Flip(line[i], g, f[i - 1])
        BY <2>2, <4>1 DEF Quotes
      <4>3. h[i] = f[i] /\ (i # 0 => h[i - 1] = f[i - 1])
        BY <2>1, <3>1
      <4> HIDE DEF h
      <4> QED  BY <4>2, <4>3
    <3>2. CASE i = m
      <4>1. m \in 0 .. m /\ m - 1 \in 0 .. m /\ ~(m < m) /\ m - 1 < m
        BY <1>3, <2>1
      <4>2. h[m] = Flip(line[m], g, f[m - 1]) /\ h[m - 1] = f[m - 1]
        BY <4>1
      <4> HIDE DEF h
      <4> QED  BY <1>3, <3>2, <4>2
    <3> HIDE DEF h
    <3> QED  BY <2>1, <3>1, <3>2
  <2>4. Quotes(h, m, line, g, s)
    <3>1. h = [i \in 0 .. m |-> h[i]]
      OBVIOUS
    <3> HIDE DEF h
    <3> QED  BY <2>3, <3>1 DEF Quotes
  <2> QED  BY <2>4
<1> QED  BY <1>2, <1>3

\* The state before the line, and what each character makes of it.
LEMMA QuotedFacts ==
  ASSUME NEW line, Len(line) \in Nat, NEW g, NEW s
  PROVE  /\ Quoted(line, g, s)[0] = s
         /\ \A i \in 0 .. Len(line) - 1 : Quoted(line, g, s)[i + 1] = Flip(line[i + 1], g, Quoted(line, g, s)[i])
<1> DEFINE q == CHOOSE f : f = [i \in 0 .. Len(line) |-> IF i = 0 THEN s ELSE IF line[i] = g THEN ~f[i - 1] ELSE f[i - 1]]
<1>1. Quoted(line, g, s) = q
  BY DEF Quoted
<1>2. q = CHOOSE f : Quotes(f, Len(line), line, g, s)
  BY DEF Quotes, Flip
<1> HIDE DEF q
<1>3. Quotes(q, Len(line), line, g, s)
  BY <1>2, QuotesExist
<1>4. \A i \in 0 .. Len(line) : q[i] = IF i = 0 THEN s ELSE Flip(line[i], g, q[i - 1])
  BY <1>3 DEF Quotes
<1>5. ASSUME NEW i \in 0 .. Len(line) - 1 PROVE q[i + 1] = Flip(line[i + 1], g, q[i])
  <2>1. i + 1 \in 0 .. Len(line) /\ i + 1 # 0 /\ (i + 1) - 1 = i
    OBVIOUS
  <2> QED  BY <1>4, <2>1
<1>6. q[0] = s
  <2>1. 0 \in 0 .. Len(line)
    OBVIOUS
  <2> QED  BY <1>4, <2>1
<1> QED  BY <1>1, <1>5, <1>6

\* The scopes of a line, of which the parser says only where they change.
LEMMA LineScopesFacts ==
  ASSUME NEW line, Len(line) \in Nat, NEW g, NEW s
  PROVE  /\ DOMAIN LineScopes(line, g, s) \subseteq 0 .. Len(line) /\ 0 \in DOMAIN LineScopes(line, g, s)
         /\ \A i \in 0 .. Len(line) - 1 : \E k :
              LastKey(LineScopes(line, g, s), i, k) /\ LineScopes(line, g, s)[k] = Here(g, Quoted(line, g, s)[i], line[i + 1])
<1> DEFINE n == Len(line)
           q == Quoted(line, g, s)
           H(i) == q[i] \/ (i < n /\ line[i + 1] = g)
           D == {0} \cup {j \in 1 .. n : H(j) # H(j - 1)}
           m == LineScopes(line, g, s)
<1>1. m = [i \in D |-> Scope(g, H(i))]
  BY DEF LineScopes
<1>2. D \subseteq 0 .. n /\ 0 \in D
  OBVIOUS
<1>3. \A j \in 1 .. n : j \notin D => H(j) = H(j - 1)
  OBVIOUS
<1>4. \A i \in 0 .. n - 1 : Scope(g, H(i)) = Here(g, q[i], line[i + 1])
  BY DEF Here
<1> HIDE DEF q, D, m, n, H
<1>5. ASSUME NEW i \in 0 .. n - 1 PROVE \E k : LastKey(m, i, k) /\ m[k] = Scope(g, H(i))
  <2>1. n \in Nat /\ DOMAIN m = D /\ D \subseteq Int /\ 0 <= i /\ i \in Int /\ 0 \in Int
    BY <1>1, <1>2 DEF n
  <2>2. PICK k : LastKey(m, i, k) /\ 0 <= k
    <3>1. DOMAIN m \subseteq Int /\ 0 \in DOMAIN m
      BY <1>2, <2>1
    <3> QED  BY <2>1, <3>1, LastKeyExists
  <2>3. k \in D /\ k \in Nat /\ k <= i /\ \A j \in D : j <= i => j <= k
    <3>1. k \in D /\ k <= i /\ \A j \in D : j <= i => j <= k
      BY <2>1, <2>2 DEF LastKey
    <3> QED  BY <1>2, <3>1
  <2> DEFINE Bad == {j \in Nat : k <= j /\ j <= i /\ H(j) # H(k)}
  <2>4. Bad = {}
    <3> SUFFICES ASSUME Bad # {} PROVE FALSE
      OBVIOUS
    <3>1. PICK j \in Bad : \A x \in Bad : j <= x
      <4>1. Bad \in SUBSET Nat
        OBVIOUS
      <4> HIDE DEF Bad
      <4> QED  BY <4>1, HasMin
    <3>2. j \in Nat /\ k < j /\ j <= i /\ H(j) # H(k)
      <4>1. j \in Nat /\ k <= j /\ j <= i /\ H(j) # H(k)
        BY <3>1
      <4>2. j # k
        BY <4>1
      <4> QED  BY <2>3, <4>1, <4>2
    <3>3. j - 1 \in Nat /\ k <= j - 1 /\ j - 1 <= i /\ ~(j <= j - 1)
      BY <2>3, <3>2
    <3>4. H(j - 1) = H(k)
      BY <3>1, <3>3
    <3>5. j \in 1 .. n /\ ~(j <= k)
      BY <2>1, <2>3, <3>2
    <3>6. H(j) = H(j - 1)
      BY <1>3, <2>3, <3>2, <3>5
    <3> QED  BY <3>2, <3>4, <3>6
  <2>5. H(i) = H(k)
    <3>1. i \in Nat
      OBVIOUS
    <3> QED  BY <2>3, <2>4, <3>1
  <2>6. m[k] = Scope(g, H(k))
    BY <1>1, <2>3
  <2> QED  BY <2>2, <2>5, <2>6
<1>6. DOMAIN m = D
  BY <1>1
<1> QED  BY <1>2, <1>4, <1>5, <1>6 DEF q, m, n

-----------------------------------------------------------------------------
(* What is known of the lines that are not dirty.                          *)

Clean(t, dirty, f) == \A k \in DOMAIN dirty : ~OneLine(t, f, k)
Known(states, f)   == f = 0 \/ f \in DOMAIN states
StateOf(states, f) == IF f = 0 THEN FALSE ELSE states[f]

\* The scope of a character and the state behind it, from the state before it.
Follows(q, t, g, scopes, states, i) ==
  /\ q[i + 1] = Flip(t[i + 1], g, q[i]) /\ ValueAt(scopes, i) = Here(g, q[i], t[i + 1])
  /\ t[i + 1] = Newline => i + 1 \in DOMAIN states /\ states[i + 1] = q[i + 1]

\* The line at f has the scopes of its parse, from the state that it begins with,
\* and the line behind it begins with the state of that parse.
Reads(q, t, g, scopes, states, f) ==
  \A i \in f .. Len(t) - 1 : OneLine(t, f, i) => Follows(q, t, g, scopes, states, i)
LineRead(t, g, scopes, states, f) ==
  f \in DOMAIN scopes /\ \E q : q[f] = StateOf(states, f) /\ Reads(q, t, g, scopes, states, f)
LinesRead(t, g, dirty, scopes, states) ==
  \A f : Start(t, f) /\ Clean(t, dirty, f) /\ Known(states, f) => LineRead(t, g, scopes, states, f)

MapsIn(n, dirty, scopes, states) ==
  /\ dirty = [k \in DOMAIN dirty |-> dirty[k]] /\ DOMAIN dirty \subseteq 0 .. n
  /\ DOMAIN scopes \subseteq -1 .. n
  /\ DOMAIN states \subseteq -1 .. n /\ -1 \in DOMAIN states /\ states[-1] = FALSE

\* A buffer has these members.
IsBuffer(b) ==
  b = [text |-> b.text, revision |-> b.revision, next |-> b.next, grammar |-> b.grammar, dirty |-> b.dirty,
       scopes |-> b.scopes, states |-> b.states, seen |-> b.seen, request |-> b.request]

BufferRead(b) ==
  /\ IsBuffer(b) /\ b.text \in Seq(TextChars)
  /\ MapsIn(Len(b.text), b.dirty, b.scopes, b.states)
  /\ LinesRead(b.text, b.grammar, b.dirty, b.scopes, b.states)

-----------------------------------------------------------------------------
(* The result of a parse in the maps.                                      *)

Cleared(m, eof, from, to)    == IF eof THEN RemoveFrom(m, from) ELSE RemoveRange(m, from, to)
ScopesWith(m, eof, from, to, ls) ==
  SetAll(Cleared(m, eof, from, to), [j \in {from + k : k \in {i \in DOMAIN ls : eof \/ from + i < to}} |-> ls[j - from]])

LEMMA ClearedFacts ==
  ASSUME NEW m, NEW eof \in BOOLEAN, NEW from, NEW to
  PROVE  /\ Cleared(m, eof, from, to) = [k \in DOMAIN Cleared(m, eof, from, to) |-> Cleared(m, eof, from, to)[k]]
         /\ \A k : k \in DOMAIN Cleared(m, eof, from, to) <=> k \in DOMAIN m /\ ~(from <= k /\ (eof \/ k < to))
         /\ \A k \in DOMAIN Cleared(m, eof, from, to) : Cleared(m, eof, from, to)[k] = m[k]
BY DEF Cleared, RemoveFrom, RemoveRange, Without, Restrict

LEMMA ScopesWithFacts ==
  ASSUME NEW m, DOMAIN m \subseteq Int, NEW eof \in BOOLEAN, NEW from \in Nat, NEW to \in Nat, from <= to,
         NEW ls, DOMAIN ls \subseteq 0 .. to - from
  PROVE  LET r == ScopesWith(m, eof, from, to, ls) IN
         /\ DOMAIN r \subseteq DOMAIN m \cup from .. to
         /\ SameBefore(r, m, from)
         /\ ~eof => SameFrom(r, m, to, 0)
         /\ \A k \in Int : from <= k /\ (eof \/ k < to) =>
              (k \in DOMAIN r <=> k - from \in DOMAIN ls) /\ (k \in DOMAIN r => r[k] = ls[k - from])
<1> DEFINE r == ScopesWith(m, eof, from, to, ls)
           N == {from + k : k \in {i \in DOMAIN ls : eof \/ from + i < to}}
           c == Cleared(m, eof, from, to)
<1>1. /\ DOMAIN r = N \cup DOMAIN c
      /\ \A k \in N : r[k] = ls[k - from]
      /\ \A k \in DOMAIN c : k \notin N => r[k] = c[k]
  BY DEF ScopesWith, SetAll
<1>2. /\ \A k : k \in DOMAIN c <=> k \in DOMAIN m /\ ~(from <= k /\ (eof \/ k < to))
      /\ \A k \in DOMAIN c : c[k] = m[k]
  BY ClearedFacts
<1>3. ASSUME NEW k \in Int PROVE k \in N <=> k - from \in DOMAIN ls /\ (eof \/ k < to)
  <2>1. k \in N => k - from \in DOMAIN ls /\ (eof \/ k < to)
    <3> SUFFICES ASSUME NEW i \in DOMAIN ls, eof \/ from + i < to, k = from + i PROVE k - from \in DOMAIN ls /\ (eof \/ k < to)
      OBVIOUS
    <3>1. i \in Int /\ k - from = i
      OBVIOUS
    <3> QED  BY <3>1
  <2>2. from + (k - from) = k
    OBVIOUS
  <2> QED  BY <2>1, <2>2
<1>4. \A k \in N : k \in from .. to
  <2> SUFFICES ASSUME NEW i \in DOMAIN ls PROVE from + i \in from .. to
    OBVIOUS
  <2>1. i \in 0 .. to - from
    OBVIOUS
  <2> QED  BY <2>1
<1> HIDE DEF r, N, c
<1>5. DOMAIN r \subseteq DOMAIN m \cup from .. to
  BY <1>1, <1>2, <1>4
<1>6. ASSUME NEW k \in Int, k < from \/ (~eof /\ to <= k)
      PROVE  (k \in DOMAIN r <=> k \in DOMAIN m) /\ (k \in DOMAIN r => r[k] = m[k])
  <2>1. k \notin N
    <3>1. CASE k < from
      BY <1>4, <3>1
    <3>2. CASE ~eof /\ to <= k
      <4>1. ~(k < to)
        BY <3>2
      <4> QED  BY <1>3, <3>2, <4>1
    <3> QED  BY <1>6, <3>1, <3>2
  <2>2. ~(from <= k /\ (eof \/ k < to))
    BY <1>6
  <2>3. k \in DOMAIN c <=> k \in DOMAIN m
    BY <1>2, <2>2
  <2> QED  BY <1>1, <1>2, <2>1, <2>3
<1>7. ASSUME NEW k \in Int, from <= k, eof \/ k < to
      PROVE  (k \in DOMAIN r <=> k - from \in DOMAIN ls) /\ (k \in DOMAIN r => r[k] = ls[k - from])
  <2>1. k \notin DOMAIN c
    BY <1>2, <1>7
  <2>2. k \in N <=> k - from \in DOMAIN ls
    BY <1>3, <1>7
  <2> QED  BY <1>1, <2>1, <2>2
<1>8. SameBefore(r, m, from)
  BY <1>6 DEF SameBefore
<1>9. ASSUME ~eof PROVE SameFrom(r, m, to, 0)
  <2>1. \A k \in Int : k + 0 = k
    OBVIOUS
  <2> QED  BY <1>6, <1>9, <2>1 DEF SameFrom
<1> QED  BY <1>5, <1>7, <1>8, <1>9 DEF r

\* The maps after that parse.
ParsedMaps(t, from, to, ls, st, d, m, a, dd, mm, aa) ==
  LET eof == AtEOF(t, from)
      changed == to \notin DOMAIN a \/ a[to] # st
  IN /\ mm = ScopesWith(m, eof, from, to, ls)
     /\ aa = IF changed THEN Set(a, to, st) ELSE a
     /\ dd = IF changed /\ ~eof THEN Set(Cleared(d, eof, from, to), to, TRUE) ELSE Cleared(d, eof, from, to)

LEMMA ParsedFields ==
  ASSUME NEW b, IsBuffer(b), NEW from, NEW to, NEW ls, NEW st
  PROVE  LET r == ParsedLine(b, from, to, ls, st) IN
         /\ IsBuffer(r)
         /\ r.text = b.text /\ r.grammar = b.grammar /\ r.revision = b.revision /\ r.next = b.next /\ r.seen = b.seen
         /\ r.request = NoRequest
         /\ ParsedMaps(b.text, from, to, ls, st, b.dirty, b.scopes, b.states, r.dirty, r.scopes, r.states)
<1> DEFINE eof == AtEOF(b.text, from)
           changed == to \notin DOMAIN b.states \/ b.states[to] # st
           sc == ScopesWith(b.scopes, eof, from, to, ls)
           sa == IF changed THEN Set(b.states, to, st) ELSE b.states
           di == IF changed /\ ~eof THEN Set(Cleared(b.dirty, eof, from, to), to, TRUE) ELSE Cleared(b.dirty, eof, from, to)
           r  == ParsedLine(b, from, to, ls, st)
<1>1. r = [b EXCEPT !.scopes = sc, !.states = sa, !.dirty = di, !.request = NoRequest]
  BY DEF ParsedLine, ScopesWith, Cleared
<1> HIDE DEF sc, sa, di, r
<1>2. r = [text |-> b.text, revision |-> b.revision, next |-> b.next, grammar |-> b.grammar, dirty |-> di,
           scopes |-> sc, states |-> sa, seen |-> b.seen, request |-> NoRequest]
  BY <1>1 DEF IsBuffer
<1>3. /\ IsBuffer(r)
      /\ r.text = b.text /\ r.grammar = b.grammar /\ r.revision = b.revision /\ r.next = b.next /\ r.seen = b.seen
      /\ r.request = NoRequest /\ r.scopes = sc /\ r.states = sa /\ r.dirty = di
  BY <1>2 DEF IsBuffer
<1>4. ParsedMaps(b.text, from, to, ls, st, b.dirty, b.scopes, b.states, di, sc, sa)
  BY DEF ParsedMaps, sc, sa, di
<1> QED  BY <1>3, <1>4 DEF r

\* What a parse of the line at `from' says, that begins with state s.
ParseOf(t, g, from, to, s, ls, st) ==
  /\ to = EndOf(t, from)
  /\ ls = LineScopes(Substr(t, from, to), g, s) /\ st = LineState(Substr(t, from, to), g, s)

ParseRange(t, from, to, ls) == to \in from .. Len(t) /\ DOMAIN ls \subseteq 0 .. to - from /\ 0 \in DOMAIN ls
Parses(q, t, g, from, to, s, ls, st) ==
  /\ q[from] = s /\ q[to] = st
  /\ \A i \in from .. to - 1 : q[i + 1] = Flip(t[i + 1], g, q[i])
  /\ \A i \in from .. to - 1 : \E k : LastKey(ls, i - from, k) /\ ls[k] = Here(g, q[i], t[i + 1])

LEMMA ParseFacts ==
  ASSUME NEW S, NEW t \in Seq(S), NEW g, NEW from \in 0 .. Len(t), NEW to, NEW s, NEW ls, NEW st, ParseOf(t, g, from, to, s, ls, st)
  PROVE  ParseRange(t, from, to, ls) /\ \E q : Parses(q, t, g, from, to, s, ls, st)
<1> DEFINE line == Substr(t, from, to)  q == Quoted(line, g, s)  p == [i \in from .. to |-> q[i - from]]
<1>1. to \in from .. Len(t) /\ to \in Nat /\ from \in Nat /\ Len(t) \in Nat /\ from <= to /\ to <= Len(t)
  BY EndFacts DEF ParseOf
<1>2. Len(line) = to - from /\ \A i \in 1 .. to - from : line[i] = t[from + i]
  BY <1>1, SubstrFacts
<1>3. ls = LineScopes(line, g, s) /\ st = q[Len(line)]
  BY DEF ParseOf, LineState
<1> HIDE DEF line, q
<1>4. Len(line) \in Nat
  BY <1>1, <1>2
<1>5. q[0] = s /\ \A i \in 0 .. Len(line) - 1 : q[i + 1] = Flip(line[i + 1], g, q[i])
  BY <1>4, QuotedFacts DEF q
<1>6. /\ DOMAIN ls \subseteq 0 .. Len(line) /\ 0 \in DOMAIN ls
      /\ \A i \in 0 .. Len(line) - 1 : \E k : LastKey(ls, i, k) /\ ls[k] = Here(g, q[i], line[i + 1])
  BY <1>3, <1>4, LineScopesFacts DEF q
<1>7. \A i \in from .. to : p[i] = q[i - from]
  OBVIOUS
<1> HIDE DEF p
<1>8. p[from] = s /\ p[to] = st
  <2>1. from \in from .. to /\ to \in from .. to /\ from - from = 0
    BY <1>1
  <2> QED  BY <1>2, <1>3, <1>5, <1>7, <2>1
<1>9. ASSUME NEW i \in from .. to - 1
      PROVE  p[i + 1] = Flip(t[i + 1], g, p[i]) /\ \E k : LastKey(ls, i - from, k) /\ ls[k] = Here(g, p[i], t[i + 1])
  <2>1. /\ i \in from .. to /\ i + 1 \in from .. to /\ i - from \in 0 .. Len(line) - 1 /\ (i - from) + 1 \in 1 .. to - from
        /\ from + ((i - from) + 1) = i + 1 /\ (i + 1) - from = (i - from) + 1
    BY <1>1, <1>2
  <2>2. p[i] = q[i - from] /\ p[i + 1] = q[(i - from) + 1] /\ line[(i - from) + 1] = t[i + 1]
    BY <1>2, <1>7, <2>1
  <2>3. q[(i - from) + 1] = Flip(line[(i - from) + 1], g, q[i - from])
    BY <1>5, <2>1
  <2>4. PICK k : LastKey(ls, i - from, k) /\ ls[k] = Here(g, q[i - from], line[(i - from) + 1])
    BY <1>6, <2>1
  <2> QED  BY <2>2, <2>3, <2>4
<1>10. Parses(p, t, g, from, to, s, ls, st)
  BY <1>8, <1>9 DEF Parses
<1>11. ParseRange(t, from, to, ls)
  BY <1>1, <1>2, <1>6 DEF ParseRange
<1> QED  BY <1>10, <1>11

\* The state at the end is that of the parse; other lines keep theirs.
StatesParsed(to, st, a, aa) ==
  /\ DOMAIN a \subseteq DOMAIN aa /\ DOMAIN aa = DOMAIN a \cup {to} /\ aa[to] = st
  /\ \A k \in DOMAIN a : k # to => aa[k] = a[k]
  /\ to \in DOMAIN a /\ a[to] = st => aa = a

LEMMA ParsedStates ==
  ASSUME NEW t, NEW from, NEW to, NEW ls, NEW st, NEW d, NEW m, NEW a, NEW dd, NEW mm, NEW aa,
         ParsedMaps(t, from, to, ls, st, d, m, a, dd, mm, aa)
  PROVE  StatesParsed(to, st, a, aa)
<1>1. CASE to \notin DOMAIN a \/ a[to] # st
  <2>1. aa = Set(a, to, st)
    BY <1>1 DEF ParsedMaps
  <2> QED  BY <1>1, <2>1 DEF Set, StatesParsed
<1>2. CASE ~(to \notin DOMAIN a \/ a[to] # st)
  <2>1. aa = a
    BY <1>2 DEF ParsedMaps
  <2> QED  BY <1>2, <2>1 DEF StatesParsed
<1> QED  BY <1>1, <1>2

\* What is dirty then: what was, behind or before the line; and the next one if
\* its state is another.
LEMMA ParsedDirty ==
  ASSUME NEW t, NEW from, NEW to, NEW ls, NEW st, NEW d, NEW m, NEW a, NEW dd, NEW mm, NEW aa,
         ParsedMaps(t, from, to, ls, st, d, m, a, dd, mm, aa)
  PROVE  /\ dd = [k \in DOMAIN dd |-> dd[k]]
         /\ \A k \in DOMAIN d : ~(from <= k /\ (AtEOF(t, from) \/ k < to)) => k \in DOMAIN dd
         /\ \A k \in DOMAIN dd : (k \in DOMAIN d /\ ~(from <= k /\ (AtEOF(t, from) \/ k < to))) \/ (k = to /\ ~AtEOF(t, from))
         /\ (to \notin DOMAIN a \/ a[to] # st) /\ ~AtEOF(t, from) => to \in DOMAIN dd
<1> DEFINE eof == AtEOF(t, from)  c == Cleared(d, eof, from, to)
<1>1. /\ c = [k \in DOMAIN c |-> c[k]]
      /\ \A k : k \in DOMAIN c <=> k \in DOMAIN d /\ ~(from <= k /\ (eof \/ k < to))
  <2>1. eof \in BOOLEAN
    BY DEF AtEOF
  <2> HIDE DEF eof
  <2> QED  BY <2>1, ClearedFacts
<1>2. dd = IF (to \notin DOMAIN a \/ a[to] # st) /\ ~eof THEN Set(c, to, TRUE) ELSE c
  BY DEF ParsedMaps
<1> HIDE DEF eof, c
<1>3. CASE (to \notin DOMAIN a \/ a[to] # st) /\ ~eof
  <2>1. dd = Set(c, to, TRUE)
    BY <1>2, <1>3
  <2>2. dd = [k \in DOMAIN dd |-> dd[k]] /\ DOMAIN dd = {to} \cup DOMAIN c
    BY <2>1 DEF Set
  <2> QED  BY <1>1, <1>3, <2>2 DEF eof
<1>4. CASE ~((to \notin DOMAIN a \/ a[to] # st) /\ ~eof)
  <2>1. dd = c
    BY <1>2, <1>4
  <2> QED  BY <1>1, <1>4, <2>1 DEF eof
<1> QED  BY <1>3, <1>4

\* The line itself has the scopes that were parsed.
LEMMA ParsedThis ==
  ASSUME NEW S, NEW t \in Seq(S), NEW g, NEW from, Start(t, from), NEW to, NEW s, NEW ls, NEW st,
         ParseOf(t, g, from, to, s, ls, st),
         NEW d, NEW m, NEW a, NEW dd, NEW mm, NEW aa, ParsedMaps(t, from, to, ls, st, d, m, a, dd, mm, aa),
         DOMAIN m \subseteq Int, StateOf(aa, from) = s
  PROVE  LineRead(t, g, mm, aa, from)
<1> DEFINE eof == AtEOF(t, from)
<1>1. from \in 0 .. Len(t) /\ from \in Nat /\ Len(t) \in Nat
  BY DEF Start
<1>0. ParseRange(t, from, to, ls) /\ \E q : Parses(q, t, g, from, to, s, ls, st)
  BY <1>1, ParseFacts
<1>2. PICK q : /\ q[from] = s /\ q[to] = st
               /\ \A i \in from .. to - 1 : q[i + 1] = Flip(t[i + 1], g, q[i])
               /\ \A i \in from .. to - 1 : \E k : LastKey(ls, i - from, k) /\ ls[k] = Here(g, q[i], t[i + 1])
  BY <1>0 DEF Parses
<1>3. to \in from .. Len(t) /\ DOMAIN ls \subseteq 0 .. to - from /\ 0 \in DOMAIN ls
  BY <1>0 DEF ParseRange
<1>4. /\ eof => to = Len(t) /\ OneLine(t, from, to)
      /\ ~eof => from < to /\ t[to] = Newline /\ OneLine(t, from, to - 1)
  BY <1>1, EndFacts DEF ParseOf
<1>5. /\ DOMAIN mm \subseteq DOMAIN m \cup from .. to
      /\ \A k \in Int : from <= k /\ (eof \/ k < to) =>
           (k \in DOMAIN mm <=> k - from \in DOMAIN ls) /\ (k \in DOMAIN mm => mm[k] = ls[k - from])
  <2>1. mm = ScopesWith(m, eof, from, to, ls)
    BY DEF ParsedMaps
  <2>2. eof \in BOOLEAN /\ to \in Nat /\ from <= to
    BY <1>1, <1>3 DEF AtEOF
  <2> HIDE DEF eof
  <2> QED  BY <1>1, <1>3, <2>1, <2>2, ScopesWithFacts
<1>6. aa[to] = st /\ to \in DOMAIN aa
  <2>1. StatesParsed(to, st, a, aa)
    BY ParsedStates
  <2> QED  BY <2>1 DEF StatesParsed
<1> HIDE DEF eof
<1>7. from \in DOMAIN mm
  <2>1. from \in Int /\ from <= from /\ (eof \/ from < to) /\ from - from = 0
    BY <1>1, <1>4
  <2> QED  BY <1>3, <1>5, <2>1
<1>8. DOMAIN mm \subseteq Int /\ to \in Nat
  BY <1>1, <1>3, <1>5
<1>9. ASSUME NEW i \in from .. Len(t) - 1, OneLine(t, from, i) PROVE Follows(q, t, g, mm, aa, i)
  <2>1. i \in 0 .. Len(t) /\ i \in Nat /\ i < Len(t) /\ from <= i
    BY <1>1
  <2>2. eof \/ i < to
    BY <1>1, <1>9, <2>1, OnLine DEF ParseOf, eof
  <2>3. i \in from .. to - 1 /\ i < to
    BY <1>4, <1>8, <2>1, <2>2
  <2>4. PICK k : LastKey(ls, i - from, k) /\ ls[k] = Here(g, q[i], t[i + 1])
    BY <1>2, <2>3
  <2>5. k \in 0 .. to - from /\ k \in DOMAIN ls /\ k <= i - from /\ \A j \in DOMAIN ls : j <= i - from => j <= k
    BY <1>3, <2>4 DEF LastKey
  <2>6. from + k \in Int /\ from <= from + k /\ from + k < to /\ (from + k) - from = k /\ from + k <= i
    BY <1>1, <1>8, <2>3, <2>5
  <2>7. from + k \in DOMAIN mm /\ mm[from + k] = ls[k]
    BY <1>5, <2>5, <2>6
  <2>8. ASSUME NEW j \in DOMAIN mm, j <= i PROVE j <= from + k
    <3>1. j \in Int /\ j < to
      BY <1>8, <2>1, <2>3, <2>8
    <3>2. CASE from <= j
      <4>1. j - from \in DOMAIN ls /\ j - from <= i - from
        BY <1>1, <1>5, <2>1, <2>8, <3>1, <3>2
      <4>2. j - from <= k
        BY <2>5, <4>1
      <4> QED  BY <1>1, <2>5, <3>1, <4>2
    <3>3. CASE j < from
      BY <1>1, <2>5, <3>1, <3>3
    <3> QED  BY <1>1, <3>1, <3>2, <3>3
  <2>9. LastKey(mm, i, from + k)
    BY <2>6, <2>7, <2>8 DEF LastKey
  <2>10. ValueAt(mm, i) = Here(g, q[i], t[i + 1])
    BY <1>8, <2>1, <2>4, <2>7, <2>9, ValueOf
  <2>11. ASSUME t[i + 1] = Newline PROVE i + 1 = to
    <3>1. CASE eof
      <4>1. i + 1 \in from + 1 .. to
        BY <1>1, <1>8, <2>1, <2>3
      <4> QED  BY <1>4, <2>11, <3>1, <4>1 DEF OneLine
    <3>2. CASE ~eof
      <4>1. i + 1 # to => i + 1 \in from + 1 .. to - 1
        BY <1>1, <1>8, <2>1, <2>3
      <4> QED  BY <1>4, <2>11, <3>2, <4>1 DEF OneLine
    <3> QED  BY <3>1, <3>2
  <2>12. t[i + 1] = Newline => i + 1 \in DOMAIN aa /\ aa[i + 1] = q[i + 1]
    BY <1>2, <1>6, <2>11
  <2> QED  BY <1>2, <2>3, <2>10, <2>12 DEF Follows
<1>10. Reads(q, t, g, mm, aa, from)
  BY <1>9 DEF Reads
<1> QED  BY <1>2, <1>7, <1>10 DEF LineRead

\* Other lines have the scopes they had.
LEMMA ParsedOther ==
  ASSUME NEW S, NEW t \in Seq(S), NEW g, NEW from, Start(t, from), NEW to, NEW s, NEW ls, NEW st,
         ParseOf(t, g, from, to, s, ls, st),
         NEW d, NEW m, NEW a, NEW dd, NEW mm, NEW aa, ParsedMaps(t, from, to, ls, st, d, m, a, dd, mm, aa),
         DOMAIN m \subseteq Int, DOMAIN d \subseteq Int, Known(a, from) => StateOf(a, from) = s,
         NEW f, Start(t, f), f # from, Known(aa, f), Clean(t, dd, f),
         Known(a, f) /\ Clean(t, d, f) => LineRead(t, g, m, a, f)
  PROVE  LineRead(t, g, mm, aa, f)
<1> DEFINE eof == AtEOF(t, from)
<1>1. from \in 0 .. Len(t) /\ from \in Nat /\ Len(t) \in Nat /\ f \in 0 .. Len(t) /\ f \in Nat
  BY DEF Start
<1>0. ParseRange(t, from, to, ls) /\ \E q : Parses(q, t, g, from, to, s, ls, st)
  BY <1>1, ParseFacts
<1>2. to \in from .. Len(t) /\ DOMAIN ls \subseteq 0 .. to - from /\ 0 \in DOMAIN ls
  BY <1>0 DEF ParseRange
<1>3. PICK p : p[from] = s /\ p[to] = st
  BY <1>0 DEF Parses
<1>4. /\ eof => to = Len(t) /\ OneLine(t, from, to)
      /\ ~eof => from < to /\ t[to] = Newline /\ OneLine(t, from, to - 1)
  BY <1>1, EndFacts DEF ParseOf
<1>5. /\ DOMAIN mm \subseteq DOMAIN m \cup from .. to
      /\ SameBefore(mm, m, from)
      /\ ~eof => SameFrom(mm, m, to, 0)
  <2>1. mm = ScopesWith(m, eof, from, to, ls)
    BY DEF ParsedMaps
  <2>2. eof \in BOOLEAN /\ to \in Nat /\ from <= to
    BY <1>1, <1>2 DEF AtEOF
  <2> HIDE DEF eof
  <2> QED  BY <1>1, <1>2, <2>1, <2>2, ScopesWithFacts
<1>6. /\ DOMAIN a \subseteq DOMAIN aa /\ DOMAIN aa = DOMAIN a \cup {to} /\ aa[to] = st
      /\ \A k \in DOMAIN a : k # to => aa[k] = a[k]
      /\ to \in DOMAIN a /\ a[to] = st => aa = a
  <2>1. StatesParsed(to, st, a, aa)
    BY ParsedStates
  <2> QED  BY <2>1 DEF StatesParsed
<1>7. /\ \A k \in DOMAIN d : ~(from <= k /\ (eof \/ k < to)) => k \in DOMAIN dd
      /\ (to \notin DOMAIN a \/ a[to] # st) /\ ~eof => to \in DOMAIN dd
  BY ParsedDirty
<1> HIDE DEF eof
<1>8. DOMAIN mm \subseteq Int /\ to \in Nat /\ from <= to /\ to <= Len(t)
  BY <1>1, <1>2, <1>5
\* f is before or behind that line.
<1>9. f < from \/ (~eof /\ to <= f)
  <2> SUFFICES ASSUME from < f, ~(~eof /\ to <= f) PROVE FALSE
    BY <1>1, <1>8
  <2>1. t[f] = Newline
    BY <1>1 DEF Start
  <2>2. CASE eof
    <3>1. f \in from + 1 .. to
      BY <1>1, <1>4, <1>8, <2>2
    <3> QED  BY <1>4, <2>1, <2>2, <3>1 DEF OneLine
  <2>3. CASE ~eof
    <3>1. f \in from + 1 .. to - 1
      BY <1>1, <1>8, <2>3
    <3> QED  BY <1>4, <2>1, <2>3, <3>1 DEF OneLine
  <2> QED  BY <2>2, <2>3
<1>10. Clean(t, d, f)
  <2> SUFFICES ASSUME NEW k \in DOMAIN d, OneLine(t, f, k) PROVE FALSE
    BY DEF Clean
  <2>1. k \in Int /\ f <= k
    BY DEF OneLine
  <2>2. ~(from <= k /\ (eof \/ k < to))
    <3>1. CASE f < from
      <4> SUFFICES ASSUME from <= k PROVE FALSE
        OBVIOUS
      <4>1. from \in f + 1 .. k /\ from # 0
        BY <1>1, <2>1, <3>1
      <4> QED  BY <4>1 DEF OneLine, Start
    <3>2. CASE ~eof /\ to <= f
      BY <1>1, <1>8, <2>1, <3>2
    <3> QED  BY <1>9, <3>1, <3>2
  <2>3. k \in DOMAIN dd
    BY <1>7, <2>2
  <2> QED  BY <2>3 DEF Clean
<1>11. f = 0 \/ (f \in DOMAIN a /\ aa[f] = a[f])
  <2> SUFFICES ASSUME f # 0 PROVE f \in DOMAIN a /\ aa[f] = a[f]
    OBVIOUS
  <2>1. f \in DOMAIN aa
    BY DEF Known
  <2>2. CASE f # to
    BY <1>6, <2>1, <2>2
  <2>3. CASE f = to
    <3>1. ~eof
      <4> SUFFICES ASSUME eof PROVE FALSE
        OBVIOUS
      <4>1. f < from
        BY <1>9
      <4> QED  BY <1>1, <1>8, <2>3, <4>1
    <3>2. OneLine(t, f, to)
      BY <1>1, <2>3 DEF OneLine
    <3>3. to \notin DOMAIN dd
      BY <3>2 DEF Clean
    <3>4. to \in DOMAIN a /\ a[to] = st
      BY <1>7, <3>1, <3>3
    <3> QED  BY <1>6, <2>3, <3>4
  <2> QED  BY <2>2, <2>3
<1>12. Known(a, f) /\ StateOf(a, f) = StateOf(aa, f)
  BY <1>11 DEF Known, StateOf
<1>13. LineRead(t, g, m, a, f)
  BY <1>10, <1>12
<1>14. f \in DOMAIN m
  BY <1>13 DEF LineRead
<1>15. PICK q : q[f] = StateOf(a, f) /\ Reads(q, t, g, m, a, f)
  BY <1>13 DEF LineRead
\* The values at or behind f are the same.
<1>16. ASSUME ~eof, to <= f PROVE SameFrom(mm, m, f, 0)
  <2>1. \A k \in Int : f <= k => to <= k
    BY <1>1, <1>8, <1>16
  <2> QED  BY <1>5, <1>16, <2>1 DEF SameFrom
<1>17. f \in DOMAIN mm
  <2>1. CASE f < from
    BY <1>1, <1>5, <1>14, <2>1 DEF SameBefore
  <2>2. CASE ~eof /\ to <= f
    <3>1. f + 0 \in DOMAIN mm <=> f \in DOMAIN m
      BY <1>1, <1>16, <2>2 DEF SameFrom
    <3> QED  BY <1>1, <1>14, <3>1
  <2> QED  BY <1>9, <2>1, <2>2
<1>18. ASSUME NEW i \in f .. Len(t) - 1, OneLine(t, f, i) PROVE Follows(q, t, g, mm, aa, i)
  <2>1. i \in Int /\ i \in Nat /\ f <= i /\ i + 1 \in Nat
    BY <1>1
  <2>2. Follows(q, t, g, m, a, i)
    BY <1>15, <1>18 DEF Reads
  <2>3. f < from => i < from
    <3> SUFFICES ASSUME f < from, from <= i PROVE FALSE
      BY <1>1, <2>1
    <3>1. from \in f + 1 .. i /\ from # 0
      BY <1>1, <2>1
    <3> QED  BY <1>18, <3>1 DEF OneLine, Start
  <2>4. ValueAt(mm, i) = ValueAt(m, i)
    <3>1. CASE f < from
      BY <1>1, <1>5, <1>8, <1>14, <2>1, <2>3, <3>1, ValueBefore
    <3>2. CASE ~eof /\ to <= f
      <4>1. i + 0 = i /\ 0 \in Int /\ f \in Int
        BY <2>1, <1>1
      <4> DEFINE k == i + 0
      <4>2. ValueAt(mm, k) = ValueAt(m, i)
        <5>1. SameFrom(mm, m, f, 0) /\ DOMAIN mm \subseteq Int
          BY <1>8, <1>16, <3>2
        <5> QED  BY <1>14, <2>1, <4>1, <5>1, ValueBehind
      <4>3. k = i
        BY <4>1
      <4> HIDE DEF k
      <4> QED  BY <4>2, <4>3
    <3> QED  BY <1>9, <3>1, <3>2
  <2>5. ASSUME t[i + 1] = Newline PROVE i + 1 \in DOMAIN aa /\ aa[i + 1] = q[i + 1]
    <3>1. i + 1 \in DOMAIN a /\ a[i + 1] = q[i + 1]
      BY <2>2, <2>5 DEF Follows
    <3>2. CASE i + 1 # to
      BY <1>6, <3>1, <3>2
    <3>3. CASE i + 1 = to
      <4>1. f < from
        <5>1. ~(to <= f)
          BY <1>1, <1>8, <2>1, <3>3
        <5> QED  BY <1>9, <5>1
      <4>2. from = to /\ from # 0
        BY <1>1, <1>8, <2>1, <2>3, <3>3, <4>1
      <4>3. a[from] = s
        BY <3>1, <3>3, <4>2 DEF Known, StateOf
      <4> QED  BY <1>3, <1>6, <3>1, <3>3, <4>2, <4>3
    <3> QED  BY <3>2, <3>3
  <2> QED  BY <2>2, <2>4, <2>5 DEF Follows
<1>19. Reads(q, t, g, mm, aa, f)
  BY <1>18 DEF Reads
<1> QED  BY <1>12, <1>15, <1>17, <1>19 DEF LineRead

LEMMA ParsedKeeps ==
  ASSUME NEW b, BufferRead(b), NEW from, Start(b.text, from), NEW to, NEW s, NEW ls, NEW st,
         ParseOf(b.text, b.grammar, from, to, s, ls, st), Known(b.states, from) => StateOf(b.states, from) = s
  PROVE  BufferRead(ParsedLine(b, from, to, ls, st))
<1> DEFINE r == ParsedLine(b, from, to, ls, st)  t == b.text  g == b.grammar  n == Len(t)  eof == AtEOF(t, from)
           d == b.dirty  m == b.scopes  a == b.states  dd == r.dirty  mm == r.scopes  aa == r.states
<1>1. IsBuffer(b) /\ t \in Seq(TextChars) /\ MapsIn(n, d, m, a) /\ LinesRead(t, g, d, m, a)
  BY DEF BufferRead
<1>2. IsBuffer(r) /\ r.text = t /\ r.grammar = g /\ ParsedMaps(t, from, to, ls, st, d, m, a, dd, mm, aa)
  BY <1>1, ParsedFields
<1>3. ParseOf(t, g, from, to, s, ls, st) /\ Start(t, from) /\ (Known(a, from) => StateOf(a, from) = s)
  OBVIOUS
<1> HIDE DEF r, d, m, a, dd, mm, aa, t, g, n, eof
<1>4. n \in Nat /\ from \in 0 .. n /\ from \in Nat
  BY <1>1, <1>3 DEF Start, n
<1>5. ParseRange(t, from, to, ls) /\ \E q : Parses(q, t, g, from, to, s, ls, st)
  BY <1>1, <1>3, <1>4, ParseFacts DEF n
<1>6. to \in from .. n /\ DOMAIN ls \subseteq 0 .. to - from /\ (from = to => st = s)
  BY <1>5 DEF ParseRange, Parses, n
<1>7. /\ d = [k \in DOMAIN d |-> d[k]] /\ DOMAIN d \subseteq 0 .. n
      /\ DOMAIN m \subseteq -1 .. n
      /\ DOMAIN a \subseteq -1 .. n /\ -1 \in DOMAIN a /\ a[-1] = FALSE
  BY <1>1 DEF MapsIn
<1>8. DOMAIN m \subseteq Int /\ DOMAIN d \subseteq Int
  BY <1>7
<1>9. StatesParsed(to, st, a, aa)
  BY <1>2, ParsedStates
<1>10. /\ DOMAIN a \subseteq DOMAIN aa /\ DOMAIN aa = DOMAIN a \cup {to} /\ aa[to] = st
       /\ \A k \in DOMAIN a : k # to => aa[k] = a[k]
  BY <1>9 DEF StatesParsed
<1>11. MapsIn(n, dd, mm, aa)
  <2>1. /\ dd = [k \in DOMAIN dd |-> dd[k]]
        /\ \A k \in DOMAIN dd : k \in DOMAIN d \/ k = to
    BY <1>2, ParsedDirty
  <2>2. DOMAIN dd \subseteq 0 .. n
    BY <1>4, <1>6, <1>7, <2>1
  <2>3. DOMAIN mm \subseteq DOMAIN m \cup from .. to
    <3>1. mm = ScopesWith(m, eof, from, to, ls) /\ eof \in BOOLEAN
      BY <1>2 DEF ParsedMaps, AtEOF, eof
    <3>2. to \in Nat /\ from <= to
      BY <1>4, <1>6
    <3> QED  BY <1>4, <1>6, <1>8, <3>1, <3>2, ScopesWithFacts
  <2>4. DOMAIN mm \subseteq -1 .. n
    BY <1>4, <1>6, <1>7, <2>3
  <2>5. DOMAIN aa \subseteq -1 .. n /\ -1 \in DOMAIN aa /\ aa[-1] = FALSE
    <3>1. -1 # to /\ to \in -1 .. n
      BY <1>4, <1>6
    <3> QED  BY <1>7, <1>10, <3>1
  <2> QED  BY <2>1, <2>2, <2>4, <2>5 DEF MapsIn
<1>12. ASSUME NEW f, Start(t, f), Clean(t, dd, f), Known(aa, f) PROVE LineRead(t, g, mm, aa, f)
  <2>1. CASE f = from
    <3>1. StateOf(aa, from) = s
      <4>1. CASE from = 0
        BY <1>3, <4>1 DEF Known, StateOf
      <4>2. CASE from # 0 /\ from = to
        BY <1>6, <1>10, <4>2 DEF StateOf
      <4>3. CASE from # 0 /\ from # to
        <5>1. from \in DOMAIN a /\ aa[from] = a[from]
          BY <1>10, <1>12, <2>1, <4>3 DEF Known
        <5> QED  BY <1>3, <4>3, <5>1 DEF Known, StateOf
      <4> QED  BY <4>1, <4>2, <4>3
    <3>2. LineRead(t, g, mm, aa, from)
      BY <1>1, <1>2, <1>3, <1>8, <3>1, ParsedThis
    <3> QED  BY <2>1, <3>2
  <2>2. CASE f # from
    <3>1. Known(a, f) /\ Clean(t, d, f) => LineRead(t, g, m, a, f)
      BY <1>1, <1>12 DEF LinesRead
    <3> QED  BY <1>1, <1>2, <1>3, <1>8, <1>12, <2>2, <3>1, ParsedOther
  <2> QED  BY <2>1, <2>2
<1>13. LinesRead(t, g, dd, mm, aa)
  BY <1>12 DEF LinesRead
<1>14. BufferRead(r)
  BY <1>1, <1>2, <1>11, <1>13 DEF BufferRead, n, t, g, dd, mm, aa
<1> QED  BY <1>14 DEF r

-----------------------------------------------------------------------------
(* An edit of the text.                                                    *)

\* What of two texts is the same: positions up to `from', and those behind the edit.
SameParts(u, S, t, from, to, n) ==
  /\ u \in Seq(S) /\ Len(u) = Len(t) + (n - (to - from)) /\ Len(t) + (n - (to - from)) \in Nat
  /\ \A i \in 1 .. from : u[i] = t[i]
  /\ \A i \in to + 1 .. Len(t) : u[i + (n - (to - from))] = t[i]

LEMMA SpliceParts ==
  ASSUME NEW S, NEW t \in Seq(S), NEW x \in Seq(S), NEW from \in Nat, NEW to \in Nat, from <= to, to <= Len(t)
  PROVE  SameParts(Splice(t, from, to, x), S, t, from, to, Len(x))
<1> DEFINE u == Splice(t, from, to, x)  d == Len(x) - (to - from)
<1>1. IsSplice(u, S, t, from, to, x)
  BY Zenon, SpliceIs
<1>2. Len(x) \in Nat /\ Len(t) \in Nat /\ d \in Int /\ d = Len(x) - (to - from)
  OBVIOUS
<1> HIDE DEF u, d
<1>3. /\ u \in Seq(S)
      /\ Len(u) = Len(t) - (to - from) + Len(x)
      /\ \A i \in 1..Len(u) :
           u[i] = IF i <= from THEN t[i]
                  ELSE IF i <= from + Len(x) THEN x[i - from]
                  ELSE t[i - Len(x) + (to - from)]
  BY <1>1 DEF IsSplice
<1>4. Len(u) = Len(t) + d /\ Len(t) + d \in Nat
  BY <1>2, <1>3
<1>5. ASSUME NEW i \in 1 .. from PROVE u[i] = t[i]
  <2>1. i \in 1 .. Len(u) /\ i <= from
    BY <1>2, <1>3
  <2> QED  BY <1>3, <2>1
<1>6. ASSUME NEW i \in to + 1 .. Len(t) PROVE u[i + d] = t[i]
  <2>1. i + d \in 1 .. Len(u) /\ ~(i + d <= from) /\ ~(i + d <= from + Len(x)) /\ (i + d) - Len(x) + (to - from) = i
    BY <1>2, <1>3
  <2> QED  BY <1>3, <2>1
<1>7. SameParts(u, S, t, from, to, Len(x))
  BY <1>3, <1>4, <1>5, <1>6 DEF SameParts, d
<1> QED  BY Zenon, <1>7 DEF u

\* A text, its dirty positions, scopes and states, and what they are after n
\* characters replaced those between `from' and `to'.
Edited(S, t, d, m, a, from, to, n, u, dd, mm, aa) ==
  /\ t \in Seq(S) /\ u \in Seq(S) /\ from \in Nat /\ to \in Nat /\ n \in Nat /\ from <= to /\ to <= Len(t)
  /\ Len(u) = Len(t) + n - (to - from)
  /\ \A i \in 1 .. from : u[i] = t[i]
  /\ \A i \in to + 1 .. Len(t) : u[i + n - (to - from)] = t[i]
  /\ from \in DOMAIN dd /\ DOMAIN d \subseteq 0 .. Len(t)
  /\ \A k \in DOMAIN d : (k <= from => k \in DOMAIN dd) /\ (to < k => k + n - (to - from) \in DOMAIN dd)
  /\ StatesMoved(aa, a, from, to, n) /\ DOMAIN a \subseteq Int
  /\ ScopesMoved(mm, m, from, to, n) /\ DOMAIN m \subseteq Int

\* A line before the edit that is not dirty is as it was.
LEMMA LineBefore ==
  ASSUME NEW S, NEW t, NEW g, NEW d, NEW m, NEW a, NEW from, NEW to, NEW n, NEW u, NEW dd, NEW mm, NEW aa,
         Edited(S, t, d, m, a, from, to, n, u, dd, mm, aa), LinesRead(t, g, d, m, a),
         NEW f, Start(u, f), Clean(u, dd, f), Known(aa, f), f <= from
  PROVE  LineRead(u, g, mm, aa, f)
<1>1. /\ from \in Nat /\ to \in Nat /\ from <= to /\ to <= Len(t) /\ Len(t) \in Nat /\ f \in Nat /\ Len(u) \in Nat
      /\ \A i \in 1 .. from : u[i] = t[i]
  BY DEF Edited, Start
<1>2. from \in DOMAIN dd /\ DOMAIN d \subseteq Int /\ \A k \in DOMAIN d : k <= from => k \in DOMAIN dd
  BY DEF Edited
<1>3. StatesMoved(aa, a, from, to, n) /\ DOMAIN a \subseteq Int /\ ScopesMoved(mm, m, from, to, n) /\ DOMAIN m \subseteq Int
  BY DEF Edited
<1>4. PICK j \in f + 1 .. from : u[j] = Newline
  BY <1>2 DEF Clean, OneLine
<1>5. j \in Nat /\ f < j /\ j <= from /\ t[j] = Newline
  <2>1. j \in Nat /\ f < j /\ j <= from /\ j \in 1 .. from
    BY <1>1
  <2> QED  BY <1>1, <1>4, <2>1
<1>6. Start(t, f)
  <2>1. f \in 0 .. Len(t)
    BY <1>1
  <2>2. f # 0 => f \in 1 .. from
    BY <1>1
  <2> QED  BY <1>1, <2>1, <2>2 DEF Start
<1>7. ASSUME NEW i \in Int, f <= i, OneLine(t, f, i) \/ OneLine(u, f, i) PROVE i < j /\ i < from
  <2>1. ~(j <= i)
    <3> SUFFICES ASSUME j <= i PROVE FALSE
      OBVIOUS
    <3>1. j \in f + 1 .. i
      BY <1>1, <1>5
    <3> QED  BY <1>4, <1>5, <1>7, <3>1 DEF OneLine
  <2> QED  BY <1>1, <1>5, <2>1
<1>8. ASSUME NEW i \in Int, f <= i, i < from PROVE OneLine(t, f, i) <=> OneLine(u, f, i)
  <2>1. \A k \in f + 1 .. i : k \in 1 .. from
    BY <1>1, <1>8
  <2>2. \A k \in f + 1 .. i : u[k] = t[k]
    BY <1>1, <2>1
  <2> QED  BY <2>2 DEF OneLine
<1>9. Clean(t, d, f)
  <2> SUFFICES ASSUME NEW k \in DOMAIN d, OneLine(t, f, k) PROVE FALSE
    BY DEF Clean
  <2>1. k \in Int /\ f <= k
    BY <1>2 DEF OneLine
  <2>2. k < from
    BY <1>7, <2>1
  <2>3. k \in DOMAIN dd /\ OneLine(u, f, k)
    BY <1>1, <1>2, <1>8, <2>1, <2>2
  <2> QED  BY <2>3 DEF Clean
<1>10. \A k \in Int : k <= from => (k \in DOMAIN aa <=> k \in DOMAIN a) /\ (k \in DOMAIN aa => aa[k] = a[k])
  <2> SUFFICES ASSUME NEW k \in Int, k <= from PROVE (k \in DOMAIN aa <=> k \in DOMAIN a) /\ (k \in DOMAIN aa => aa[k] = a[k])
    OBVIOUS
  <2>1. n \in Nat /\ ~(from + n < k)
    BY <1>1 DEF Edited
  <2> QED  BY <1>3, <2>1 DEF StatesMoved
<1>11. Known(a, f) /\ StateOf(a, f) = StateOf(aa, f)
  <2>1. (f \in DOMAIN aa <=> f \in DOMAIN a) /\ (f \in DOMAIN aa => aa[f] = a[f])
    BY <1>1, <1>10
  <2> QED  BY <2>1 DEF Known, StateOf
<1>12. LineRead(t, g, m, a, f)
  BY <1>6, <1>9, <1>11 DEF LinesRead
<1>13. f \in DOMAIN m
  BY <1>12 DEF LineRead
<1>14. PICK q : q[f] = StateOf(a, f) /\ Reads(q, t, g, m, a, f)
  BY <1>12 DEF LineRead
<1>15. SameBefore(mm, m, from) /\ DOMAIN mm \subseteq Int
  BY <1>3 DEF ScopesMoved, SameBefore
<1>16. f \in DOMAIN mm
  <2>1. f \in Int /\ f < from
    BY <1>1, <1>5
  <2> QED  BY <1>13, <1>15, <2>1 DEF SameBefore
<1>17. ASSUME NEW i \in f .. Len(u) - 1, OneLine(u, f, i) PROVE Follows(q, u, g, mm, aa, i)
  <2>0. \A h \in 1 .. from : u[h] = t[h]
    BY DEF Edited
  <2>1. i \in Int /\ f <= i /\ i < from
    BY <1>1, <1>7, <1>17
  <2>2. i \in f .. Len(t) - 1 /\ i + 1 \in 1 .. from /\ i + 1 \in Int /\ i + 1 <= from
    BY <1>1, <2>1
  <2>3. OneLine(t, f, i)
    BY <1>8, <1>17, <2>1
  <2>4. Follows(q, t, g, m, a, i)
    BY <1>14, <2>2, <2>3 DEF Reads
  <2>5. ValueAt(mm, i) = ValueAt(m, i)
    <3>1. DOMAIN m \subseteq Int /\ from \in Int /\ f \in DOMAIN m /\ i \in Int /\ f <= i /\ i < from /\ f \in Int
      BY <1>1, <1>3, <1>13, <2>1
    <3> QED  BY <1>15, <3>1, ValueBefore
  <2>6. u[i + 1] = t[i + 1]
    <3> DEFINE h == i + 1
    <3>1. h \in 1 .. from
      BY <2>2
    <3> HIDE DEF h
    <3>2. u[h] = t[h]
      BY <2>0, <3>1
    <3> QED  BY <3>2 DEF h
  <2>7. (i + 1 \in DOMAIN aa <=> i + 1 \in DOMAIN a) /\ (i + 1 \in DOMAIN aa => aa[i + 1] = a[i + 1])
    BY <1>10, <2>2
  <2> QED  BY <2>4, <2>5, <2>6, <2>7 DEF Follows
<1>18. Reads(q, u, g, mm, aa, f)
  BY <1>17 DEF Reads
<1> QED  BY <1>11, <1>14, <1>16, <1>18 DEF LineRead

\* One behind it has moved.
LEMMA LineBehind ==
  ASSUME NEW S, NEW t, NEW g, NEW d, NEW m, NEW a, NEW from, NEW to, NEW n, NEW u, NEW dd, NEW mm, NEW aa,
         Edited(S, t, d, m, a, from, to, n, u, dd, mm, aa), LinesRead(t, g, d, m, a),
         NEW f, Start(u, f), Clean(u, dd, f), Known(aa, f), from < f
  PROVE  LineRead(u, g, mm, aa, f)
<1> DEFINE c == n - (to - from)  e == f - c
<1>1. /\ from \in Nat /\ to \in Nat /\ from <= to /\ to <= Len(t) /\ Len(t) \in Nat /\ f \in Nat /\ Len(u) \in Nat /\ n \in Nat
      /\ Len(u) = Len(t) + c /\ c \in Int /\ c = n - (to - from) /\ f <= Len(u) /\ f # 0
  BY DEF Edited, Start
<1>2. \A i \in to + 1 .. Len(t) : u[i + c] = t[i]
  <2>1. \A i \in to + 1 .. Len(t) : u[i + n - (to - from)] = t[i]
    BY DEF Edited
  <2>2. \A i \in to + 1 .. Len(t) : i + n - (to - from) = i + c
    BY <1>1
  <2> QED  BY <2>1, <2>2
<1>3. DOMAIN d \subseteq 0 .. Len(t) /\ \A k \in DOMAIN d : to < k => k + c \in DOMAIN dd
  <2>1. DOMAIN d \subseteq 0 .. Len(t) /\ \A k \in DOMAIN d : to < k => k + n - (to - from) \in DOMAIN dd
    BY DEF Edited
  <2>2. \A k \in DOMAIN d : k + n - (to - from) = k + c
    BY <1>1, <2>1
  <2> QED  BY <2>1, <2>2
<1>4. StatesMoved(aa, a, from, to, n) /\ DOMAIN a \subseteq Int /\ ScopesMoved(mm, m, from, to, n) /\ DOMAIN m \subseteq Int
  BY DEF Edited
<1>5. \A k \in Int : k - n + (to - from) = k - c
  BY <1>1
<1> HIDE DEF c, e
<1>6. ASSUME NEW k \in Int, from + n < k
      PROVE  /\ (k \in DOMAIN aa <=> k - c \in DOMAIN a) /\ (k \in DOMAIN aa => aa[k] = a[k - c])
             /\ (k \in DOMAIN mm <=> k - c \in DOMAIN m) /\ (k \in DOMAIN mm => mm[k] = m[k - c])
  <2>1. k - n + (to - from) = k - c /\ ~(k <= from)
    BY <1>1, <1>5, <1>6
  <2> QED  BY <1>4, <1>6, <2>1 DEF StatesMoved, ScopesMoved
<1>7. from + n < f
  <2>1. f \in DOMAIN aa /\ ~(f <= from) /\ f \in Int
    BY <1>1 DEF Known
  <2> QED  BY <1>4, <2>1 DEF StatesMoved
<1>8. e \in Nat /\ to < e /\ e <= Len(t) /\ e # 0 /\ e = f - c /\ f = e + c /\ e \in to + 1 .. Len(t) /\ e \in 0 .. Len(t)
  BY <1>1, <1>7 DEF e
<1>9. e \in DOMAIN a /\ aa[f] = a[e]
  BY <1>1, <1>6, <1>7, <1>8 DEF Known
<1>10. Start(t, e)
  <2>1. u[f] = t[e]
    BY <1>2, <1>8
  <2> QED  BY <1>1, <1>8, <2>1 DEF Start
<1>11. ASSUME NEW i \in e .. Len(t) PROVE OneLine(t, e, i) <=> OneLine(u, f, i + c)
  <2>1. i \in Int /\ e <= i /\ f <= i + c /\ i <= Len(t)
    BY <1>1, <1>8
  <2>2. ASSUME NEW k \in e + 1 .. i PROVE k + c \in f + 1 .. i + c /\ u[k + c] = t[k]
    <3>1. k + c \in f + 1 .. i + c /\ k \in to + 1 .. Len(t)
      BY <1>1, <1>8, <2>1
    <3> QED  BY <1>2, <3>1
  <2>3. ASSUME NEW k \in f + 1 .. i + c PROVE k - c \in e + 1 .. i /\ (k - c) + c = k
    BY <1>1, <1>8, <2>1
  <2> QED  BY <2>1, <2>2, <2>3 DEF OneLine
<1>12. Clean(t, d, e)
  <2> SUFFICES ASSUME NEW k \in DOMAIN d, OneLine(t, e, k) PROVE FALSE
    BY DEF Clean
  <2>1. k \in e .. Len(t) /\ to < k
    BY <1>1, <1>3, <1>8 DEF OneLine
  <2>2. k + c \in DOMAIN dd
    BY <1>3, <2>1
  <2>3. OneLine(u, f, k + c)
    BY <1>11, <2>1
  <2> QED  BY <2>2, <2>3 DEF Clean
<1>13. LineRead(t, g, m, a, e)
  BY <1>9, <1>10, <1>12 DEF LinesRead, Known
<1>14. e \in DOMAIN m
  BY <1>13 DEF LineRead
<1>15. PICK q : q[e] = a[e] /\ Reads(q, t, g, m, a, e)
  BY <1>8, <1>13 DEF LineRead, StateOf
<1> DEFINE p == [i \in Int |-> q[i - c]]
<1>16. \A i \in Int : p[i] = q[i - c]
  OBVIOUS
<1> HIDE DEF p
<1>17. p[f] = StateOf(aa, f)
  <2>1. f \in Int /\ f # 0 /\ f - c = e
    BY <1>1, <1>8
  <2> QED  BY <1>9, <1>15, <1>16, <2>1 DEF StateOf
<1>18. f \in DOMAIN mm
  BY <1>1, <1>6, <1>7, <1>8, <1>14
<1>19. SameFrom(mm, m, e, c) /\ DOMAIN mm \subseteq Int
  <2>1. ASSUME NEW k \in Int, e <= k PROVE (k + c \in DOMAIN mm <=> k \in DOMAIN m) /\ (k + c \in DOMAIN mm => mm[k + c] = m[k])
    <3>1. k + c \in Int /\ from + n < k + c /\ (k + c) - c = k
      BY <1>1, <1>7, <1>8, <2>1
    <3>2. /\ k + c \in DOMAIN mm <=> (k + c) - c \in DOMAIN m
          /\ k + c \in DOMAIN mm => mm[k + c] = m[(k + c) - c]
      BY <1>6, <3>1
    <3> QED  BY <3>1, <3>2
  <2> QED  BY <1>4, <2>1 DEF SameFrom, ScopesMoved
<1>20. ASSUME NEW i \in f .. Len(u) - 1, OneLine(u, f, i) PROVE Follows(p, u, g, mm, aa, i)
  <2> DEFINE k == i - c
  <2>1. /\ k \in Int /\ k \in e .. Len(t) - 1 /\ k \in e .. Len(t) /\ k + c = i /\ e <= k /\ i + 1 \in Int /\ i \in Int
        /\ k + 1 \in to + 1 .. Len(t) /\ (k + 1) + c = i + 1 /\ (i + 1) - c = k + 1 /\ i - c = k /\ from + n < i + 1
    BY <1>1, <1>7, <1>8
  <2> HIDE DEF k
  <2>2. OneLine(t, e, k)
    BY <1>11, <1>20, <2>1
  <2>3. Follows(q, t, g, m, a, k)
    BY <1>15, <2>1, <2>2 DEF Reads
  <2>4. p[i] = q[k] /\ p[i + 1] = q[k + 1]
    BY <1>16, <2>1
  <2>5. u[i + 1] = t[k + 1]
    BY <1>2, <2>1
  <2>6. ValueAt(mm, i) = ValueAt(m, k)
    <3>1. ValueAt(mm, k + c) = ValueAt(m, k)
      <4>1. e \in Int /\ c \in Int /\ DOMAIN m \subseteq Int
        BY <1>1, <1>4, <1>8
      <4> QED  BY <1>14, <1>19, <2>1, <4>1, ValueBehind
    <3> QED  BY <2>1, <3>1
  <2>7. (i + 1 \in DOMAIN aa <=> k + 1 \in DOMAIN a) /\ (i + 1 \in DOMAIN aa => aa[i + 1] = a[k + 1])
    BY <1>6, <2>1
  <2> QED  BY <2>3, <2>4, <2>5, <2>6, <2>7 DEF Follows
<1>21. Reads(p, u, g, mm, aa, f)
  BY <1>20 DEF Reads
<1> QED  BY <1>17, <1>18, <1>21 DEF LineRead

ReplacedIn(r, b, from, to, x) ==
  /\ IsBuffer(r)
  /\ r.grammar = b.grammar /\ r.revision = b.revision /\ r.next = b.next /\ r.request = b.request
  /\ r.text = Splice(b.text, from, to, x)
  /\ r.dirty = Set(Replace(b.dirty, from, to, Len(x), FALSE), from, TRUE)
  /\ r.scopes = ReplacePreserving(b.scopes, from, to, Len(x), TRUE)
  /\ r.states = Replace(b.states, from, to, Len(x), FALSE)
  /\ r.seen = Splice(b.seen, from, to, [i \in 1..Len(x) |-> Unseen])

LEMMA ReplaceFields ==
  ASSUME NEW b, IsBuffer(b), NEW from, NEW to, NEW x
  PROVE  ReplacedIn(ParserReplace(b, from, to, x), b, from, to, x)
<1> DEFINE tx == Splice(b.text, from, to, x)
           di == Set(Replace(b.dirty, from, to, Len(x), FALSE), from, TRUE)
           sc == ReplacePreserving(b.scopes, from, to, Len(x), TRUE)
           sa == Replace(b.states, from, to, Len(x), FALSE)
           se == Splice(b.seen, from, to, [i \in 1..Len(x) |-> Unseen])
           r  == ParserReplace(b, from, to, x)
<1>1. r = [b EXCEPT !.text = tx, !.dirty = di, !.scopes = sc, !.states = sa, !.seen = se]
  BY DEF ParserReplace
<1> HIDE DEF tx, di, sc, sa, se, r
<1>2. r = [text |-> tx, revision |-> b.revision, next |-> b.next, grammar |-> b.grammar, dirty |-> di,
           scopes |-> sc, states |-> sa, seen |-> se, request |-> b.request]
  BY <1>1 DEF IsBuffer
<1>3. /\ IsBuffer(r)
      /\ r.grammar = b.grammar /\ r.revision = b.revision /\ r.next = b.next /\ r.request = b.request
      /\ r.text = tx /\ r.dirty = di /\ r.scopes = sc /\ r.states = sa /\ r.seen = se
  BY <1>2 DEF IsBuffer
<1>4. ReplacedIn(r, b, from, to, x)
  BY <1>3 DEF ReplacedIn, tx, di, sc, sa, se
<1> QED  BY <1>4 DEF r

LEMMA ReplaceKeeps ==
  ASSUME NEW b, BufferRead(b), NEW from \in Nat, NEW to \in Nat, from <= to, to <= Len(b.text), NEW x \in Seq(TextChars)
  PROVE  BufferRead(ParserReplace(b, from, to, x))
<1> DEFINE r == ParserReplace(b, from, to, x)  t == b.text  u == r.text  g == b.grammar  n == Len(x)
           d == b.dirty  m == b.scopes  a == b.states  dd == r.dirty  mm == r.scopes  aa == r.states
           d2 == Replace(d, from, to, n, FALSE)
<1>1. IsBuffer(b) /\ t \in Seq(TextChars) /\ MapsIn(Len(t), d, m, a) /\ LinesRead(t, g, d, m, a)
  BY DEF BufferRead
<1>2. IsBuffer(r) /\ r.grammar = g /\ u = Splice(t, from, to, x) /\ dd = Set(d2, from, TRUE)
      /\ mm = ReplacePreserving(m, from, to, n, TRUE) /\ aa = Replace(a, from, to, n, FALSE)
  <2>1. ReplacedIn(r, b, from, to, x)
    BY <1>1, ReplaceFields
  <2> HIDE DEF r
  <2> QED  BY <2>1 DEF ReplacedIn
<1>3. to <= Len(t)
  OBVIOUS
<1> HIDE DEF r, d, m, a, dd, mm, aa, t, u, g, d2
<1>4. /\ u \in Seq(TextChars) /\ Len(u) = Len(t) + (n - (to - from)) /\ Len(t) + (n - (to - from)) \in Nat
      /\ \A i \in 1 .. from : u[i] = t[i]
      /\ \A i \in to + 1 .. Len(t) : u[i + (n - (to - from))] = t[i]
  <2>1. SameParts(Splice(t, from, to, x), TextChars, t, from, to, n)
    BY <1>1, <1>3, SpliceParts
  <2> HIDE DEF n
  <2> QED  BY <1>2, <2>1 DEF SameParts
<1>5. n \in Nat /\ Len(t) \in Nat /\ n - (to - from) \in Int
  BY <1>1
<1> HIDE DEF n
<1>6. /\ d = [k \in DOMAIN d |-> d[k]] /\ DOMAIN d \subseteq 0 .. Len(t)
      /\ DOMAIN m \subseteq -1 .. Len(t)
      /\ DOMAIN a \subseteq -1 .. Len(t) /\ -1 \in DOMAIN a /\ a[-1] = FALSE
  BY <1>1 DEF MapsIn
<1>7. DOMAIN d \subseteq Int /\ DOMAIN m \subseteq Int /\ DOMAIN a \subseteq Int
  BY <1>6
<1>8. StatesMoved(aa, a, from, to, n) /\ ScopesMoved(mm, m, from, to, n)
  BY <1>2, <1>5, <1>7, StatesMove, ScopesMove
<1>9. StatesMoved(d2, d, from, to, n)
  BY <1>5, <1>7, StatesMove DEF d2
<1>10. dd = [k \in DOMAIN dd |-> dd[k]] /\ DOMAIN dd = {from} \cup DOMAIN d2
  BY <1>2 DEF Set
<1>11. ASSUME NEW k \in DOMAIN d PROVE (k <= from => k \in DOMAIN dd) /\ (to < k => k + n - (to - from) \in DOMAIN dd)
  <2>1. k \in Int
    BY <1>7
  <2>2. k <= from => k \in DOMAIN d2
    BY <1>9, <2>1 DEF StatesMoved
  <2>3. ASSUME to < k PROVE k + n - (to - from) \in DOMAIN d2
    <3> DEFINE j == k + n - (to - from)
    <3>1. j \in Int /\ from + n < j /\ j - n + (to - from) = k
      BY <1>5, <2>1, <2>3
    <3> HIDE DEF j
    <3>2. j \in DOMAIN d2
      BY <1>9, <3>1 DEF StatesMoved
    <3> QED  BY <3>2 DEF j
  <2> QED  BY <1>10, <2>2, <2>3
<1>12. Edited(TextChars, t, d, m, a, from, to, n, u, dd, mm, aa)
  <2>1. \A i \in to + 1 .. Len(t) : u[i + n - (to - from)] = t[i]
    <3>1. \A i \in to + 1 .. Len(t) : i + n - (to - from) = i + (n - (to - from))
      BY <1>5
    <3> QED  BY <1>4, <3>1
  <2>2. Len(u) = Len(t) + n - (to - from)
    BY <1>4, <1>5
  <2>3. from \in DOMAIN dd
    BY <1>10
  <2> QED  BY <1>1, <1>3, <1>4, <1>5, <1>6, <1>7, <1>8, <1>11, <2>1, <2>2, <2>3 DEF Edited
<1>13. LinesRead(u, g, dd, mm, aa)
  <2> SUFFICES ASSUME NEW f, Start(u, f), Clean(u, dd, f), Known(aa, f) PROVE LineRead(u, g, mm, aa, f)
    BY DEF LinesRead
  <2>1. f \in Nat
    BY DEF Start
  <2>2. CASE f <= from
    BY <1>1, <1>12, <2>2, LineBefore
  <2>3. CASE from < f
    BY <1>1, <1>12, <2>3, LineBehind
  <2> QED  BY <2>1, <2>2, <2>3
<1>14. MapsIn(Len(u), dd, mm, aa)
  <2>0. Len(u) \in Nat /\ Len(u) = Len(t) + n - (to - from) /\ from <= Len(u) /\ from + n <= Len(u)
    BY <1>3, <1>4, <1>5
  <2>1. ASSUME NEW k \in Int, from + n < k, k - n + (to - from) <= Len(t) PROVE k <= Len(u)
    BY <1>5, <2>0, <2>1
  <2>2. DOMAIN d2 \subseteq 0 .. Len(u)
    <3> SUFFICES ASSUME NEW k \in DOMAIN d2 PROVE k \in 0 .. Len(u)
      OBVIOUS
    <3>1. k \in Int /\ ((k <= from /\ k \in DOMAIN d) \/ (from + n < k /\ k - n + (to - from) \in DOMAIN d))
      BY <1>9 DEF StatesMoved
    <3>2. CASE k <= from /\ k \in DOMAIN d
      BY <1>6, <2>0, <3>2
    <3>3. CASE from + n < k /\ k - n + (to - from) \in DOMAIN d
      <4>1. k - n + (to - from) <= Len(t)
        BY <1>6, <3>3
      <4> QED  BY <1>5, <2>0, <2>1, <3>1, <3>3, <4>1
    <3> QED  BY <3>1, <3>2, <3>3
  <2>3. DOMAIN aa \subseteq -1 .. Len(u)
    <3> SUFFICES ASSUME NEW k \in DOMAIN aa PROVE k \in -1 .. Len(u)
      OBVIOUS
    <3>1. k \in Int /\ ((k <= from /\ k \in DOMAIN a) \/ (from + n < k /\ k - n + (to - from) \in DOMAIN a))
      BY <1>8 DEF StatesMoved
    <3>2. CASE k <= from /\ k \in DOMAIN a
      BY <1>6, <2>0, <3>2
    <3>3. CASE from + n < k /\ k - n + (to - from) \in DOMAIN a
      <4>1. k - n + (to - from) <= Len(t)
        BY <1>6, <3>3
      <4> QED  BY <1>5, <2>0, <2>1, <3>1, <3>3, <4>1
    <3> QED  BY <3>1, <3>2, <3>3
  <2>4. DOMAIN mm \subseteq -1 .. Len(u)
    <3> SUFFICES ASSUME NEW k \in DOMAIN mm PROVE k \in -1 .. Len(u)
      OBVIOUS
    <3>1. k \in Int /\ (k < from \/ from + n < k \/ k \in from .. from + n)
      BY <1>8 DEF ScopesMoved
    <3>2. CASE k < from
      <4>1. k \in DOMAIN m
        BY <1>8, <3>1, <3>2 DEF ScopesMoved
      <4> QED  BY <1>6, <2>0, <3>1, <3>2, <4>1
    <3>3. CASE from + n < k
      <4>1. k - n + (to - from) \in DOMAIN m
        BY <1>8, <3>1, <3>3 DEF ScopesMoved
      <4>2. k - n + (to - from) <= Len(t)
        BY <1>6, <4>1
      <4> QED  BY <1>5, <2>0, <2>1, <3>1, <3>3, <4>2
    <3>4. CASE k \in from .. from + n
      BY <1>5, <2>0, <3>4
    <3> QED  BY <3>1, <3>2, <3>3, <3>4
  <2>5. -1 \in DOMAIN aa /\ aa[-1] = FALSE
    <3>1. -1 \in Int /\ -1 <= from
      OBVIOUS
    <3> QED  BY <1>6, <1>8, <3>1 DEF StatesMoved
  <2>6. DOMAIN dd \subseteq 0 .. Len(u)
    BY <1>10, <2>0, <2>2
  <2> QED  BY <1>10, <2>3, <2>4, <2>5, <2>6 DEF MapsIn
<1>15. BufferRead(r)
  BY <1>2, <1>4, <1>13, <1>14 DEF BufferRead, g, u, dd, mm, aa
<1> QED  BY <1>15 DEF r

-----------------------------------------------------------------------------
(* Line by line up to the first that is dirty: the parse of the text.      *)

LEMMA FirstDirtyFacts ==
  ASSUME NEW b, MapsIn(Len(b.text), b.dirty, b.scopes, b.states), b.text \in Seq(TextChars)
  PROVE  /\ b.dirty = NoKeys <=> DOMAIN b.dirty = {}
         /\ b.dirty # NoKeys => /\ FirstDirty(b) \in DOMAIN b.dirty /\ FirstDirty(b) \in 0 .. Len(b.text)
                                /\ \A k \in DOMAIN b.dirty : FirstDirty(b) <= k
<1> DEFINE d == b.dirty
<1>1. d = [k \in DOMAIN d |-> d[k]] /\ DOMAIN d \subseteq 0 .. Len(b.text)
  BY DEF MapsIn
<1>2. d = NoKeys <=> DOMAIN d = {}
  <2> HIDE DEF d
  <2>1. DOMAIN d = {} => d = NoKeys
    BY <1>1, IsNoKeys
  <2> QED  BY <2>1, NoKeysFacts
<1>3. ASSUME DOMAIN d # {} PROVE Min(DOMAIN d) \in DOMAIN d /\ \A k \in DOMAIN d : Min(DOMAIN d) <= k
  <2>1. DOMAIN d \in SUBSET Nat
    BY <1>1
  <2> HIDE DEF d
  <2> QED  BY <1>3, <2>1, HasMin
<1> QED  BY <1>1, <1>2, <1>3 DEF FirstDirty

\* Two parses that begin with one state.
Flips(q, t, g, p, e) == \A i \in p .. e - 1 : q[i + 1] = Flip(t[i + 1], g, q[i])
SameIn(q, r, p, e)   == \A i \in p .. e : q[i] = r[i]

LEMMA ParsesAgree ==
  ASSUME NEW p \in Nat, NEW e \in Nat, p <= e, NEW q, NEW Q, NEW t, NEW g, q[p] = Q[p], Flips(q, t, g, p, e), Flips(Q, t, g, p, e)
  PROVE  SameIn(q, Q, p, e)
<1> DEFINE Bad == {i \in p .. e : q[i] # Q[i]}
<1> SUFFICES ASSUME Bad # {} PROVE FALSE
  BY DEF SameIn
<1>1. PICK i \in Bad : \A j \in Bad : i <= j
  <2>1. Bad \in SUBSET Nat
    OBVIOUS
  <2> HIDE DEF Bad
  <2> QED  BY <2>1, HasMin
<1>2. i \in p .. e /\ q[i] # Q[i] /\ i # p
  BY <1>1
<1>3. i - 1 \in p .. e - 1 /\ i - 1 \in p .. e /\ (i - 1) + 1 = i /\ ~(i <= i - 1)
  BY <1>2
<1>4. q[i - 1] = Q[i - 1]
  BY <1>1, <1>3
<1>5. q[(i - 1) + 1] = Flip(t[(i - 1) + 1], g, q[i - 1]) /\ Q[(i - 1) + 1] = Flip(t[(i - 1) + 1], g, Q[i - 1])
  BY <1>3 DEF Flips
<1> QED  BY <1>2, <1>3, <1>4, <1>5

LEMMA QuotedFlips ==
  ASSUME NEW S, NEW t \in Seq(S), NEW g, NEW s
  PROVE  Quoted(t, g, s)[0] = s /\ Flips(Quoted(t, g, s), t, g, 0, Len(t))
<1>1. Len(t) \in Nat
  OBVIOUS
<1> QED  BY <1>1, QuotedFacts DEF Flips

\* A line that begins with the right state has the right scopes, and the one
\* behind it begins with the right state.
Agrees(Q, t, g, m, a, i) ==
  /\ ValueAt(m, i) = Here(g, Q[i], t[i + 1])
  /\ t[i + 1] = Newline => i + 1 \in DOMAIN a /\ a[i + 1] = Q[i + 1]

LEMMA LineAgrees ==
  ASSUME NEW S, NEW t \in Seq(S), NEW g, NEW d, NEW m, NEW a, LinesRead(t, g, d, m, a),
         NEW p, Start(t, p), Clean(t, d, p), Known(a, p), StateOf(a, p) = Quoted(t, g, FALSE)[p],
         NEW i \in p .. Len(t) - 1, OneLine(t, p, i)
  PROVE  Agrees(Quoted(t, g, FALSE), t, g, m, a, i)
<1> DEFINE Q == Quoted(t, g, FALSE)
<1>1. Len(t) \in Nat /\ p \in Nat /\ i \in Nat /\ p <= i /\ i < Len(t)
  BY DEF Start
<1>2. PICK q : q[p] = StateOf(a, p) /\ Reads(q, t, g, m, a, p)
  BY DEF LinesRead, LineRead
<1>3. \A k \in 0 .. Len(t) - 1 : Q[k + 1] = Flip(t[k + 1], g, Q[k])
  <2>1. Flips(Q, t, g, 0, Len(t))
    BY QuotedFlips
  <2> HIDE DEF Q
  <2> QED  BY <2>1 DEF Flips
<1>4. q[p] = Q[p]
  BY <1>2
<1> HIDE DEF Q
<1>5. ASSUME NEW k \in p .. i PROVE Follows(q, t, g, m, a, k) /\ q[k + 1] = Flip(t[k + 1], g, q[k]) /\ Q[k + 1] = Flip(t[k + 1], g, Q[k])
  <2>1. k \in p .. Len(t) - 1 /\ k \in 0 .. Len(t) - 1 /\ k <= i /\ p <= k
    BY <1>1
  <2>2. \A j \in p + 1 .. k : j \in p + 1 .. i
    BY <1>1, <2>1
  <2>3. OneLine(t, p, k)
    BY <2>1, <2>2 DEF OneLine
  <2>4. Follows(q, t, g, m, a, k)
    BY <1>2, <2>1, <2>3 DEF Reads
  <2> QED  BY <1>3, <2>1, <2>4 DEF Follows
<1>6. \A k \in p .. i + 1 : q[k] = Q[k]
  <2>1. i + 1 \in Nat /\ p <= i + 1 /\ (i + 1) - 1 = i
    BY <1>1
  <2>2. Flips(q, t, g, p, i + 1) /\ Flips(Q, t, g, p, i + 1)
    BY <1>5, <2>1 DEF Flips
  <2>3. SameIn(q, Q, p, i + 1)
    BY <1>1, <1>4, <2>1, <2>2, ParsesAgree
  <2> QED  BY <2>3 DEF SameIn
<1>7. q[i] = Q[i] /\ q[i + 1] = Q[i + 1] /\ Follows(q, t, g, m, a, i)
  <2>1. i \in p .. i + 1 /\ i + 1 \in p .. i + 1 /\ i \in p .. i
    BY <1>1
  <2> QED  BY <1>5, <1>6, <2>1
<1> QED  BY <1>7 DEF Follows, Agrees, Q

\* No line before the first dirty one is dirty.
Upto(b, f) == b.dirty = NoKeys \/ f <= BeginOf(b.text, FirstDirty(b))

LEMMA CleanBefore ==
  ASSUME NEW b, BufferRead(b), NEW p, Start(b.text, p), NEW f \in Nat, p < f, Upto(b, f)
  PROVE  Clean(b.text, b.dirty, p)
<1> SUFFICES ASSUME NEW k \in DOMAIN b.dirty, OneLine(b.text, p, k) PROVE FALSE
  BY DEF Clean
<1>1. b.text \in Seq(TextChars) /\ MapsIn(Len(b.text), b.dirty, b.scopes, b.states)
  BY DEF BufferRead
<1>2. b.dirty # NoKeys /\ FirstDirty(b) \in 0 .. Len(b.text) /\ FirstDirty(b) <= k
  BY <1>1, FirstDirtyFacts
<1> DEFINE F == BeginOf(b.text, FirstDirty(b))
<1>3. Start(b.text, F) /\ OneLine(b.text, F, FirstDirty(b))
  BY <1>1, <1>2, BeginFacts
<1>4. f <= F
  BY <1>2 DEF Upto
<1>5. k \in Int
  BY <1>1 DEF MapsIn
<1> HIDE DEF F
<1>6. F \in Nat /\ F <= k /\ p \in Nat
  BY <1>1, <1>2, <1>3, <1>5 DEF Start, OneLine
<1>7. F \in p + 1 .. k /\ F # 0
  BY <1>4, <1>5, <1>6
<1> QED  BY <1>3, <1>7 DEF Start, OneLine

\* Up to the first dirty line, each begins with the state of the parse of the whole text.
StateReached(t, g, a, f) == Known(a, f) /\ StateOf(a, f) = Quoted(t, g, FALSE)[f]

LEMMA StatesReached ==
  ASSUME NEW b, BufferRead(b), NEW f, Start(b.text, f), Upto(b, f)
  PROVE  StateReached(b.text, b.grammar, b.states, f)
<1> DEFINE t == b.text  g == b.grammar  a == b.states
           Bad == {i \in 0 .. f : Start(t, i) /\ ~StateReached(t, g, a, i)}
<1>1. t \in Seq(TextChars) /\ Len(t) \in Nat /\ f \in Nat /\ f <= Len(t)
  BY DEF BufferRead, Start
<1> SUFFICES ASSUME Bad # {} PROVE FALSE
  <2>1. f \in 0 .. f
    BY <1>1
  <2> QED  BY <2>1
<1>2. PICK i \in Bad : \A j \in Bad : i <= j
  <2>1. Bad \in SUBSET Nat
    OBVIOUS
  <2> HIDE DEF Bad
  <2> QED  BY <2>1, HasMin
<1>3. i \in 0 .. f /\ Start(t, i) /\ ~StateReached(t, g, a, i)
  BY <1>2
<1>4. i # 0
  <2>1. Quoted(t, g, FALSE)[0] = FALSE
    BY <1>1, QuotedFlips
  <2> HIDE DEF Bad, t, g, a
  <2> QED  BY <1>3, <2>1 DEF StateReached, Known, StateOf
<1>5. i - 1 \in 0 .. Len(t) /\ i - 1 \in 0 .. Len(t) - 1 /\ (i - 1) + 1 = i /\ t[i] = Newline /\ i \in Nat
  BY <1>1, <1>3, <1>4 DEF Start
<1> DEFINE p == BeginOf(t, i - 1)
<1>6. Start(t, p) /\ OneLine(t, p, i - 1)
  BY <1>1, <1>5, BeginFacts
<1> HIDE DEF p
<1>7. p \in 0 .. f /\ p < i /\ ~(i <= p) /\ i - 1 \in p .. Len(t) - 1
  BY <1>1, <1>3, <1>5, <1>6 DEF Start, OneLine
<1>8. StateReached(t, g, a, p)
  BY <1>2, <1>6, <1>7
<1>9. Upto(b, i)
  <2>1. CASE b.dirty # NoKeys
    <3>1. FirstDirty(b) \in 0 .. Len(t)
      BY <2>1, <1>1, FirstDirtyFacts DEF BufferRead
    <3>2. BeginOf(t, FirstDirty(b)) \in Nat
      BY <1>1, <3>1, BeginFacts DEF Start
    <3>3. f <= BeginOf(t, FirstDirty(b))
      BY <2>1 DEF Upto
    <3> QED  BY <1>1, <1>3, <3>2, <3>3 DEF Upto
  <2> QED  BY <2>1 DEF Upto
<1>10. Clean(t, b.dirty, p)
  BY <1>5, <1>6, <1>7, <1>9, CleanBefore
<1>11. LinesRead(t, g, b.dirty, b.scopes, a)
  BY DEF BufferRead
<1>12. Known(a, p) /\ StateOf(a, p) = Quoted(t, g, FALSE)[p]
  BY <1>8 DEF StateReached
<1> HIDE DEF t, g, a
<1>13. Agrees(Quoted(t, g, FALSE), t, g, b.scopes, a, i - 1)
  BY <1>1, <1>6, <1>7, <1>10, <1>11, <1>12, LineAgrees
<1> QED  BY <1>3, <1>4, <1>5, <1>13 DEF Agrees, StateReached, Known, StateOf

\* The characters before the first dirty line have the scopes of that parse.
LEMMA ScopesReached ==
  ASSUME NEW b, BufferRead(b), NEW f \in 0 .. Len(b.text), Upto(b, f), NEW i \in 0 .. f - 1
  PROVE  ValueAt(b.scopes, i) = Here(b.grammar, Quoted(b.text, b.grammar, FALSE)[i], b.text[i + 1])
<1> DEFINE t == b.text  g == b.grammar  a == b.states
<1>1. t \in Seq(TextChars) /\ Len(t) \in Nat /\ f \in Nat /\ f <= Len(t) /\ i \in Nat /\ i < f /\ i \in 0 .. Len(t)
  BY DEF BufferRead
<1> DEFINE p == BeginOf(t, i)
<1>2. Start(t, p) /\ OneLine(t, p, i)
  BY <1>1, BeginFacts
<1> HIDE DEF p
<1>3. p \in Nat /\ p <= i /\ p < f /\ i \in p .. Len(t) - 1
  BY <1>1, <1>2 DEF Start, OneLine
<1>4. Upto(b, p)
  <2>1. CASE b.dirty # NoKeys
    <3>1. FirstDirty(b) \in 0 .. Len(t)
      BY <2>1, <1>1, FirstDirtyFacts DEF BufferRead
    <3>2. BeginOf(t, FirstDirty(b)) \in Nat
      BY <1>1, <3>1, BeginFacts DEF Start
    <3>3. f <= BeginOf(t, FirstDirty(b))
      BY <2>1 DEF Upto
    <3> QED  BY <1>1, <1>3, <3>2, <3>3 DEF Upto
  <2> QED  BY <2>1 DEF Upto
<1>5. Known(a, p) /\ StateOf(a, p) = Quoted(t, g, FALSE)[p]
  BY <1>2, <1>4, StatesReached DEF StateReached
<1>6. Clean(t, b.dirty, p)
  BY <1>1, <1>2, <1>3, CleanBefore
<1>7. LinesRead(t, g, b.dirty, b.scopes, a)
  BY DEF BufferRead
<1> HIDE DEF t, g, a
<1>8. Agrees(Quoted(t, g, FALSE), t, g, b.scopes, a, i)
  BY <1>1, <1>2, <1>3, <1>5, <1>6, <1>7, LineAgrees
<1> QED  BY <1>8 DEF Agrees, t, g

\* So the state that the first dirty line begins with is known.
LEMMA FirstKnown ==
  ASSUME NEW b, BufferRead(b), b.dirty # NoKeys
  PROVE  LET from == BeginOf(b.text, FirstDirty(b)) IN
         /\ Start(b.text, from) /\ OneLine(b.text, from, FirstDirty(b))
         /\ Known(b.states, from) /\ StateKnown(b, from) /\ StateAt(b, from) = StateOf(b.states, from)
<1> DEFINE from == BeginOf(b.text, FirstDirty(b))  a == b.states
<1>1. b.text \in Seq(TextChars) /\ MapsIn(Len(b.text), b.dirty, b.scopes, b.states)
  BY DEF BufferRead
<1>2. FirstDirty(b) \in 0 .. Len(b.text)
  BY <1>1, FirstDirtyFacts
<1>3. Start(b.text, from) /\ OneLine(b.text, from, FirstDirty(b))
  BY <1>1, <1>2, BeginFacts
<1>4. from \in Nat /\ Upto(b, from)
  BY <1>3 DEF Start, Upto
<1> HIDE DEF from
<1>5. Known(a, from)
  BY <1>3, <1>4, StatesReached DEF StateReached
<1>6. Min(DOMAIN a) = -1 /\ a[-1] = FALSE
  <2>1. -1 \in DOMAIN a /\ (\A k \in DOMAIN a : -1 <= k) /\ DOMAIN a \subseteq Int /\ a[-1] = FALSE
    BY <1>1 DEF MapsIn
  <2> HIDE DEF a
  <2>2. Min(DOMAIN a) \in DOMAIN a /\ \A k \in DOMAIN a : Min(DOMAIN a) <= k
    BY <2>1 DEF Min
  <2>3. Min(DOMAIN a) \in Int /\ Min(DOMAIN a) <= -1 /\ -1 <= Min(DOMAIN a)
    BY <2>1, <2>2
  <2> QED  BY <2>1, <2>3
<1>7. StateAt(b, from) = StateOf(a, from)
  BY <1>6 DEF StateAt, StateOf
<1>8. StateKnown(b, from)
  BY <1>5 DEF Known, StateKnown
<1> QED  BY <1>3, <1>5, <1>7, <1>8 DEF from

\* What the invariant says of the text before the first dirty line.
LEMMA PrefixRead ==
  ASSUME BufferRead(buf)
  PROVE  PrefixParsed
<1> DEFINE t == buf.text  g == buf.grammar
           first == IF buf.dirty = NoKeys THEN Len(t) ELSE BeginOf(t, FirstDirty(buf))
<1>1. t \in Seq(TextChars) /\ Len(t) \in Nat
  BY DEF BufferRead
<1>2. first \in 0 .. Len(t) /\ Upto(buf, first)
  <2>1. CASE buf.dirty # NoKeys
    BY <2>1, FirstKnown DEF Upto, Start
  <2>2. CASE buf.dirty = NoKeys
    BY <1>1, <2>2 DEF Upto
  <2> QED  BY <2>1, <2>2
<1>3. ASSUME NEW i \in 0 .. first - 1 PROVE ValueAt(buf.scopes, i) = Reference(i)
  <2> HIDE DEF first
  <2>1. ValueAt(buf.scopes, i) = Here(g, Quoted(t, g, FALSE)[i], t[i + 1])
    BY <1>2, ScopesReached
  <2> QED  BY <2>1 DEF Here, Reference
<1>4. ASSUME NEW i \in 1 .. first, i \in DOMAIN buf.states, BeginOf(t, i) = i
      PROVE  buf.states[i] = Quoted(t, g, FALSE)[i]
  <2> HIDE DEF first
  <2>1. i \in 0 .. Len(t) /\ i # 0 /\ first \in Nat /\ i <= first
    BY <1>1, <1>2
  <2>2. Start(t, i)
    BY <1>1, <1>4, <2>1, BeginFacts
  <2>3. Upto(buf, i)
    <3>1. CASE buf.dirty # NoKeys
      <4>1. BeginOf(t, FirstDirty(buf)) \in Nat
        BY <3>1, FirstKnown DEF Start
      <4>2. first <= BeginOf(t, FirstDirty(buf))
        BY <1>2, <3>1 DEF Upto
      <4> QED  BY <2>1, <4>1, <4>2 DEF Upto
    <3> QED  BY <3>1 DEF Upto
  <2>4. StateReached(t, g, buf.states, i)
    BY <2>2, <2>3, StatesReached
  <2> QED  BY <2>1, <2>4 DEF StateReached, StateOf
<1> QED  BY <1>3, <1>4 DEF PrefixParsed

-----------------------------------------------------------------------------
(* A parse of the first dirty line is started.                             *)

\* No parse that runs is none.
NoRequestIsNone ==
  \A f, t, r, l, a, ls, st :
    [from |-> f, to |-> t, revision |-> r, limit |-> l, batch |-> a, scopes |-> ls, state |-> st] # NoRequest

\* What the hooks saw, one value for each character.
SeenWhole(b) == \E S : b.seen \in Seq(S) /\ Len(b.seen) = Len(b.text)

ParserSound(b) == BufferRead(b) /\ SeenWhole(b)

SameText(c, b)  == c.text = b.text /\ c.grammar = b.grammar /\ c.revision = b.revision /\ c.next = b.next
SameParse(c, b) == c.dirty = b.dirty /\ c.scopes = b.scopes /\ c.states = b.states

\* The request is a parse of a line of the text t, from the state s.
RequestOf(q, t, g, s) == Start(t, q.from) /\ ParseOf(t, g, q.from, q.to, s, q.scopes, q.state)

\* It is one of the text as it is, with the state that its line begins with.
Fresh(c) ==
  /\ c.request # NoRequest /\ c.request.revision = c.revision
  /\ RequestOf(c.request, c.text, c.grammar, StateOf(c.states, c.request.from))
Restarted(c) == (c.dirty = NoKeys /\ c.request = NoRequest) \/ Fresh(c)

Initiated(c, b) ==
  /\ SameText(c, b) /\ SameParse(c, b)
  /\ b.request # NoRequest => c.request = b.request
  /\ b.request = NoRequest => Restarted(c)

LEMMA InitiateFacts ==
  ASSUME NoRequestIsNone, NEW b, ParserSound(b), NEW limit, NEW batch
  PROVE  ParserSound(InitiateRepair(b, limit, batch)) /\ Initiated(InitiateRepair(b, limit, batch), b)
<1> DEFINE c == InitiateRepair(b, limit, batch)
<1>1. CASE b.request # NoRequest \/ b.dirty = NoKeys
  <2>1. c = b
    BY <1>1 DEF InitiateRepair
  <2> QED  BY <1>1, <2>1 DEF Initiated, SameText, SameParse, Restarted
<1>2. CASE ~(b.request # NoRequest \/ b.dirty = NoKeys)
  <2> DEFINE from == BeginOf(b.text, FirstDirty(b))
             to   == EndOf(b.text, from)
             line == Substr(b.text, from, to)
             ls   == LineScopes(line, b.grammar, StateAt(b, from))
             st   == LineState(line, b.grammar, StateAt(b, from))
             bb   == IF batch = NoBatch THEN from ELSE batch
             q    == [from |-> from, to |-> to, revision |-> b.revision, limit |-> limit, batch |-> bb, scopes |-> ls, state |-> st]
  <2>1. BufferRead(b) /\ SeenWhole(b) /\ IsBuffer(b)
    BY DEF ParserSound, BufferRead
  <2>2. Start(b.text, from) /\ StateKnown(b, from) /\ StateAt(b, from) = StateOf(b.states, from)
    BY <1>2, <2>1, FirstKnown
  <2>3. c = [b EXCEPT !.request = q]
    BY <1>2, <2>2 DEF InitiateRepair
  <2>4. ParseOf(b.text, b.grammar, from, to, StateAt(b, from), ls, st)
    BY DEF ParseOf
  <2>5. q.from = from /\ q.to = to /\ q.revision = b.revision /\ q.scopes = ls /\ q.state = st
    OBVIOUS
  <2>6. q # NoRequest
    BY DEF NoRequestIsNone
  <2> HIDE DEF from, to, ls, st, bb, q, c
  <2>7. c = [text |-> b.text, revision |-> b.revision, next |-> b.next, grammar |-> b.grammar, dirty |-> b.dirty,
             scopes |-> b.scopes, states |-> b.states, seen |-> b.seen, request |-> q]
    BY <2>1, <2>3 DEF IsBuffer
  <2>8. IsBuffer(c) /\ SameText(c, b) /\ SameParse(c, b) /\ c.seen = b.seen /\ c.request = q
    BY <2>7 DEF IsBuffer, SameText, SameParse
  <2>9. RequestOf(q, b.text, b.grammar, StateOf(b.states, q.from))
    BY <2>2, <2>4, <2>5 DEF RequestOf
  <2>10. Fresh(c)
    BY <2>5, <2>6, <2>8, <2>9 DEF Fresh, SameText, SameParse
  <2>11. ParserSound(c)
    BY <2>1, <2>8 DEF ParserSound, BufferRead, SeenWhole, SameText, SameParse
  <2> QED  BY <1>2, <2>8, <2>10, <2>11 DEF Initiated, Restarted, c
<1> QED  BY <1>1, <1>2

\* The hooks look at the scopes.
LEMMA DidParseFacts ==
  ASSUME NEW b, ParserSound(b), NEW from, NEW to
  PROVE  LET c == DidParse(b, from, to) IN
         ParserSound(c) /\ SameText(c, b) /\ SameParse(c, b) /\ c.request = b.request
<1> DEFINE c == DidParse(b, from, to)
           se == [i \in DOMAIN b.seen |-> IF from < i /\ i <= to THEN ValueAt(b.scopes, i - 1) ELSE b.seen[i]]
<1>1. BufferRead(b) /\ SeenWhole(b) /\ IsBuffer(b)
  BY DEF ParserSound, BufferRead
<1>2. c = [b EXCEPT !.seen = se]
  BY DEF DidParse
<1>3. \E S : se \in Seq(S) /\ Len(se) = Len(b.text)
  <2>1. PICK S : b.seen \in Seq(S) /\ Len(b.seen) = Len(b.text)
    BY <1>1 DEF SeenWhole
  <2>2. DOMAIN se = 1 .. Len(b.seen) /\ Len(b.seen) \in Nat
    BY <2>1
  <2> DEFINE R == {se[i] : i \in DOMAIN se}
  <2>3. se \in [1 .. Len(b.seen) -> R]
    BY <2>2
  <2> HIDE DEF se
  <2>4. se \in Seq(R) /\ Len(se) = Len(b.seen)
    BY <2>2, <2>3
  <2> QED  BY <2>1, <2>4
<1> HIDE DEF se, c
<1>4. c = [text |-> b.text, revision |-> b.revision, next |-> b.next, grammar |-> b.grammar, dirty |-> b.dirty,
           scopes |-> b.scopes, states |-> b.states, seen |-> se, request |-> b.request]
  BY <1>1, <1>2 DEF IsBuffer
<1>5. IsBuffer(c) /\ SameText(c, b) /\ SameParse(c, b) /\ c.seen = se /\ c.request = b.request
  BY <1>4 DEF IsBuffer, SameText, SameParse
<1>6. ParserSound(c)
  BY <1>1, <1>3, <1>5 DEF ParserSound, BufferRead, SeenWhole, SameText, SameParse
<1> QED  BY <1>5, <1>6 DEF c

\* No request any more, or another revision: the text and its maps are as they were.
LEMMA RequestSet ==
  ASSUME NEW b, ParserSound(b), NEW q
  PROVE  LET c == [b EXCEPT !.request = q] IN
         ParserSound(c) /\ SameParse(c, b) /\ SameText(c, b) /\ c.request = q
<1> DEFINE c == [b EXCEPT !.request = q]
<1>1. BufferRead(b) /\ SeenWhole(b) /\ IsBuffer(b)
  BY DEF ParserSound, BufferRead
<1>2. c = [text |-> b.text, revision |-> b.revision, next |-> b.next, grammar |-> b.grammar, dirty |-> b.dirty,
           scopes |-> b.scopes, states |-> b.states, seen |-> b.seen, request |-> q]
  BY <1>1 DEF IsBuffer
<1> HIDE DEF c
<1>3. IsBuffer(c) /\ SameParse(c, b) /\ c.seen = b.seen /\ SameText(c, b) /\ c.request = q
  BY <1>2 DEF IsBuffer, SameParse, SameText
<1>4. ParserSound(c)
  BY <1>1, <1>3 DEF ParserSound, BufferRead, SeenWhole, SameParse, SameText
<1> QED  BY <1>3, <1>4 DEF c

LEMMA RevisionSet ==
  ASSUME NEW b, ParserSound(b), NEW r
  PROVE  LET c == [b EXCEPT !.revision = r] IN
         ParserSound(c) /\ SameParse(c, b) /\ c.request = b.request /\ c.text = b.text /\ c.grammar = b.grammar /\ c.revision = r /\ c.next = b.next
<1> DEFINE c == [b EXCEPT !.revision = r]
<1>1. BufferRead(b) /\ SeenWhole(b) /\ IsBuffer(b)
  BY DEF ParserSound, BufferRead
<1>2. c = [text |-> b.text, revision |-> r, next |-> b.next, grammar |-> b.grammar, dirty |-> b.dirty,
           scopes |-> b.scopes, states |-> b.states, seen |-> b.seen, request |-> b.request]
  BY <1>1 DEF IsBuffer
<1> HIDE DEF c
<1>3. IsBuffer(c) /\ SameParse(c, b) /\ c.seen = b.seen /\ c.request = b.request /\ c.text = b.text /\ c.grammar = b.grammar /\ c.revision = r /\ c.next = b.next
  BY <1>2 DEF IsBuffer, SameParse, SameText
<1>4. ParserSound(c)
  BY <1>1, <1>3 DEF ParserSound, BufferRead, SeenWhole, SameParse, SameText
<1> QED  BY <1>3, <1>4 DEF c

LEMMA NextSet ==
  ASSUME NEW b, ParserSound(b), NEW n
  PROVE  LET c == [b EXCEPT !.next = n] IN
         ParserSound(c) /\ SameParse(c, b) /\ c.request = b.request /\ c.text = b.text /\ c.grammar = b.grammar /\ c.revision = b.revision /\ c.next = n
<1> DEFINE c == [b EXCEPT !.next = n]
<1>1. BufferRead(b) /\ SeenWhole(b) /\ IsBuffer(b)
  BY DEF ParserSound, BufferRead
<1>2. c = [text |-> b.text, revision |-> b.revision, next |-> n, grammar |-> b.grammar, dirty |-> b.dirty,
           scopes |-> b.scopes, states |-> b.states, seen |-> b.seen, request |-> b.request]
  BY <1>1 DEF IsBuffer
<1> HIDE DEF c
<1>3. IsBuffer(c) /\ SameParse(c, b) /\ c.seen = b.seen /\ c.request = b.request /\ c.text = b.text /\ c.grammar = b.grammar /\ c.revision = b.revision /\ c.next = n
  BY <1>2 DEF IsBuffer, SameParse, SameText
<1>4. ParserSound(c)
  BY <1>1, <1>3 DEF ParserSound, BufferRead, SeenWhole, SameParse, SameText
<1> QED  BY <1>3, <1>4 DEF c

\* The line from `from' to `to' as it is parsed, which begins with s if that is known.
Parsed(b, from, to, s, ls, st) ==
  /\ Start(b.text, from) /\ ParseOf(b.text, b.grammar, from, to, s, ls, st)
  /\ Known(b.states, from) => StateOf(b.states, from) = s

LEMMA UpdateFacts ==
  ASSUME NoRequestIsNone, NEW b, ParserSound(b), NEW limit, NEW batch, NEW from, NEW to, NEW s, NEW ls, NEW st,
         Parsed(b, from, to, s, ls, st)
  PROVE  LET c == UpdateScopes(b, limit, batch, from, to, ls, st) IN
         ParserSound(c) /\ SameText(c, b) /\ Restarted(c) /\ c.dirty = ParsedLine(b, from, to, ls, st).dirty
<1> DEFINE c == UpdateScopes(b, limit, batch, from, to, ls, st)  p == ParsedLine(b, from, to, ls, st)
<1>1. BufferRead(p)
  BY ParsedKeeps DEF Parsed, ParserSound
<1>2. SameText(p, b) /\ p.seen = b.seen /\ p.request = NoRequest
  <2>1. IsBuffer(b)
    BY DEF ParserSound, BufferRead
  <2> QED  BY <2>1, ParsedFields DEF SameText
<1> DEFINE r1 == InitiateRepair(p, limit - 1, batch)  p2 == DidParse(p, batch, to)  r2 == InitiateRepair(p2, LimitNext, NoBatch)
<1>3. c = r1 \/ c = r2
  BY DEF UpdateScopes
<1> HIDE DEF p
<1>4. ParserSound(p)
  BY <1>1, <1>2 DEF ParserSound, SeenWhole, SameText
<1>5. ParserSound(r1) /\ Initiated(r1, p)
  BY <1>4, InitiateFacts
<1>6. ParserSound(p2) /\ SameText(p2, p) /\ SameParse(p2, p) /\ p2.request = p.request
  BY <1>4, DidParseFacts
<1> HIDE DEF p2
<1>7. ParserSound(r2) /\ Initiated(r2, p2)
  BY <1>6, InitiateFacts
<1> HIDE DEF r1, r2
<1>8. SameText(r1, b) /\ Restarted(r1) /\ r1.dirty = p.dirty
  BY <1>2, <1>5 DEF Initiated, SameText, SameParse
<1>9. SameText(r2, b) /\ Restarted(r2) /\ r2.dirty = p.dirty
  BY <1>2, <1>6, <1>7 DEF Initiated, SameText, SameParse
<1> HIDE DEF c
<1> QED  BY <1>3, <1>5, <1>7, <1>8, <1>9 DEF c, p

\* wait_for_repair parses the first dirty line from the state it begins with.
LEMMA RepairedFacts ==
  ASSUME NoRequestIsNone, NEW b, ParserSound(b), b.dirty # NoKeys
  PROVE  /\ ParserSound(RepairedLine(b)) /\ SameText(RepairedLine(b), b) /\ Restarted(RepairedLine(b))
         /\ \E to, x, ls, st : /\ Parsed(b, BeginOf(b.text, FirstDirty(b)), to, x, ls, st)
                              /\ RepairedLine(b).dirty = ParsedLine(b, BeginOf(b.text, FirstDirty(b)), to, ls, st).dirty
<1> DEFINE from == BeginOf(b.text, FirstDirty(b))  to == EndOf(b.text, from)  line == Substr(b.text, from, to)
           ls == LineScopes(line, b.grammar, StateAt(b, from))  st == LineState(line, b.grammar, StateAt(b, from))
<1>1. BufferRead(b)
  BY DEF ParserSound
<1>2. Start(b.text, from) /\ StateAt(b, from) = StateOf(b.states, from)
  BY <1>1, FirstKnown
<1>3. ParseOf(b.text, b.grammar, from, to, StateAt(b, from), ls, st)
  BY DEF ParseOf
<1>4. RepairedLine(b) = UpdateScopes(b, 0, from, from, to, ls, st)
  BY DEF RepairedLine
<1> HIDE DEF from, to, ls, st
<1>5. Parsed(b, from, to, StateAt(b, from), ls, st)
  BY <1>2, <1>3 DEF Parsed
<1> DEFINE c == RepairedLine(b)
<1> HIDE DEF c
<1>6. ParserSound(c) /\ SameText(c, b) /\ Restarted(c) /\ c.dirty = ParsedLine(b, from, to, ls, st).dirty
  BY <1>4, <1>5, UpdateFacts DEF c
<1> QED  BY <1>5, <1>6 DEF c, from

\* The text is given a revision, and if no line is being parsed the first dirty one is.
LEMMA RevisionFacts ==
  ASSUME NoRequestIsNone, NEW b, ParserSound(b), NEW r
  PROVE  LET c == SetRevision(b, r) IN
         /\ ParserSound(c) /\ SameParse(c, b)
         /\ c.text = b.text /\ c.grammar = b.grammar /\ c.revision = r /\ c.next = b.next
         /\ b.request # NoRequest => c.request = b.request
         /\ b.request = NoRequest => Restarted(c)
<1> DEFINE d == [b EXCEPT !.revision = r]  c == InitiateRepair(d, LimitEdit, NoBatch)
<1>1. /\ ParserSound(d) /\ SameParse(d, b) /\ d.request = b.request
      /\ d.text = b.text /\ d.grammar = b.grammar /\ d.revision = r /\ d.next = b.next
  BY RevisionSet
<1> HIDE DEF d
<1>2. ParserSound(c) /\ Initiated(c, d)
  BY <1>1, InitiateFacts
<1>3. SetRevision(b, r) = c
  BY DEF SetRevision, d
<1> HIDE DEF c
<1> QED  BY <1>1, <1>2, <1>3 DEF Initiated, SameText, SameParse

\* Nothing has been parsed, and the first line is dirty.
Unparsed(b) == \E x : b.dirty = Set(NoKeys, 0, TRUE) /\ b.scopes = Set(NoKeys, -1, x) /\ b.states = Set(NoKeys, -1, FALSE)

LEMMA UnparsedRead ==
  ASSUME NEW b, IsBuffer(b), b.text \in Seq(TextChars), SeenWhole(b), Unparsed(b)
  PROVE  ParserSound(b) /\ b.dirty # NoKeys
<1>1. PICK x : b.dirty = Set(NoKeys, 0, TRUE) /\ b.scopes = Set(NoKeys, -1, x) /\ b.states = Set(NoKeys, -1, FALSE)
  BY DEF Unparsed
<1>2. DOMAIN NoKeys = {}
  BY NoKeysFacts
<1>3. b.dirty = [k \in DOMAIN b.dirty |-> b.dirty[k]] /\ DOMAIN b.dirty = {0}
  BY <1>1, <1>2 DEF Set
<1>4. DOMAIN b.scopes = {-1} /\ DOMAIN b.states = {-1} /\ b.states[-1] = FALSE
  BY <1>1, <1>2 DEF Set
<1>5. Len(b.text) \in Nat
  OBVIOUS
<1>6. MapsIn(Len(b.text), b.dirty, b.scopes, b.states)
  <2>1. 0 \in 0 .. Len(b.text) /\ -1 \in -1 .. Len(b.text)
    BY <1>5
  <2> QED  BY <1>3, <1>4, <2>1 DEF MapsIn
<1>7. LinesRead(b.text, b.grammar, b.dirty, b.scopes, b.states)
  <2> SUFFICES ASSUME NEW f, Start(b.text, f), Clean(b.text, b.dirty, f), Known(b.states, f) PROVE FALSE
    BY DEF LinesRead
  <2>1. f \in Nat
    BY DEF Start
  <2>2. f = 0
    BY <1>4, <2>1 DEF Known
  <2>3. OneLine(b.text, 0, 0)
    BY DEF OneLine
  <2> QED  BY <1>3, <2>2, <2>3 DEF Clean
<1>8. b.dirty # NoKeys
  BY <1>2, <1>3
<1> QED  BY <1>6, <1>7, <1>8 DEF ParserSound, BufferRead

\* set_grammar forgets what has been parsed.
LEMMA GrammarFacts ==
  ASSUME NoRequestIsNone, NEW b, ParserSound(b), b.request = NoRequest, NEW g
  PROVE  LET c == ResetGrammar(b, g) IN
         ParserSound(c) /\ Fresh(c) /\ c.text = b.text /\ c.revision = b.revision /\ c.next = b.next
<1> DEFINE di == Set(NoKeys, 0, TRUE)  sc == Set(NoKeys, -1, Scope(g, FALSE))  sa == Set(NoKeys, -1, FALSE)
           d == [b EXCEPT !.grammar = g, !.scopes = sc, !.states = sa, !.dirty = di]
           c == InitiateRepair(d, LimitNext, NoBatch)
<1>1. ResetGrammar(b, g) = c
  BY DEF ResetGrammar
<1>2. BufferRead(b) /\ SeenWhole(b) /\ IsBuffer(b)
  BY DEF ParserSound, BufferRead
<1> HIDE DEF di, sc, sa
<1>9. d = [b EXCEPT !.grammar = g, !.scopes = sc, !.states = sa, !.dirty = di]
  OBVIOUS
<1> HIDE DEF d, c
<1>3. d = [text |-> b.text, revision |-> b.revision, next |-> b.next, grammar |-> g, dirty |-> di,
           scopes |-> sc, states |-> sa, seen |-> b.seen, request |-> b.request]
  BY <1>2, <1>9 DEF IsBuffer
<1>4. /\ IsBuffer(d) /\ d.text = b.text /\ d.revision = b.revision /\ d.next = b.next /\ d.dirty = di /\ d.scopes = sc
      /\ d.states = sa /\ d.seen = b.seen /\ d.request = NoRequest
  BY <1>3 DEF IsBuffer
<1>5. Unparsed(d) /\ SeenWhole(d) /\ d.text \in Seq(TextChars)
  BY <1>2, <1>4 DEF Unparsed, di, sc, sa, SeenWhole, BufferRead
<1>6. ParserSound(d) /\ d.dirty # NoKeys
  BY <1>4, <1>5, UnparsedRead
<1>7. ParserSound(c) /\ Initiated(c, d)
  BY <1>6, InitiateFacts DEF c
<1>8. Fresh(c)
  BY <1>4, <1>6, <1>7 DEF Initiated, SameParse, Restarted
<1> QED  BY <1>1, <1>4, <1>7, <1>8 DEF Initiated, SameText, c

-----------------------------------------------------------------------------
(* An edit, and the one that takes it back.                                *)

\* The interval that is left of x at `pos' when y replaces it and the ends that
\* they have in common are left alone, and the length of what it gets.
CutFrom(pos, x, y) == pos + CommonPrefix(x, y)
CutTo(pos, x, y)   == pos + Len(x) - CommonSuffix(x, y, CommonPrefix(x, y))
CutLen(x, y)       == Len(y) - CommonPrefix(x, y) - CommonSuffix(x, y, CommonPrefix(x, y))

\* x is in t at `pos', and u is t with y there.
Leads(t, u, pos, x, y) ==
  /\ t \in Seq(TextChars) /\ x \in Seq(TextChars) /\ y \in Seq(TextChars)
  /\ pos \in Nat /\ pos + Len(x) <= Len(t) /\ Substr(t, pos, pos + Len(x)) = x
  /\ u = Splice(t, pos, pos + Len(x), y)

\* Taking it back is an edit of the same place.
LEMMA LeadsBack ==
  ASSUME NEW t, NEW u, NEW pos, NEW x, NEW y, Leads(t, u, pos, x, y)
  PROVE  Leads(u, t, pos, y, x) /\ u \in Seq(TextChars)
<1>1. /\ t \in Seq(TextChars) /\ x \in Seq(TextChars) /\ y \in Seq(TextChars) /\ pos \in Nat
      /\ pos + Len(x) <= Len(t) /\ Substr(t, pos, pos + Len(x)) = x /\ u = Splice(t, pos, pos + Len(x), y)
  BY DEF Leads
<1>2. Len(x) \in Nat /\ Len(y) \in Nat /\ Len(t) \in Nat /\ pos + Len(x) \in Nat /\ pos <= pos + Len(x)
  BY <1>1
<1>3. IsSplice(u, TextChars, t, pos, pos + Len(x), y)
  BY <1>1, <1>2, SpliceIs
<1>4. u \in Seq(TextChars) /\ Len(u) = Len(t) - Len(x) + Len(y)
      /\ \A i \in 1 .. Len(y) : pos + i \in 1 .. Len(u) /\ u[pos + i] = y[i]
  <2>1. u \in Seq(TextChars) /\ Len(u) = Len(t) - ((pos + Len(x)) - pos) + Len(y)
    BY <1>3 DEF IsSplice
  <2>2. Len(u) = Len(t) - Len(x) + Len(y) /\ pos + Len(y) <= Len(u)
    BY <1>1, <1>2, <2>1
  <2>3. ASSUME NEW i \in 1 .. Len(y) PROVE pos + i \in 1 .. Len(u) /\ u[pos + i] = y[i]
    <3>1. pos + i \in 1 .. Len(u) /\ ~(pos + i <= pos) /\ pos + i <= pos + Len(y) /\ (pos + i) - pos = i
      BY <1>1, <1>2, <2>1, <2>2
    <3> QED  BY <1>3, <3>1 DEF IsSplice
  <2> QED  BY <2>1, <2>2, <2>3
<1>5. pos + Len(y) <= Len(u) /\ pos + Len(y) \in Nat /\ pos <= pos + Len(y) /\ Len(u) \in Nat
  BY <1>1, <1>2, <1>4
<1>6. Substr(u, pos, pos + Len(y)) = y
  <2> DEFINE z == Substr(u, pos, pos + Len(y))
  <2> DEFINE e == pos + Len(y)
  <2>0. pos \in Nat /\ e \in Nat /\ pos <= e /\ e <= Len(u) /\ u \in Seq(TextChars) /\ z = Substr(u, pos, e)
    BY <1>1, <1>4, <1>5
  <2>2. e - pos = Len(y)
    BY <1>1, <1>2
  <2> HIDE DEF z, e
  <2>1. z \in Seq(TextChars) /\ Len(z) = e - pos /\ \A i \in 1 .. e - pos : z[i] = u[pos + i]
    BY <2>0, SubstrFacts
  <2>3. Len(z) = Len(y) /\ \A i \in 1 .. Len(y) : z[i] = y[i]
    BY <1>4, <2>1, <2>2
  <2>4. z = y
    BY <1>1, <2>1, <2>3
  <2> QED  BY <2>4 DEF z, e
<1>7. t = Splice(u, pos, pos + Len(y), x)
  BY <1>1, SpliceUndoes
<1> QED  BY <1>1, <1>4, <1>5, <1>6, <1>7 DEF Leads

LEMMA SameSuffix ==
  ASSUME NEW x, NEW y
  PROVE  /\ CommonPrefix(x, y) = CommonPrefix(y, x)
         /\ \A p : CommonSuffix(x, y, p) = CommonSuffix(y, x, p)
<1>1. {Len(x), Len(y)} = {Len(y), Len(x)}
  OBVIOUS
<1> DEFINE M == Min({Len(x), Len(y)})
<1>2. M = Min({Len(y), Len(x)})
  BY <1>1
<1> HIDE DEF M
<1>3. {n \in 0 .. M : \A i \in 1 .. n : x[i] = y[i]} = {n \in 0 .. M : \A i \in 1 .. n : y[i] = x[i]}
  OBVIOUS
<1>4. CommonPrefix(x, y) = CommonPrefix(y, x)
  BY <1>2, <1>3 DEF CommonPrefix, M
<1>5. ASSUME NEW p PROVE CommonSuffix(x, y, p) = CommonSuffix(y, x, p)
  <2>1. {n \in 0 .. M - p : \A i \in 1 .. n : x[Len(x) + 1 - i] = y[Len(y) + 1 - i]}
      = {n \in 0 .. M - p : \A i \in 1 .. n : y[Len(y) + 1 - i] = x[Len(x) + 1 - i]}
    OBVIOUS
  <2> QED  BY <1>2, <2>1 DEF CommonSuffix, M
<1> QED  BY <1>4, <1>5

Cuts(pos, x, y) ==
  /\ CutFrom(pos, x, y) \in Nat /\ CutTo(pos, x, y) \in Nat /\ CutLen(x, y) \in Nat
  /\ pos <= CutFrom(pos, x, y) /\ CutFrom(pos, x, y) <= CutTo(pos, x, y) /\ CutTo(pos, x, y) <= pos + Len(x)
  /\ CutFrom(pos, y, x) = CutFrom(pos, x, y) /\ CutTo(pos, y, x) = CutFrom(pos, x, y) + CutLen(x, y)
  /\ CutLen(y, x) = CutTo(pos, x, y) - CutFrom(pos, x, y)
CutsTo(t, u, pos, x, y) ==
  LET z == SubSeq(y, CommonPrefix(x, y) + 1, Len(y) - CommonSuffix(x, y, CommonPrefix(x, y)))
  IN z \in Seq(TextChars) /\ Len(z) = CutLen(x, y) /\ u = Splice(t, CutFrom(pos, x, y), CutTo(pos, x, y), z)

LEMMA CutFacts ==
  ASSUME NEW t, NEW u, NEW pos, NEW x, NEW y, Leads(t, u, pos, x, y)
  PROVE  Cuts(pos, x, y) /\ CutsTo(t, u, pos, x, y)
<1> DEFINE l == CommonPrefix(x, y)  r == CommonSuffix(x, y, l)  to == pos + Len(x)
           z == SubSeq(y, l + 1, Len(y) - r)
<1>1. /\ t \in Seq(TextChars) /\ x \in Seq(TextChars) /\ y \in Seq(TextChars) /\ pos \in Nat
      /\ to <= Len(t) /\ Substr(t, pos, to) = x /\ u = Splice(t, pos, to, y)
  BY DEF Leads
<1>2. Len(x) \in Nat /\ Len(y) \in Nat /\ Len(t) \in Nat /\ to \in Nat /\ pos <= to
  BY <1>1
<1>3. SameEnds(t, pos, to, y, l, r)
  <2>1. SubSeq(t, pos + 1, to) = x
    BY <1>1 DEF Substr
  <2> HIDE DEF to
  <2> QED  BY <1>1, <1>2, <2>1, CommonEnds
<1>4. CommonPrefix(y, x) = l /\ CommonSuffix(y, x, l) = r
  BY SameSuffix
<1> HIDE DEF l, r
<1>5. l \in Nat /\ r \in Nat /\ l + r <= Len(x) /\ l + r <= Len(y)
  <2>1. l \in Nat /\ r \in Nat /\ l + r <= to - pos /\ l + r <= Len(y)
    BY <1>3 DEF SameEnds
  <2> QED  BY <1>1, <1>2, <2>1
<1>6. /\ CutFrom(pos, x, y) = pos + l /\ CutTo(pos, x, y) = pos + Len(x) - r /\ CutLen(x, y) = Len(y) - l - r
      /\ CutFrom(pos, y, x) = pos + l /\ CutTo(pos, y, x) = pos + Len(y) - r /\ CutLen(y, x) = Len(x) - l - r
  BY <1>4 DEF CutFrom, CutTo, CutLen, l, r
<1>7. Cuts(pos, x, y)
  <2>1. /\ pos + l \in Nat /\ pos + Len(x) - r \in Nat /\ Len(y) - l - r \in Nat
        /\ pos <= pos + l /\ pos + l <= pos + Len(x) - r /\ pos + Len(x) - r <= pos + Len(x)
        /\ pos + Len(y) - r = (pos + l) + (Len(y) - l - r) /\ Len(x) - l - r = (pos + Len(x) - r) - (pos + l)
    BY <1>1, <1>2, <1>5
  <2> QED  BY <1>6, <2>1 DEF Cuts
<1>8. z \in Seq(TextChars) /\ Splice(t, pos + l, to - r, z) = u
  <2> HIDE DEF to
  <2>1. /\ z \in Seq(TextChars) /\ Splice(t, pos + l, to - r, z) = Splice(t, pos, to, y)
    BY <1>1, <1>2, <1>3, TrimKeeps
  <2> QED  BY <1>1, <2>1
<1>9. Len(z) = Len(y) - l - r
  BY <1>1, <1>2, <1>5
<1>10. CutsTo(t, u, pos, x, y)
  <2> HIDE DEF z
  <2> DEFINE F == CutFrom(pos, x, y)  T == CutTo(pos, x, y)
  <2>0. F = pos + l /\ T = to - r
    <3>1. pos + (Len(x) - r) = to - r
      BY <1>1, <1>2, <1>5
    <3> QED  BY <1>6, <3>1
  <2> HIDE DEF F, T, to
  <2>2. u = Splice(t, F, T, z)
    BY Zenon, <1>8, <2>0
  <2>1. z \in Seq(TextChars) /\ Len(z) = CutLen(x, y) /\ u = Splice(t, F, T, z)
    BY <1>6, <1>8, <1>9, <2>2
  <2> QED  BY <2>1 DEF CutsTo, l, r, z, F, T
<1> QED  BY <1>7, <1>10

\* buffer_t::replace: the text is edited, and the states are moved with it.
EditedTo(c, b, u, pos, x, y) ==
  /\ ParserSound(c) /\ c.text = u /\ c.grammar = b.grammar /\ c.revision = b.revision /\ c.next = b.next /\ c.request = b.request
  /\ DOMAIN b.states \subseteq Int
  /\ StatesMoved(c.states, b.states, CutFrom(pos, x, y), CutTo(pos, x, y), CutLen(x, y))

LEMMA TrimmedFacts ==
  ASSUME NEW b, ParserSound(b), NEW u, NEW pos, NEW x, NEW y, Leads(b.text, u, pos, x, y)
  PROVE  EditedTo(TrimmedReplace(b, pos, pos + Len(x), y), b, u, pos, x, y)
<1> DEFINE F == CutFrom(pos, x, y)  T == CutTo(pos, x, y)  n == CutLen(x, y)
           z == SubSeq(y, CommonPrefix(x, y) + 1, Len(y) - CommonSuffix(x, y, CommonPrefix(x, y)))
           c == ParserReplace(b, F, T, z)  to == pos + Len(x)
<1>1. BufferRead(b) /\ SeenWhole(b) /\ IsBuffer(b) /\ b.text \in Seq(TextChars) /\ DOMAIN b.states \subseteq Int
  BY DEF ParserSound, BufferRead, MapsIn
<1>2. Cuts(pos, x, y) /\ CutsTo(b.text, u, pos, x, y)
  BY CutFacts
<1>3. /\ x \in Seq(TextChars) /\ y \in Seq(TextChars) /\ pos \in Nat /\ to <= Len(b.text) /\ Substr(b.text, pos, to) = x
  BY DEF Leads
<1>4. z \in Seq(TextChars) /\ Len(z) = n /\ u = Splice(b.text, F, T, z)
  BY <1>2 DEF CutsTo
<1>5. /\ F \in Nat /\ T \in Nat /\ n \in Nat /\ pos <= F /\ F <= T /\ T <= to
      /\ F = pos + CommonPrefix(x, y) /\ T = pos + (Len(x) - CommonSuffix(x, y, CommonPrefix(x, y)))
  BY <1>2 DEF Cuts, CutFrom, CutTo
<1>6. TrimmedReplace(b, pos, to, y) = ParserReplace(b, pos + CommonPrefix(x, y), to - CommonSuffix(x, y, CommonPrefix(x, y)), z)
  BY <1>3 DEF TrimmedReplace
<1>7. T \in Nat /\ to - CommonSuffix(x, y, CommonPrefix(x, y)) = T
  <2> DEFINE l == CommonPrefix(x, y)  r == CommonSuffix(x, y, l)
  <2>1. SameEnds(b.text, pos, to, y, l, r)
    <3>1. SubSeq(b.text, pos + 1, to) = x /\ to \in Nat /\ pos <= to
      BY <1>3 DEF Substr
    <3> HIDE DEF to
    <3> QED  BY <1>1, <1>3, <3>1, CommonEnds
  <2>2. r \in Nat /\ Len(x) \in Nat
    BY <1>3, <2>1 DEF SameEnds
  <2> HIDE DEF l, r, T
  <2>3. T = pos + (Len(x) - r)
    BY <1>5 DEF l, r
  <2>4. to - r = T
    BY <1>3, <2>2, <2>3
  <2> QED  BY <1>5, <2>4 DEF l, r
<1> HIDE DEF F, T, n, z, to
<1>8. TrimmedReplace(b, pos, to, y) = c
  BY <1>5, <1>6, <1>7
<1>9. ReplacedIn(c, b, F, T, z)
  BY <1>1, ReplaceFields
<1>10. T <= Len(b.text) /\ Len(b.text) \in Nat /\ Len(x) \in Nat
  <2>1. to \in Nat /\ Len(b.text) \in Nat /\ Len(x) \in Nat
    BY <1>1, <1>3 DEF to
  <2> QED  BY <1>3, <1>5, <2>1
<1>11. BufferRead(c)
  BY <1>1, <1>4, <1>5, <1>10, ReplaceKeeps
<1>12. /\ c.text = u /\ c.grammar = b.grammar /\ c.revision = b.revision /\ c.next = b.next /\ c.request = b.request
       /\ c.states = Replace(b.states, F, T, Len(z), FALSE)
       /\ c.seen = Splice(b.seen, F, T, [i \in 1 .. Len(z) |-> Unseen])
  BY <1>4, <1>9 DEF ReplacedIn
<1> HIDE DEF c
<1>13. StatesMoved(c.states, b.states, F, T, n)
  <2>1. DOMAIN b.states \subseteq Int /\ F \in Nat /\ T \in Nat /\ F <= T /\ n \in Nat
    BY <1>1, <1>5, <1>7
  <2>2. c.states = Replace(b.states, F, T, n, FALSE)
    BY <1>4, <1>12
  <2>3. StatesMoved(Replace(b.states, F, T, n, FALSE), b.states, F, T, n)
    BY <2>1, StatesMove
  <2> QED  BY <2>2, <2>3
<1>14. SeenWhole(c)
  <2>1. PICK S : b.seen \in Seq(S) /\ Len(b.seen) = Len(b.text)
    BY <1>1 DEF SeenWhole
  <2> DEFINE R == S \cup {Unseen}  w == [i \in 1 .. Len(z) |-> Unseen]
  <2>2. Len(z) \in Nat
    BY <1>4
  <2>3. w \in Seq(R) /\ Len(w) = Len(z)
    BY <2>2
  <2>4. b.seen \in Seq(R)
    BY <2>1
  <2> HIDE DEF w
  <2>5. IsSplice(c.seen, R, b.seen, F, T, w)
    <3> HIDE DEF R
    <3>1. Splice(b.seen, F, T, w) = c.seen
      BY <1>12 DEF w
    <3>2. IsSplice(Splice(b.seen, F, T, w), R, b.seen, F, T, w)
      BY <1>5, <1>10, <2>1, <2>3, <2>4, SpliceIs
    <3> QED  BY <3>1, <3>2
  <2>6. IsSplice(u, TextChars, b.text, F, T, z)
    <3>1. IsSplice(Splice(b.text, F, T, z), TextChars, b.text, F, T, z)
      BY <1>1, <1>4, <1>5, <1>10, SpliceIs
    <3> QED  BY <1>4, <3>1
  <2>7. c.seen \in Seq(R) /\ Len(c.seen) = Len(c.text)
    BY <1>12, <2>1, <2>3, <2>5, <2>6 DEF IsSplice
  <2> QED  BY <2>7 DEF SeenWhole
<1>15. EditedTo(c, b, u, pos, x, y)
  BY <1>1, <1>11, <1>12, <1>13, <1>14 DEF EditedTo, ParserSound, F, T, n
<1> QED  BY <1>8, <1>15 DEF to

-----------------------------------------------------------------------------
(* The parse that runs, and the edits since it was started.                *)

\* Where an edit leaves a position; -2 if it is in what was replaced.
Place(k, from, to, n) == IF k <= from THEN k ELSE IF to < k THEN k + n - (to - from) ELSE -2

\* The states are where their lines are.
LEMMA PlaceMoved ==
  ASSUME NEW r, NEW m, NEW from \in Nat, NEW to \in Nat, from <= to, NEW n \in Nat, StatesMoved(r, m, from, to, n),
         NEW k \in Int, -2 \notin DOMAIN r, Place(k, from, to, n) \in DOMAIN r
  PROVE  k \in DOMAIN m /\ r[Place(k, from, to, n)] = m[k]
<1>1. CASE k <= from
  <2>1. Place(k, from, to, n) = k /\ ~(from + n < k)
    BY <1>1 DEF Place
  <2> QED  BY <1>1, <2>1 DEF StatesMoved
<1>2. CASE ~(k <= from) /\ to < k
  <2> DEFINE j == k + n - (to - from)
  <2>1. Place(k, from, to, n) = j /\ j \in Int /\ from + n < j /\ ~(j <= from) /\ j - n + (to - from) = k
    BY <1>2 DEF Place
  <2> HIDE DEF j
  <2> QED  BY <2>1 DEF StatesMoved
<1>3. CASE ~(k <= from) /\ ~(to < k)
  BY <1>3 DEF Place
<1> QED  BY <1>1, <1>2, <1>3

\* And when the edit is taken back they are where they were.
LEMMA PlaceBack ==
  ASSUME NEW r, NEW m, NEW from \in Nat, NEW to \in Nat, from <= to, NEW n \in Nat, StatesMoved(r, m, from, from + n, to - from),
         NEW k \in Int, k \in DOMAIN r
  PROVE  Place(k, from, to, n) \in DOMAIN m /\ r[k] = m[Place(k, from, to, n)]
<1>1. from + (to - from) = to /\ (from + n) - from = n
  OBVIOUS
<1>2. CASE k <= from
  <2>1. Place(k, from, to, n) = k /\ ~(from + (to - from) < k)
    BY <1>2 DEF Place
  <2> QED  BY <1>2, <2>1 DEF StatesMoved
<1>3. CASE ~(k <= from)
  <2>1. from + (to - from) < k /\ k - (to - from) + ((from + n) - from) \in DOMAIN m
        /\ r[k] = m[k - (to - from) + ((from + n) - from)]
    BY <1>3 DEF StatesMoved
  <2>2. to < k /\ k - (to - from) + ((from + n) - from) = k + n - (to - from)
    BY <2>1
  <2>3. Place(k, from, to, n) = k + n - (to - from)
    BY <1>3, <2>2 DEF Place
  <2> QED  BY <2>1, <2>2, <2>3
<1> QED  BY <1>2, <1>3

EditRecords == [pos : Nat, before : Seq(TextChars), after : Seq(TextChars), revision : Nat \ {0}]

\* The revision of the text before the record behind j, or that of the text.
RevisionAt(recs, top, j) == IF j < Len(recs) THEN recs[j + 1].revision ELSE top
Increasing(recs, top) == \A i, j \in 0 .. Len(recs) : i < j => RevisionAt(recs, top, i) < RevisionAt(recs, top, j)

\* The texts that the records lead through.
History(h, recs, t) ==
  /\ h[Len(recs)] = t
  /\ \A i \in 1 .. Len(recs) : Leads(h[i - 1], h[i], recs[i].pos, recs[i].before, recs[i].after)

\* Where the records from j on leave the position `from'.
PlaceBy(r, k) ==
  Place(k, CutFrom(r.pos, r.before, r.after), CutTo(r.pos, r.before, r.after), CutLen(r.before, r.after))
Traced(p, recs, from, j) ==
  /\ p[j] = from /\ \A i \in j .. Len(recs) : p[i] \in Int
  /\ \A i \in j + 1 .. Len(recs) : p[i] = PlaceBy(recs[i], p[i - 1])

\* The parse that runs is one of the text at j: if the line that it is of is still
\* there, it begins with the state that the parse began with.
PlacedAt(b, recs, t, p, j) ==
  \E s : /\ RequestOf(b.request, t, b.grammar, s)
         /\ b.request.from = 0 => s = FALSE
         /\ b.request.from # 0 =>
              /\ Traced(p, recs, b.request.from, j)
              /\ p[Len(recs)] \in DOMAIN b.states => b.states[p[Len(recs)]] = s

\* Whenever the text gets back to the revision that is being parsed, the parse is one of it.
RequestRight(b, recs, h, top) ==
  b.request # NoRequest =>
    /\ b.request.revision \in 1 .. b.next - 1
    /\ \A j \in 0 .. Len(recs) : RevisionAt(recs, top, j) = b.request.revision => \E p : PlacedAt(b, recs, h[j], p, j)

\* A parse that was started just now is one of the text as it is.
LEMMA FreshRight ==
  ASSUME NEW b, Fresh(b), ParserSound(b), NEW recs \in Seq(EditRecords), NEW h, History(h, recs, b.text), NEW top,
         Increasing(recs, top), b.next \in Nat, b.revision \in 1 .. b.next - 1, top = b.revision
  PROVE  RequestRight(b, recs, h, top)
<1> DEFINE d == Len(recs)  q == b.request  s == StateOf(b.states, q.from)
<1>1. d \in Nat /\ q.revision = top /\ RequestOf(q, b.text, b.grammar, s)
  BY DEF Fresh
<1>2. ASSUME NEW j \in 0 .. d, RevisionAt(recs, top, j) = top PROVE j = d
  <2>1. d \in 0 .. d /\ RevisionAt(recs, top, d) = top
    BY <1>1 DEF RevisionAt
  <2>2. j < d => RevisionAt(recs, top, j) < RevisionAt(recs, top, d)
    BY <2>1 DEF Increasing
  <2>3. top \in Nat
    OBVIOUS
  <2> QED  BY <1>1, <1>2, <2>1, <2>2, <2>3
<1> DEFINE p == [i \in 0 .. d |-> q.from]
<1>3. PlacedAt(b, recs, b.text, p, d)
  <2>1. q.from \in Nat
    BY <1>1 DEF RequestOf, Start
  <2>2. q.from = 0 => s = FALSE
    BY DEF StateOf
  <2>3. p[d] = q.from /\ \A i \in d .. d : p[i] = q.from
    BY <1>1
  <2>4. Traced(p, recs, q.from, d)
    <3>1. \A i \in d + 1 .. d : FALSE
      BY <1>1
    <3> HIDE DEF d, p
    <3> QED  BY <2>1, <2>3, <3>1 DEF Traced, d
  <2>5. q.from # 0 /\ p[d] \in DOMAIN b.states => b.states[p[d]] = s
    BY <2>3 DEF StateOf
  <2> HIDE DEF p, q, s
  <2> QED  BY <1>1, <2>2, <2>4, <2>5 DEF PlacedAt, q, d
<1>4. h[d] = b.text
  BY DEF History
<1> HIDE DEF p
<1>5. \A j \in 0 .. d : RevisionAt(recs, top, j) = q.revision => \E x : PlacedAt(b, recs, h[j], x, j)
  BY <1>1, <1>2, <1>3, <1>4
<1> QED  BY <1>1, <1>5 DEF RequestRight

\* When the line is parsed and the text has the revision it was parsed for, the
\* parse is one of the line as it is.
LEMMA ParsedRight ==
  ASSUME NEW b, b.request # NoRequest, ParserSound(b), NEW recs \in Seq(EditRecords), NEW h, History(h, recs, b.text), NEW top,
         RequestRight(b, recs, h, top), b.request.revision = top
  PROVE  \E s : Parsed(b, b.request.from, b.request.to, s, b.request.scopes, b.request.state)
<1> DEFINE d == Len(recs)  q == b.request
<1>1. d \in Nat /\ d \in 0 .. d /\ RevisionAt(recs, top, d) = top /\ h[d] = b.text
  BY DEF RevisionAt, History
<1>2. PICK p : PlacedAt(b, recs, b.text, p, d)
  BY <1>1 DEF RequestRight
<1>3. PICK s : /\ RequestOf(q, b.text, b.grammar, s)
               /\ q.from = 0 => s = FALSE
               /\ q.from # 0 => Traced(p, recs, q.from, d) /\ (p[d] \in DOMAIN b.states => b.states[p[d]] = s)
  BY <1>2 DEF PlacedAt
<1>4. q.from # 0 => p[d] = q.from
  BY <1>3 DEF Traced
<1>5. Known(b.states, q.from) => StateOf(b.states, q.from) = s
  BY <1>3, <1>4 DEF Known, StateOf
<1> QED  BY <1>3, <1>5 DEF RequestOf, Parsed

\* An edit: the parse that runs is still one of the text that it was started for.
LEMMA EditedRight ==
  ASSUME NEW recs \in Seq(EditRecords), NEW r \in EditRecords, NEW b, NEW c, NEW u, ParserSound(b),
         Leads(b.text, u, r.pos, r.before, r.after), EditedTo(c, b, u, r.pos, r.before, r.after),
         NEW h, History(h, recs, b.text), NEW top, r.revision = top, RequestRight(b, recs, h, top), b.next \in Nat
  PROVE  \E x : History(x, Append(recs, r), u) /\ RequestRight(c, Append(recs, r), x, b.next)
<1> DEFINE d == Len(recs)  rs == Append(recs, r)  x == [i \in 0 .. d + 1 |-> IF i = d + 1 THEN u ELSE h[i]]
           F == CutFrom(r.pos, r.before, r.after)  T == CutTo(r.pos, r.before, r.after)  n == CutLen(r.before, r.after)
<1>1. /\ d \in Nat /\ Len(rs) = d + 1 /\ rs[d + 1] = r /\ \A i \in 1 .. d : rs[i] = recs[i]
  OBVIOUS
<1>2. x[d + 1] = u /\ \A i \in 0 .. d : x[i] = h[i]
  BY <1>1
<1>3. h[d] = b.text /\ \A i \in 1 .. d : Leads(h[i - 1], h[i], recs[i].pos, recs[i].before, recs[i].after)
  BY DEF History
<1> HIDE DEF rs, x
<1>4. History(x, rs, u)
  <2>1. ASSUME NEW i \in 1 .. d + 1 PROVE Leads(x[i - 1], x[i], rs[i].pos, rs[i].before, rs[i].after)
    <3>1. CASE i = d + 1
      <4>1. (d + 1) - 1 = d /\ d \in 0 .. d
        BY <1>1
      <4> QED  BY <1>1, <1>2, <1>3, <3>1, <4>1
    <3>2. CASE i # d + 1
      <4>1. i \in 1 .. d /\ i \in 0 .. d /\ i - 1 \in 0 .. d
        BY <1>1, <3>2
      <4> QED  BY <1>1, <1>2, <1>3, <4>1
    <3> QED  BY <3>1, <3>2
  <2> QED  BY <1>1, <1>2, <2>1 DEF History
<1>5. /\ ParserSound(c) /\ c.grammar = b.grammar /\ c.next = b.next /\ c.request = b.request
      /\ DOMAIN b.states \subseteq Int /\ StatesMoved(c.states, b.states, F, T, n)
  BY DEF EditedTo
<1>6. Cuts(r.pos, r.before, r.after)
  BY CutFacts
<1>7. F \in Nat /\ T \in Nat /\ F <= T /\ n \in Nat
  BY <1>6 DEF Cuts
<1>8. -2 \notin DOMAIN c.states
  <2>1. DOMAIN c.states \subseteq -1 .. Len(c.text) /\ Len(c.text) \in Nat
    BY <1>5 DEF ParserSound, BufferRead, MapsIn
  <2> QED  BY <2>1
<1> HIDE DEF F, T, n
<1>9. ASSUME c.request # NoRequest PROVE c.request.revision \in 1 .. c.next - 1
  BY <1>5, <1>9 DEF RequestRight
<1>10. ASSUME c.request # NoRequest, NEW j \in 0 .. d + 1, RevisionAt(rs, b.next, j) = c.request.revision
       PROVE  \E p : PlacedAt(c, rs, x[j], p, j)
  <2>1. j \in 0 .. d
    <3>1. RevisionAt(rs, b.next, d + 1) = b.next
      BY <1>1 DEF RevisionAt
    <3>2. c.request.revision # b.next
      BY <1>5, <1>9, <1>10
    <3> QED  BY <1>1, <1>10, <3>1, <3>2
  <2>2. RevisionAt(recs, top, j) = RevisionAt(rs, b.next, j)
    <3>1. RevisionAt(rs, b.next, j) = rs[j + 1].revision
      BY <1>1, <2>1 DEF RevisionAt
    <3>2. CASE j = d
      BY <1>1, <3>1, <3>2 DEF RevisionAt
    <3>3. CASE j # d
      <4>1. j < d /\ j + 1 \in 1 .. d
        BY <1>1, <2>1, <3>3
      <4> QED  BY <1>1, <3>1, <4>1 DEF RevisionAt
    <3> QED  BY <3>2, <3>3
  <2>3. PICK p : PlacedAt(b, recs, h[j], p, j)
    BY <1>5, <1>10, <2>1, <2>2 DEF RequestRight
  <2> DEFINE q == b.request
  <2>4. PICK s : /\ RequestOf(q, h[j], b.grammar, s)
                 /\ q.from = 0 => s = FALSE
                 /\ q.from # 0 => Traced(p, recs, q.from, j) /\ (p[d] \in DOMAIN b.states => b.states[p[d]] = s)
    BY <2>3 DEF PlacedAt
  <2> DEFINE K == PlaceBy(r, p[d])  y == [i \in 0 .. d + 1 |-> IF i = d + 1 THEN K ELSE p[i]]
  <2>5. y[d + 1] = K /\ \A i \in 0 .. d : y[i] = p[i]
    BY <1>1
  <2>6. K = Place(p[d], F, T, n)
    BY DEF PlaceBy, F, T, n
  <2> HIDE DEF y, K, q
  <2>7. ASSUME q.from # 0 PROVE Traced(y, rs, q.from, j) /\ (K \in DOMAIN c.states => c.states[K] = s)
    <3>1. p[j] = q.from /\ (\A i \in j .. d : p[i] \in Int) /\ \A i \in j + 1 .. d : p[i] = PlaceBy(recs[i], p[i - 1])
      BY <2>4, <2>7 DEF Traced
    <3>2. d \in j .. d
      BY <1>1, <2>1
    <3>3. p[d] \in Int
      BY <3>1, <3>2
    <3>4. K \in Int
      BY <1>7, <2>6, <3>3 DEF Place
    <3>5. K \in DOMAIN c.states => c.states[K] = s
      BY <1>5, <1>7, <1>8, <2>4, <2>6, <2>7, <3>3, PlaceMoved
    <3>6. ASSUME NEW i \in j .. d + 1 PROVE y[i] \in Int
      <4>1. i = d + 1 \/ (i \in j .. d /\ i \in 0 .. d)
        BY <1>1, <2>1
      <4> QED  BY <2>5, <3>1, <3>4, <4>1
    <3>7. ASSUME NEW i \in j + 1 .. d + 1 PROVE y[i] = PlaceBy(rs[i], y[i - 1])
      <4>1. CASE i = d + 1
        <5>1. (d + 1) - 1 = d /\ d \in 0 .. d
          BY <1>1
        <5>2. y[d + 1] = PlaceBy(r, y[d])
          BY <2>5, <5>1 DEF K
        <5> QED  BY <1>1, <4>1, <5>1, <5>2
      <4>2. CASE i # d + 1
        <5>1. i \in j + 1 .. d /\ i \in 0 .. d /\ i - 1 \in 0 .. d /\ i \in 1 .. d
          BY <1>1, <2>1, <4>2
        <5>2. p[i] = PlaceBy(recs[i], p[i - 1])
          BY <3>1, <5>1
        <5> QED  BY <1>1, <2>5, <5>1, <5>2
      <4> QED  BY <4>1, <4>2
    <3>8. y[j] = q.from
      BY <2>1, <2>5, <3>1
    <3> QED  BY <1>1, <3>5, <3>6, <3>7, <3>8 DEF Traced
  <2>8. x[j] = h[j]
    BY <1>2, <2>1
  <2>9. PlacedAt(c, rs, x[j], y, j)
    <3>1. y[Len(rs)] = K
      BY <1>1, <2>5
    <3> QED  BY <1>5, <2>4, <2>7, <2>8, <3>1 DEF PlacedAt, q
  <2> QED  BY <2>9
<1>11. RequestRight(c, rs, x, b.next)
  BY <1>1, <1>9, <1>10 DEF RequestRight
<1> QED  BY <1>4, <1>11 DEF rs

\* The last record.
Last(recs)     == recs[Len(recs)]
ButLast(recs)  == SubSeq(recs, 1, Len(recs) - 1)

LEMMA ButLastFacts ==
  ASSUME NEW recs \in Seq(EditRecords), recs # <<>>
  PROVE  /\ Len(recs) \in Nat \ {0} /\ Last(recs) \in EditRecords /\ ButLast(recs) \in Seq(EditRecords)
         /\ Len(ButLast(recs)) = Len(recs) - 1 /\ \A i \in 1 .. Len(recs) - 1 : ButLast(recs)[i] = recs[i]
         /\ \A top, j : j \in 0 .. Len(recs) - 1 => RevisionAt(ButLast(recs), Last(recs).revision, j) = RevisionAt(recs, top, j)
<1> DEFINE d == Len(recs)  rs == ButLast(recs)
<1>1. d \in Nat \ {0} /\ Last(recs) \in EditRecords
  BY DEF Last
<1>2. rs \in Seq(EditRecords) /\ Len(rs) = d - 1 /\ \A i \in 1 .. d - 1 : rs[i] = recs[i]
  <2> DEFINE n == d - 1
  <2>1. n \in 0 .. d /\ n \in Nat
    BY <1>1
  <2> HIDE DEF n
  <2>2. SubSeq(recs, 1, n) \in Seq(EditRecords) /\ Len(SubSeq(recs, 1, n)) = n /\ \A i \in 1 .. n : SubSeq(recs, 1, n)[i] = recs[i]
    BY <2>1
  <2> QED  BY <2>2 DEF ButLast, n
<1> HIDE DEF rs
<1>3. ASSUME NEW top, NEW j \in 0 .. d - 1 PROVE RevisionAt(rs, Last(recs).revision, j) = RevisionAt(recs, top, j)
  <2>1. RevisionAt(recs, top, j) = recs[j + 1].revision
    BY <1>1 DEF RevisionAt
  <2>2. CASE j = d - 1
    <3>1. j + 1 = d /\ ~(j < Len(rs))
      BY <1>1, <1>2, <2>2
    <3> QED  BY <2>1, <3>1 DEF RevisionAt, Last
  <2>3. CASE j # d - 1
    <3>1. j < Len(rs) /\ j + 1 \in 1 .. d - 1
      BY <1>1, <1>2, <2>3
    <3> QED  BY <1>2, <2>1, <3>1 DEF RevisionAt
  <2> QED  BY <2>2, <2>3
<1> QED  BY <1>1, <1>2, <1>3 DEF rs

\* The revisions are still those of the texts before.
LEMMA IncreasingBack ==
  ASSUME NEW recs \in Seq(EditRecords), recs # <<>>, NEW top, Increasing(recs, top)
  PROVE  Increasing(ButLast(recs), Last(recs).revision) /\ Last(recs).revision < top
<1> DEFINE d == Len(recs)  rs == ButLast(recs)  t2 == Last(recs).revision
<1>1. d \in Nat \ {0} /\ Len(rs) = d - 1 /\ \A j \in 0 .. d - 1 : RevisionAt(rs, t2, j) = RevisionAt(recs, top, j)
  BY ButLastFacts
<1> HIDE DEF rs, t2
<1>2. ASSUME NEW i \in 0 .. d - 1, NEW j \in 0 .. d - 1, i < j PROVE RevisionAt(rs, t2, i) < RevisionAt(rs, t2, j)
  <2>1. i \in 0 .. d /\ j \in 0 .. d
    BY <1>1
  <2> QED  BY <1>1, <1>2, <2>1 DEF Increasing
<1>3. RevisionAt(recs, top, d - 1) < RevisionAt(recs, top, d)
  <2>1. d - 1 \in 0 .. d /\ d \in 0 .. d /\ d - 1 < d
    BY <1>1
  <2> QED  BY <2>1 DEF Increasing
<1>4. RevisionAt(recs, top, d - 1) = t2 /\ RevisionAt(recs, top, d) = top
  BY <1>1 DEF RevisionAt, t2, Last
<1> QED  BY <1>1, <1>2, <1>3, <1>4 DEF Increasing, rs, t2

\* Undo: the parse is one of the text that is back.
LEMMA UndoneRight ==
  ASSUME NEW recs \in Seq(EditRecords), recs # <<>>, NEW b, NEW c, ParserSound(b), NEW h, History(h, recs, b.text),
         EditedTo(c, b, h[Len(recs) - 1], Last(recs).pos, Last(recs).after, Last(recs).before),
         NEW top, RequestRight(b, recs, h, top)
  PROVE  History(h, ButLast(recs), c.text) /\ RequestRight(c, ButLast(recs), h, Last(recs).revision)
<1> DEFINE d == Len(recs)  rs == ButLast(recs)  r == Last(recs)  t2 == r.revision
           F == CutFrom(r.pos, r.before, r.after)  T == CutTo(r.pos, r.before, r.after)  n == CutLen(r.before, r.after)
<1>1. /\ d \in Nat \ {0} /\ rs \in Seq(EditRecords) /\ Len(rs) = d - 1 /\ \A i \in 1 .. d - 1 : rs[i] = recs[i]
      /\ \A j \in 0 .. d - 1 : RevisionAt(rs, t2, j) = RevisionAt(recs, top, j)
  BY ButLastFacts
<1>2. h[d] = b.text /\ \A i \in 1 .. d : Leads(h[i - 1], h[i], recs[i].pos, recs[i].before, recs[i].after)
  BY DEF History
<1>3. Leads(h[d - 1], h[d], r.pos, r.before, r.after)
  BY <1>1, <1>2 DEF Last
<1>4. Cuts(r.pos, r.before, r.after)
  BY <1>3, CutFacts
<1>5. /\ F \in Nat /\ T \in Nat /\ F <= T /\ n \in Nat
      /\ CutFrom(r.pos, r.after, r.before) = F /\ CutTo(r.pos, r.after, r.before) = F + n /\ CutLen(r.after, r.before) = T - F
  BY <1>4 DEF Cuts
<1>6. /\ c.text = h[d - 1] /\ c.grammar = b.grammar /\ c.next = b.next /\ c.request = b.request
      /\ DOMAIN b.states \subseteq Int /\ StatesMoved(c.states, b.states, F, F + n, T - F)
  BY <1>5 DEF EditedTo
<1>7. PlaceBy(r, d) = Place(d, F, T, n) /\ \A k : PlaceBy(r, k) = Place(k, F, T, n)
  BY DEF PlaceBy
<1>8. r = recs[d]
  BY DEF Last
<1> HIDE DEF rs, t2, r, F, T, n
<1>9. History(h, rs, c.text)
  <2>1. \A i \in 1 .. d - 1 : i \in 1 .. d
    BY <1>1
  <2> QED  BY <1>1, <1>2, <1>6, <2>1 DEF History
<1>10. ASSUME c.request # NoRequest, NEW j \in 0 .. d - 1, RevisionAt(rs, t2, j) = c.request.revision
       PROVE  \E p : PlacedAt(c, rs, h[j], p, j)
  <2> DEFINE q == b.request
  <2>1. j \in 0 .. d
    BY <1>1
  <2>2. PICK p : PlacedAt(b, recs, h[j], p, j)
    BY <1>1, <1>6, <1>10, <2>1 DEF RequestRight
  <2>3. PICK s : /\ RequestOf(q, h[j], b.grammar, s)
                 /\ q.from = 0 => s = FALSE
                 /\ q.from # 0 => Traced(p, recs, q.from, j) /\ (p[d] \in DOMAIN b.states => b.states[p[d]] = s)
    BY <2>2 DEF PlacedAt
  <2> HIDE DEF q
  <2>4. ASSUME q.from # 0 PROVE Traced(p, rs, q.from, j) /\ (p[d - 1] \in DOMAIN c.states => c.states[p[d - 1]] = s)
    <3>1. p[j] = q.from /\ (\A i \in j .. d : p[i] \in Int) /\ \A i \in j + 1 .. d : p[i] = PlaceBy(recs[i], p[i - 1])
      BY <2>3, <2>4 DEF Traced
    <3>2. d \in j + 1 .. d /\ d - 1 \in j .. d
      BY <1>1
    <3>3. p[d] = Place(p[d - 1], F, T, n) /\ p[d - 1] \in Int
      BY <1>7, <1>8, <3>1, <3>2
    <3>4. ASSUME p[d - 1] \in DOMAIN c.states PROVE c.states[p[d - 1]] = s
      <4>1. Place(p[d - 1], F, T, n) \in DOMAIN b.states /\ c.states[p[d - 1]] = b.states[Place(p[d - 1], F, T, n)]
        BY <1>5, <1>6, <3>3, <3>4, PlaceBack
      <4> QED  BY <2>3, <2>4, <3>3, <4>1
    <3>5. (\A i \in j .. d - 1 : i \in j .. d) /\ \A i \in j + 1 .. d - 1 : i \in j + 1 .. d /\ i \in 1 .. d - 1
      BY <1>1
    <3>6. \A i \in j + 1 .. d - 1 : p[i] = PlaceBy(rs[i], p[i - 1])
      BY <1>1, <3>1, <3>5
    <3> QED  BY <1>1, <3>1, <3>4, <3>5, <3>6 DEF Traced
  <2>5. PlacedAt(c, rs, h[j], p, j)
    BY <1>1, <1>6, <2>3, <2>4 DEF PlacedAt, q
  <2> QED  BY <2>5
<1>11. c.request # NoRequest => c.request.revision \in 1 .. c.next - 1
  BY <1>6 DEF RequestRight
<1>12. RequestRight(c, rs, h, t2)
  BY <1>1, <1>10, <1>11 DEF RequestRight
<1> QED  BY <1>9, <1>12 DEF rs, t2, r

\* The same parse, when the text and the states are the same.
LEMMA SameRight ==
  ASSUME NEW recs, NEW b, NEW c, NEW h, NEW top, RequestRight(b, recs, h, top), c.request = b.request,
         c.grammar = b.grammar, c.states = b.states, c.next \in Nat, b.next \in Nat, b.next <= c.next
  PROVE  RequestRight(c, recs, h, top)
<1> SUFFICES ASSUME c.request # NoRequest
             PROVE  /\ c.request.revision \in 1 .. c.next - 1
                    /\ \A j \in 0 .. Len(recs) : RevisionAt(recs, top, j) = c.request.revision => \E p : PlacedAt(c, recs, h[j], p, j)
  BY DEF RequestRight
<1>1. /\ b.request.revision \in 1 .. b.next - 1
      /\ \A j \in 0 .. Len(recs) : RevisionAt(recs, top, j) = b.request.revision => \E p : PlacedAt(b, recs, h[j], p, j)
  BY DEF RequestRight
<1>2. \A t, p, j : PlacedAt(b, recs, t, p, j) => PlacedAt(c, recs, t, p, j)
  BY DEF PlacedAt
<1> QED  BY <1>1, <1>2

-----------------------------------------------------------------------------
(* The steps.                                                              *)

Lively(b, g, w) == b.dirty # NoKeys /\ ~g /\ ~w => b.request # NoRequest

\* The texts from the first one on, and the parse that runs.
HistoryRight(b, recs, top) == \E h : History(h, recs, b.text) /\ RequestRight(b, recs, h, top)

ParserState(b, g, w, recs) ==
  /\ ParserSound(b) /\ b.next \in Nat /\ b.revision \in 1 .. b.next - 1
  /\ g \in BOOLEAN /\ w \in BOOLEAN /\ ~(g /\ w) /\ Lively(b, g, w)
  /\ recs \in Seq(EditRecords)
  /\ LET top == IF g THEN b.next ELSE b.revision
     IN Increasing(recs, top) /\ HistoryRight(b, recs, top)

\* The inductive invariant.
ParserIInv == ParserState(buf, group, waiting, records)

LEMMA RestartedRight ==
  ASSUME NEW b, Restarted(b), ParserSound(b), NEW recs \in Seq(EditRecords), NEW h, History(h, recs, b.text),
         Increasing(recs, b.revision), b.next \in Nat, b.revision \in 1 .. b.next - 1
  PROVE  HistoryRight(b, recs, b.revision) /\ \A g, w : Lively(b, g, w)
<1>1. CASE Fresh(b)
  <2>1. RequestRight(b, recs, h, b.revision)
    BY <1>1, FreshRight
  <2>2. b.request # NoRequest
    BY <1>1 DEF Fresh
  <2> QED  BY <2>1, <2>2 DEF HistoryRight, Lively
<1>2. CASE b.dirty = NoKeys /\ b.request = NoRequest
  BY <1>2 DEF HistoryRight, RequestRight, Lively
<1> QED  BY <1>1, <1>2 DEF Restarted

\* The file is loaded: nothing has been parsed, and the first line is being parsed.
LEMMA ParserStarts ==
  ASSUME NoRequestIsNone, ParserInit
  PROVE  ParserIInv
<1>1. PICK t \in InitTexts, g \in Grammars :
        buf = SetRevision(
         [text |-> t, revision |-> 0, next |-> 2, grammar |-> g, dirty |-> Set(NoKeys, 0, TRUE),
          scopes |-> Set(NoKeys, -1, Scope(g, FALSE)), states |-> Set(NoKeys, -1, FALSE),
          seen |-> [i \in 1..Len(t) |-> Unseen], request |-> NoRequest], 1)
  BY DEF ParserInit
<1> DEFINE se == [i \in 1..Len(t) |-> Unseen]  di == Set(NoKeys, 0, TRUE)  sc == Set(NoKeys, -1, Scope(g, FALSE))  sa == Set(NoKeys, -1, FALSE)
           b == [text |-> t, revision |-> 0, next |-> 2, grammar |-> g, dirty |-> di, scopes |-> sc, states |-> sa,
                 seen |-> se, request |-> NoRequest]
<1>2. t \in Seq(TextChars) /\ Len(t) \in Nat
  BY ParserAssumption
<1>3. se \in Seq({Unseen}) /\ Len(se) = Len(t)
  BY <1>2
<1>4. buf = SetRevision(b, 1)
  BY <1>1
<1> HIDE DEF se, di, sc, sa
<1>5. /\ IsBuffer(b) /\ b.text = t /\ b.next = 2 /\ b.dirty = di /\ b.scopes = sc /\ b.states = sa /\ b.seen = se /\ b.request = NoRequest
  BY DEF IsBuffer
<1> HIDE DEF b
<1>6. SeenWhole(b) /\ Unparsed(b)
  BY <1>3, <1>5 DEF SeenWhole, Unparsed, di, sc, sa
<1>7. ParserSound(b) /\ b.dirty # NoKeys
  BY <1>2, <1>5, <1>6, UnparsedRead
<1>8. ParserSound(buf) /\ buf.text = t /\ buf.revision = 1 /\ buf.next = 2 /\ Restarted(buf)
  <2> DEFINE c == SetRevision(b, 1)
  <2>1. ParserSound(c) /\ c.text = b.text /\ c.revision = 1 /\ c.next = b.next /\ (b.request = NoRequest => Restarted(c))
    BY <1>7, RevisionFacts
  <2> HIDE DEF c
  <2> QED  BY <1>4, <1>5, <2>1 DEF c
<1>9. group = FALSE /\ waiting = FALSE /\ records = <<>>
  BY DEF ParserInit
<1>10. records \in Seq(EditRecords) /\ Len(records) = 0
  BY <1>9
<1>11. Increasing(records, 1)
  <2>1. \A i, j \in 0 .. 0 : ~(i < j)
    OBVIOUS
  <2> QED  BY <1>10, <2>1 DEF Increasing
<1> DEFINE h == [i \in {0} |-> t]
<1>12. History(h, records, buf.text)
  <2>1. h[0] = t /\ \A i \in 1 .. 0 : FALSE
    OBVIOUS
  <2> HIDE DEF h
  <2> QED  BY <1>8, <1>10, <2>1 DEF History
<1> HIDE DEF h
<1>13. buf.revision \in 1 .. buf.next - 1 /\ buf.next \in Nat
  BY <1>8
<1>14. HistoryRight(buf, records, 1) /\ \A g1, w : Lively(buf, g1, w)
  BY <1>8, <1>10, <1>11, <1>12, <1>13, RestartedRight
<1> QED  BY <1>8, <1>9, <1>10, <1>11, <1>13, <1>14 DEF ParserIInv, ParserState

\* What the block on the main thread does to the buffer.
LEMMA CompletedFacts ==
  ASSUME NoRequestIsNone, NEW b, ParserSound(b), b.request # NoRequest, NEW recs \in Seq(EditRecords), NEW h,
         History(h, recs, b.text), RequestRight(b, recs, h, b.revision)
  PROVE  /\ ParserSound(Completed(b)) /\ SameText(Completed(b), b) /\ Restarted(Completed(b))
         /\ b.request.revision = b.revision =>
              \E d, s : /\ ParserSound(d) /\ SameText(d, b) /\ SameParse(d, b)
                        /\ Parsed(b, b.request.from, b.request.to, s, b.request.scopes, b.request.state)
                        /\ Completed(b).dirty = ParsedLine(d, b.request.from, b.request.to, b.request.scopes, b.request.state).dirty
<1> DEFINE r == b.request  idle == [b EXCEPT !.request = NoRequest]  c == Completed(b)
           cut(i) == Min({i, Len(b.text)})
<1>1. ParserSound(idle) /\ SameText(idle, b) /\ SameParse(idle, b) /\ idle.request = NoRequest
  BY RequestSet
<1>2. CASE r.revision = b.revision
  <2>1. PICK s : Parsed(b, r.from, r.to, s, r.scopes, r.state)
    BY <1>2, ParsedRight
  <2>2. c = UpdateScopes(idle, r.limit, r.batch, r.from, r.to, r.scopes, r.state)
    BY <1>2 DEF Completed
  <2> HIDE DEF idle, c, r
  <2>3. Parsed(idle, r.from, r.to, s, r.scopes, r.state)
    BY <1>1, <2>1 DEF Parsed, SameText, SameParse
  <2>4. ParserSound(c) /\ SameText(c, idle) /\ Restarted(c) /\ c.dirty = ParsedLine(idle, r.from, r.to, r.scopes, r.state).dirty
    BY <1>1, <2>2, <2>3, UpdateFacts
  <2>5. SameText(c, b)
    BY <1>1, <2>4 DEF SameText
  <2> QED  BY <1>1, <2>1, <2>4, <2>5 DEF r, c
<1>3. CASE r.revision # b.revision
  <2> DEFINE e == DidParse(idle, cut(r.batch), cut(r.from))
             k == IF r.batch # r.from THEN e ELSE idle
  <2>1. c = InitiateRepair(k, 0, NoBatch)
    BY <1>3 DEF Completed
  <2> HIDE DEF idle, c, cut
  <2>2. ParserSound(e) /\ SameText(e, idle) /\ SameParse(e, idle) /\ e.request = idle.request
    BY <1>1, DidParseFacts
  <2> HIDE DEF e
  <2>3. ParserSound(k) /\ SameText(k, b) /\ k.request = NoRequest
    BY <1>1, <2>2 DEF SameText
  <2> HIDE DEF k
  <2>4. ParserSound(InitiateRepair(k, 0, NoBatch)) /\ Initiated(InitiateRepair(k, 0, NoBatch), k)
    BY <2>3, InitiateFacts
  <2>5. ParserSound(c) /\ Initiated(c, k)
    BY <2>1, <2>4
  <2>6. SameText(c, b) /\ Restarted(c)
    BY <2>3, <2>5 DEF Initiated, SameText
  <2> QED  BY <1>3, <2>5, <2>6 DEF c, r
<1> QED  BY <1>2, <1>3

\* The steps that end in initiate_repair with no line being parsed.
LEMMA RestartedState ==
  ASSUME NEW b, NEW c, NEW g, NEW w \in BOOLEAN, NEW recs, ParserState(b, FALSE, g, recs), ParserSound(c), Restarted(c),
         c.text = b.text, c.revision = b.revision, c.next = b.next
  PROVE  ParserState(c, FALSE, w, recs)
<1>1. /\ b.next \in Nat /\ b.revision \in 1 .. b.next - 1 /\ recs \in Seq(EditRecords)
      /\ Increasing(recs, b.revision) /\ HistoryRight(b, recs, b.revision)
  BY DEF ParserState
<1>2. PICK h : History(h, recs, b.text)
  BY <1>1 DEF HistoryRight
<1>3. HistoryRight(c, recs, c.revision) /\ \A g1, w1 : Lively(c, g1, w1)
  BY <1>1, <1>2, RestartedRight
<1> QED  BY <1>1, <1>3 DEF ParserState

LEMMA LineParsedKeeps ==
  ASSUME NoRequestIsNone, ParserIInv, LineParsed
  PROVE  ParserIInv'
<1>1. ParserState(buf, FALSE, FALSE, records) /\ group = FALSE /\ waiting = FALSE /\ buf.request # NoRequest
  BY DEF ParserIInv, LineParsed, Idling, ParserState
<1>2. buf' = Completed(buf) /\ group' = group /\ records' = records /\ waiting' = waiting
  BY DEF LineParsed
<1>3. ParserSound(buf) /\ records \in Seq(EditRecords) /\ HistoryRight(buf, records, buf.revision)
  BY <1>1 DEF ParserState
<1>4. PICK h : History(h, records, buf.text) /\ RequestRight(buf, records, h, buf.revision)
  BY <1>3 DEF HistoryRight
<1> DEFINE c == Completed(buf)
<1>5. ParserSound(c) /\ SameText(c, buf) /\ Restarted(c)
  BY <1>1, <1>3, <1>4, CompletedFacts
<1> HIDE DEF c
<1>6. ParserState(c, FALSE, FALSE, records)
  BY <1>1, <1>5, RestartedState DEF SameText
<1> QED  BY <1>1, <1>2, <1>6 DEF ParserIInv, c

LEMMA RepairLineKeeps ==
  ASSUME NoRequestIsNone, ParserIInv, RepairLine
  PROVE  ParserIInv'
<1>1. ParserState(buf, FALSE, TRUE, records) /\ group = FALSE /\ waiting = TRUE /\ buf.dirty # NoKeys
  BY DEF ParserIInv, RepairLine, CanRepair, ParserState
<1>2. buf' = RepairedLine(buf) /\ group' = group /\ records' = records /\ waiting' = waiting
  BY DEF RepairLine
<1>3. ParserSound(buf)
  BY <1>1 DEF ParserState
<1> DEFINE c == RepairedLine(buf)
<1>5. ParserSound(c) /\ SameText(c, buf) /\ Restarted(c)
  BY <1>1, <1>3, RepairedFacts
<1> HIDE DEF c
<1>6. ParserState(c, FALSE, TRUE, records)
  BY <1>1, <1>5, RestartedState DEF SameText
<1> QED  BY <1>1, <1>2, <1>6 DEF ParserIInv, c

\* The main thread waits until no line is dirty, since the state of the first one is known.
LEMMA RepairedKeeps ==
  ASSUME ParserIInv, Repaired
  PROVE  ParserIInv'
<1>1. ParserSound(buf) /\ BufferRead(buf)
  BY DEF ParserIInv, ParserState, ParserSound
<1>2. buf.dirty = NoKeys
  BY <1>1, FirstKnown DEF Repaired, CanRepair
<1>3. buf' = buf /\ group' = group /\ records' = records /\ waiting' = FALSE
  BY DEF Repaired
<1> QED  BY <1>2, <1>3 DEF ParserIInv, ParserState, Lively

LEMMA WaitForRepairKeeps ==
  ASSUME ParserIInv, WaitForRepair
  PROVE  ParserIInv'
<1>1. group = FALSE /\ buf' = [buf EXCEPT !.request = NoRequest] /\ waiting' = TRUE /\ group' = group /\ records' = records
  BY DEF ParserIInv, ParserState, WaitForRepair, Idling
<1>2. /\ ParserSound(buf) /\ buf.next \in Nat /\ buf.revision \in 1 .. buf.next - 1 /\ records \in Seq(EditRecords)
      /\ Increasing(records, buf.revision) /\ HistoryRight(buf, records, buf.revision)
  BY <1>1 DEF ParserIInv, ParserState
<1> DEFINE c == [buf EXCEPT !.request = NoRequest]
<1>3. ParserSound(c) /\ SameText(c, buf) /\ c.request = NoRequest
  BY <1>2, RequestSet
<1> HIDE DEF c
<1>4. HistoryRight(c, records, c.revision)
  BY <1>2, <1>3 DEF HistoryRight, RequestRight, SameText
<1>5. ParserState(c, FALSE, TRUE, records)
  BY <1>2, <1>3, <1>4 DEF ParserState, Lively, SameText
<1> QED  BY <1>1, <1>5 DEF ParserIInv, c

LEMMA SetGrammarKeeps ==
  ASSUME NoRequestIsNone, ~GrammarWhileParsing, ParserIInv, NEW g \in Grammars, SetGrammar(g)
  PROVE  ParserIInv'
<1>1. ParserState(buf, FALSE, FALSE, records) /\ group = FALSE /\ waiting = FALSE /\ buf.request = NoRequest
  BY DEF ParserIInv, SetGrammar, Idling, ParserState
<1>2. buf' = ResetGrammar(buf, g) /\ group' = group /\ records' = records /\ waiting' = waiting
  BY DEF SetGrammar
<1>3. ParserSound(buf)
  BY <1>1 DEF ParserState
<1> DEFINE c == ResetGrammar(buf, g)
<1>5. ParserSound(c) /\ Fresh(c) /\ c.text = buf.text /\ c.revision = buf.revision /\ c.next = buf.next
  BY <1>1, <1>3, GrammarFacts
<1> HIDE DEF c
<1>6. ParserState(c, FALSE, FALSE, records)
  BY <1>1, <1>5, RestartedState DEF Restarted
<1> QED  BY <1>1, <1>2, <1>6 DEF ParserIInv, c

\* A new record, and the revision that the text gets when the group ends.
LEMMA IncreasingOn ==
  ASSUME NEW recs \in Seq(EditRecords), NEW top \in Nat, Increasing(recs, top), NEW r \in EditRecords, r.revision = top, NEW n \in Nat, top < n
  PROVE  Increasing(Append(recs, r), n)
<1> DEFINE d == Len(recs)  rs == Append(recs, r)
<1>1. d \in Nat /\ Len(rs) = d + 1 /\ rs[d + 1] = r /\ \A i \in 1 .. d : rs[i] = recs[i]
  OBVIOUS
<1> HIDE DEF rs
<1>2. ASSUME NEW j \in 0 .. d PROVE RevisionAt(rs, n, j) = RevisionAt(recs, top, j)
  <2>1. RevisionAt(rs, n, j) = rs[j + 1].revision
    BY <1>1 DEF RevisionAt
  <2>2. CASE j = d
    BY <1>1, <2>1, <2>2 DEF RevisionAt
  <2>3. CASE j # d
    <3>1. j < d /\ j + 1 \in 1 .. d
      BY <1>1, <2>3
    <3> QED  BY <1>1, <2>1, <3>1 DEF RevisionAt
  <2> QED  BY <2>2, <2>3
<1>3. RevisionAt(rs, n, d + 1) = n /\ RevisionAt(recs, top, d) = top
  BY <1>1 DEF RevisionAt
<1>4. ASSUME NEW j \in 0 .. d PROVE RevisionAt(recs, top, j) \in Nat /\ RevisionAt(recs, top, j) <= top
  <2>1. CASE j = d
    BY <1>3, <2>1
  <2>2. CASE j # d
    <3>1. j < d /\ d \in 0 .. d /\ j + 1 \in 1 .. d
      BY <1>1, <2>2
    <3>2. RevisionAt(recs, top, j) < top
      BY <1>3, <3>1 DEF Increasing
    <3>3. RevisionAt(recs, top, j) = recs[j + 1].revision /\ recs[j + 1] \in EditRecords
      BY <3>1 DEF RevisionAt
    <3>4. recs[j + 1].revision \in Nat
      BY <3>3 DEF EditRecords
    <3> QED  BY <3>2, <3>3, <3>4
  <2> QED  BY <2>1, <2>2
<1>5. ASSUME NEW i \in 0 .. d + 1, NEW j \in 0 .. d + 1, i < j PROVE RevisionAt(rs, n, i) < RevisionAt(rs, n, j)
  <2>1. i \in 0 .. d
    BY <1>1, <1>5
  <2>2. CASE j = d + 1
    <3>1. RevisionAt(rs, n, i) \in Nat /\ RevisionAt(rs, n, i) <= top
      BY <1>2, <1>4, <2>1
    <3> QED  BY <1>3, <2>2, <3>1
  <2>3. CASE j # d + 1
    <3>1. j \in 0 .. d
      BY <1>1, <2>3
    <3>2. RevisionAt(recs, top, i) < RevisionAt(recs, top, j)
      BY <1>5, <2>1, <3>1 DEF Increasing
    <3> QED  BY <1>2, <2>1, <3>1, <3>2
  <2> QED  BY <2>2, <2>3
<1> QED  BY <1>1, <1>5 DEF Increasing, rs

LEMMA ReplaceTextKeeps ==
  ASSUME ParserIInv, NEW from \in 0 .. Len(buf.text), NEW to \in 0 .. Len(buf.text), from <= to, NEW s \in Strings, ReplaceText(from, to, s)
  PROVE  ParserIInv'
<1> DEFINE x == Substr(buf.text, from, to)  c == TrimmedReplace(buf, from, to, s)  u == Splice(buf.text, from, to, s)
           r == [pos |-> from, before |-> x, after |-> s, revision |-> buf.revision]  rs == Append(records, r)
<1>1. /\ group = FALSE /\ waiting = FALSE /\ ParserSound(buf) /\ buf.next \in Nat /\ buf.revision \in 1 .. buf.next - 1
      /\ records \in Seq(EditRecords) /\ Increasing(records, buf.revision) /\ HistoryRight(buf, records, buf.revision)
  BY DEF ParserIInv, ParserState, ReplaceText, Idling
<1>2. buf' = c /\ records' = rs /\ group' = TRUE /\ waiting' = waiting
  BY DEF ReplaceText
<1>3. buf.text \in Seq(TextChars) /\ Len(buf.text) \in Nat /\ from \in Nat /\ to \in Nat /\ to <= Len(buf.text)
  BY <1>1 DEF ParserSound, BufferRead
<1>4. s \in Seq(TextChars)
  <2>1. CASE s = <<>>
    BY <2>1
  <2>2. ASSUME NEW e \in TextChars, s = <<e>> PROVE s \in Seq(TextChars)
    BY <2>2
  <2> QED  BY <2>1, <2>2 DEF Strings
<1> HIDE DEF c, u, r, rs, x
<1>5. x \in Seq(TextChars) /\ Len(x) = to - from
  <2>1. buf.text \in Seq(TextChars) /\ from \in Nat /\ to \in Nat /\ from <= to /\ to <= Len(buf.text)
    BY <1>3
  <2>2. /\ Substr(buf.text, from, to) \in Seq(TextChars)
        /\ Len(Substr(buf.text, from, to)) = to - from
    BY <2>1, SubstrFacts
  <2> QED  BY <2>2 DEF x
<1> USE DEF c, u, r, rs
<1>6. from + Len(x) = to
  BY <1>3, <1>5
<1>7. r \in EditRecords
  <2>1. buf.revision \in Nat \ {0}
    BY <1>1
  <2> QED  BY <1>3, <1>4, <1>5, <2>1 DEF EditRecords
<1>8. r.pos = from /\ r.before = x /\ r.after = s /\ r.revision = buf.revision
  OBVIOUS
<1> HIDE DEF r, u, c, rs
<1>9. Leads(buf.text, u, from, x, s)
  BY <1>3, <1>4, <1>5, <1>6 DEF Leads, u, x
<1>10. EditedTo(c, buf, u, from, x, s)
  <2>1. EditedTo(TrimmedReplace(buf, from, from + Len(x), s), buf, u, from, x, s)
    BY <1>1, <1>9, TrimmedFacts
  <2> QED  BY <1>6, <2>1 DEF c
<1>11. PICK h : History(h, records, buf.text) /\ RequestRight(buf, records, h, buf.revision)
  BY <1>1 DEF HistoryRight
<1>12. \E y : History(y, rs, u) /\ RequestRight(c, rs, y, buf.next)
  BY <1>1, <1>7, <1>8, <1>9, <1>10, <1>11, EditedRight DEF rs
<1>13. rs \in Seq(EditRecords) /\ Increasing(rs, buf.next)
  <2>1. buf.revision \in Nat /\ buf.revision < buf.next
    BY <1>1
  <2>2. Increasing(rs, buf.next)
    BY <1>1, <1>7, <1>8, <2>1, IncreasingOn DEF rs
  <2> QED  BY <1>1, <1>7, <2>2 DEF rs
<1>14. ParserSound(c) /\ c.text = u /\ c.next = buf.next /\ c.revision = buf.revision
  BY <1>10 DEF EditedTo
<1>15. ParserState(c, TRUE, FALSE, rs)
  BY <1>1, <1>12, <1>13, <1>14 DEF ParserState, Lively, HistoryRight
<1> QED  BY <1>1, <1>2, <1>15 DEF ParserIInv

LEMMA EndGroupKeeps ==
  ASSUME NoRequestIsNone, ParserIInv, EndGroup
  PROVE  ParserIInv'
<1> DEFINE b == [buf EXCEPT !.next = @ + 1]  c == SetRevision(b, buf.next)
<1>1. /\ group = TRUE /\ waiting = FALSE /\ ParserSound(buf) /\ buf.next \in Nat /\ buf.revision \in 1 .. buf.next - 1
      /\ records \in Seq(EditRecords) /\ Increasing(records, buf.next) /\ HistoryRight(buf, records, buf.next)
  BY DEF ParserIInv, ParserState, EndGroup
<1>2. buf' = c /\ records' = records /\ group' = FALSE /\ waiting' = waiting
  BY DEF EndGroup
<1>3. ParserSound(b) /\ SameParse(b, buf) /\ b.request = buf.request /\ b.text = buf.text /\ b.grammar = buf.grammar /\ b.next = buf.next + 1
  <2> DEFINE n == buf.next + 1
  <2>1. b = [buf EXCEPT !.next = n]
    OBVIOUS
  <2> HIDE DEF n, b
  <2>2. LET e == [buf EXCEPT !.next = n]
        IN ParserSound(e) /\ SameParse(e, buf) /\ e.request = buf.request /\ e.text = buf.text /\ e.grammar = buf.grammar /\ e.next = n
    BY <1>1, NextSet
  <2> QED  BY <2>1, <2>2 DEF n
<1> HIDE DEF b
<1>4. /\ ParserSound(c) /\ SameParse(c, b) /\ c.text = b.text /\ c.grammar = b.grammar /\ c.revision = buf.next /\ c.next = b.next
      /\ b.request # NoRequest => c.request = b.request
      /\ b.request = NoRequest => Restarted(c)
  BY <1>3, RevisionFacts
<1> HIDE DEF c
<1>5. PICK h : History(h, records, buf.text) /\ RequestRight(buf, records, h, buf.next)
  BY <1>1 DEF HistoryRight
<1>6. c.revision \in 1 .. c.next - 1 /\ c.next \in Nat /\ c.next = buf.next + 1 /\ buf.next <= c.next
  BY <1>1, <1>3, <1>4
<1>7. HistoryRight(c, records, c.revision) /\ Lively(c, FALSE, FALSE)
  <2>1. CASE buf.request = NoRequest
    <3>1. Restarted(c) /\ Increasing(records, c.revision) /\ History(h, records, c.text)
      BY <1>1, <1>3, <1>4, <1>5, <2>1
    <3> QED  BY <1>1, <1>4, <1>6, <3>1, RestartedRight
  <2>2. CASE buf.request # NoRequest
    <3>1. c.request = buf.request /\ c.grammar = buf.grammar /\ c.states = buf.states /\ c.text = buf.text
      BY <1>3, <1>4, <2>2 DEF SameParse
    <3>2. RequestRight(c, records, h, buf.next)
      BY <1>1, <1>5, <1>6, <3>1, SameRight
    <3> QED  BY <1>4, <1>5, <2>2, <3>1, <3>2 DEF HistoryRight, Lively
  <2> QED  BY <2>1, <2>2
<1>8. ParserState(c, FALSE, FALSE, records)
  BY <1>1, <1>4, <1>6, <1>7 DEF ParserState
<1> QED  BY <1>1, <1>2, <1>8 DEF ParserIInv

LEMMA UndoKeeps ==
  ASSUME NoRequestIsNone, ParserIInv, Undo
  PROVE  ParserIInv'
<1> DEFINE r == Last(records)  rs == ButLast(records)  b == TrimmedReplace(buf, r.pos, r.pos + Len(r.after), r.before)
           c == SetRevision(b, r.revision)  d == Len(records)
<1>1. /\ group = FALSE /\ waiting = FALSE /\ ParserSound(buf) /\ buf.next \in Nat /\ buf.revision \in 1 .. buf.next - 1
      /\ records \in Seq(EditRecords) /\ Increasing(records, buf.revision) /\ HistoryRight(buf, records, buf.revision)
      /\ records # <<>>
  BY DEF ParserIInv, ParserState, Undo, Idling
<1>2. buf' = c /\ records' = rs /\ group' = group /\ waiting' = waiting
  BY DEF Undo, Last, ButLast
<1>3. PICK h : History(h, records, buf.text) /\ RequestRight(buf, records, h, buf.revision)
  BY <1>1 DEF HistoryRight
<1>4. d \in Nat \ {0} /\ r \in EditRecords /\ rs \in Seq(EditRecords)
  BY <1>1, ButLastFacts
<1>5. Leads(h[d - 1], buf.text, r.pos, r.before, r.after)
  <2>1. d \in 1 .. d
    BY <1>4
  <2> QED  BY <1>3, <2>1 DEF History, Last
<1> HIDE DEF r, rs, d
<1>6. Leads(buf.text, h[d - 1], r.pos, r.after, r.before)
  BY <1>5, LeadsBack
<1>7. EditedTo(b, buf, h[d - 1], r.pos, r.after, r.before)
  BY <1>1, <1>6, TrimmedFacts
<1> HIDE DEF b
<1>8. History(h, rs, b.text) /\ RequestRight(b, rs, h, r.revision)
  BY <1>1, <1>3, <1>7, UndoneRight DEF r, rs, d
<1>9. Increasing(rs, r.revision) /\ r.revision < buf.revision
  BY <1>1, IncreasingBack DEF r, rs
<1>10. ParserSound(b) /\ b.next = buf.next
  BY <1>7 DEF EditedTo
<1>11. /\ ParserSound(c) /\ SameParse(c, b) /\ c.text = b.text /\ c.grammar = b.grammar /\ c.revision = r.revision /\ c.next = b.next
       /\ b.request # NoRequest => c.request = b.request
       /\ b.request = NoRequest => Restarted(c)
  BY <1>10, RevisionFacts
<1> HIDE DEF c
<1>12. c.revision \in 1 .. c.next - 1 /\ c.next \in Nat /\ b.next \in Nat /\ b.next <= c.next
  <2>1. r.revision \in Nat \ {0}
    BY <1>4 DEF EditRecords
  <2> QED  BY <1>1, <1>9, <1>10, <1>11, <2>1
<1>13. HistoryRight(c, rs, c.revision) /\ Lively(c, FALSE, FALSE)
  <2>1. CASE b.request = NoRequest
    <3>1. Restarted(c) /\ Increasing(rs, c.revision) /\ History(h, rs, c.text)
      BY <1>8, <1>9, <1>11, <2>1
    <3> QED  BY <1>4, <1>11, <1>12, <3>1, RestartedRight
  <2>2. CASE b.request # NoRequest
    <3>1. c.request = b.request /\ c.grammar = b.grammar /\ c.states = b.states /\ c.text = b.text
      BY <1>11, <2>2 DEF SameParse
    <3>2. RequestRight(c, rs, h, r.revision)
      BY <1>8, <1>12, <3>1, SameRight
    <3> QED  BY <1>8, <1>11, <2>2, <3>1, <3>2 DEF HistoryRight, Lively
  <2> QED  BY <2>1, <2>2
<1>14. ParserState(c, FALSE, FALSE, rs)
  BY <1>4, <1>9, <1>11, <1>12, <1>13 DEF ParserState
<1> QED  BY <1>1, <1>2, <1>14 DEF ParserIInv

\* The first dirty line, once it is parsed, is not dirty; the next may be.
LEMMA LineAdvances ==
  ASSUME NEW b, ParserSound(b), b.dirty # NoKeys, NEW to, NEW s, NEW ls, NEW st, NEW from, from = BeginOf(b.text, FirstDirty(b)),
         Parsed(b, from, to, s, ls, st), NEW c, c.dirty = ParsedLine(b, from, to, ls, st).dirty
  PROVE  c.dirty = NoKeys \/ FirstDirty(c) > FirstDirty(b)
<1> DEFINE p == ParsedLine(b, from, to, ls, st)  eof == AtEOF(b.text, from)  k0 == FirstDirty(b)
<1>1. BufferRead(b) /\ IsBuffer(b) /\ b.text \in Seq(TextChars) /\ MapsIn(Len(b.text), b.dirty, b.scopes, b.states)
  BY DEF ParserSound, BufferRead
<1>2. k0 \in 0 .. Len(b.text) /\ \A k \in DOMAIN b.dirty : k0 <= k
  BY <1>1, FirstDirtyFacts
<1>3. Start(b.text, from) /\ OneLine(b.text, from, k0)
  BY <1>1, FirstKnown
<1>4. to = EndOf(b.text, from)
  BY DEF Parsed, ParseOf
<1>5. from <= k0 /\ (eof \/ k0 < to)
  <2>1. from \in 0 .. Len(b.text)
    BY <1>3 DEF Start
  <2> HIDE DEF k0
  <2> QED  BY <1>1, <1>2, <1>3, <1>4, <2>1, OnLine
<1>6. BufferRead(p)
  BY <1>1, ParsedKeeps DEF Parsed
<1>7. ParsedMaps(b.text, from, to, ls, st, b.dirty, b.scopes, b.states, p.dirty, p.scopes, p.states)
  BY <1>1, ParsedFields
<1> HIDE DEF p, k0
<1>8. \A k \in DOMAIN p.dirty : (k \in DOMAIN b.dirty /\ ~(from <= k /\ (eof \/ k < to))) \/ (k = to /\ ~eof)
  BY <1>7, ParsedDirty
<1> HIDE DEF eof
<1>9. from \in Nat /\ Len(b.text) \in Nat /\ k0 \in Nat /\ DOMAIN b.dirty \subseteq Nat
  BY <1>1, <1>2, <1>3 DEF Start, MapsIn
<1>10. to \in Nat
  <2>1. from \in 0 .. Len(b.text)
    BY <1>3 DEF Start
  <2>2. EndOf(b.text, from) \in from .. Len(b.text)
    BY <1>1, <2>1, EndFacts
  <2> QED  BY <1>4, <1>9, <2>2
<1>11. ASSUME NEW k \in DOMAIN p.dirty PROVE k0 < k
  <2>1. CASE k \in DOMAIN b.dirty /\ ~(from <= k /\ (eof \/ k < to))
    <3>1. k \in Nat /\ k0 <= k
      BY <1>2, <1>9, <2>1
    <3> QED  BY <1>5, <1>9, <1>10, <2>1, <3>1
  <2>2. CASE k = to /\ ~eof
    BY <1>5, <2>2
  <2> QED  BY <1>8, <2>1, <2>2
<1>12. ASSUME p.dirty # NoKeys PROVE FirstDirty(p) \in DOMAIN p.dirty /\ FirstDirty(p) \in Nat
  <2>1. MapsIn(Len(p.text), p.dirty, p.scopes, p.states) /\ p.text \in Seq(TextChars)
    BY <1>6 DEF BufferRead
  <2>2. FirstDirty(p) \in DOMAIN p.dirty /\ FirstDirty(p) \in 0 .. Len(p.text)
    BY <1>12, <2>1, FirstDirtyFacts
  <2> QED  BY <2>2
<1>13. FirstDirty(c) = FirstDirty(p) /\ c.dirty = p.dirty
  BY DEF FirstDirty, p
<1>14. p.dirty # NoKeys => FirstDirty(p) > k0
  BY <1>9, <1>11, <1>12
<1> QED  BY <1>13, <1>14 DEF k0

-----------------------------------------------------------------------------
(* The theorems.                                                           *)

LEMMA ParserKeeps ==
  ASSUME NoRequestIsNone, ~GrammarWhileParsing, ParserIInv, [ParserNext]_parserVars
  PROVE  ParserIInv'
<1>1. CASE UNCHANGED parserVars
  BY <1>1 DEF parserVars, ParserIInv
<1>2. ASSUME NEW from \in 0 .. Len(buf.text), NEW to \in 0 .. Len(buf.text), NEW s \in Strings, from <= to, ReplaceText(from, to, s)
      PROVE  ParserIInv'
  BY <1>2, ReplaceTextKeeps
<1>3. CASE EndGroup
  BY <1>3, EndGroupKeeps
<1>4. CASE Undo
  BY <1>4, UndoKeeps
<1>5. CASE LineParsed
  BY <1>5, LineParsedKeeps
<1>6. CASE WaitForRepair
  BY <1>6, WaitForRepairKeeps
<1>7. CASE RepairLine
  BY <1>7, RepairLineKeeps
<1>8. CASE Repaired
  BY <1>8, RepairedKeeps
<1>9. ASSUME NEW g \in Grammars, SetGrammar(g) PROVE ParserIInv'
  BY <1>9, SetGrammarKeeps
<1> QED  BY <1>1, <1>2, <1>3, <1>4, <1>5, <1>6, <1>7, <1>8, <1>9 DEF ParserNext

LEMMA ParserIInvParsed ==
  ASSUME ParserIInv
  PROVE  ParsedPrefix
<1>1. /\ BufferRead(buf) /\ SeenWhole(buf) /\ buf.text \in Seq(TextChars) /\ buf.revision \in 1 .. buf.next - 1
      /\ MapsIn(Len(buf.text), buf.dirty, buf.scopes, buf.states) /\ Lively(buf, group, waiting)
  BY DEF ParserIInv, ParserState, ParserSound, BufferRead
<1>2. DOMAIN buf.seen = DOMAIN buf.text
  BY <1>1 DEF SeenWhole
<1>3. buf.dirty # NoKeys => StateKnown(buf, BeginOf(buf.text, FirstDirty(buf)))
  BY <1>1, FirstKnown
<1>4. ParserTypes
  BY <1>1, <1>2, <1>3 DEF ParserTypes, MapsIn
<1>5. PrefixParsed
  BY <1>1, PrefixRead
<1>6. NeverStalls
  BY <1>1 DEF Lively, NeverStalls, Idling
<1> QED  BY <1>4, <1>5, <1>6 DEF ParsedPrefix

\* Whatever is edited, undone or waited for while lines are parsed in the
\* background: the text is parsed up to the first dirty line, and the parser goes on.
THEOREM TextParsed ==
  ASSUME NoRequestIsNone, ~GrammarWhileParsing
  PROVE  ParserSpec => []ParsedPrefix
<1>1. ParserInit => ParserIInv
  BY ParserStarts
<1>2. ParserIInv /\ [ParserNext]_parserVars => ParserIInv'
  BY ParserKeeps
<1>3. ParserIInv => ParsedPrefix
  BY ParserIInvParsed
<1> QED  BY <1>1, <1>2, <1>3, PTL DEF ParserSpec

LEMMA StepAdvances ==
  ASSUME NoRequestIsNone, ~GrammarWhileParsing, ParserIInv, [ParserNext]_parserVars
  PROVE  Advances
<1> SUFFICES ASSUME buf.request # NoRequest, buf'.request # buf.request, waiting' = waiting, buf.dirty # NoKeys,
                    buf.request.from = BeginOf(buf.text, FirstDirty(buf)), buf.request.revision = buf.revision
             PROVE  buf'.dirty = NoKeys \/ FirstDirty(buf') > FirstDirty(buf)
  BY DEF Advances
<1>1. /\ ParserSound(buf) /\ buf.next \in Nat /\ records \in Seq(EditRecords)
      /\ group = FALSE => HistoryRight(buf, records, buf.revision)
  BY DEF ParserIInv, ParserState
<1>2. CASE UNCHANGED parserVars
  BY <1>2 DEF parserVars
<1>3. ASSUME NEW from \in 0 .. Len(buf.text), NEW to \in 0 .. Len(buf.text), NEW s \in Strings, from <= to, ReplaceText(from, to, s)
      PROVE  buf'.request = buf.request
  <2>1. IsBuffer(buf)
    BY <1>1 DEF ParserSound, BufferRead
  <2>2. \A x, y, z : ParserReplace(buf, x, y, z).request = buf.request
    <3> TAKE x, y, z
    <3>1. ReplacedIn(ParserReplace(buf, x, y, z), buf, x, y, z)
      BY <2>1, ReplaceFields
    <3> QED  BY <3>1 DEF ReplacedIn
  <2>3. buf' = TrimmedReplace(buf, from, to, s)
    BY <1>3 DEF ReplaceText
  <2> QED  BY <2>2, <2>3 DEF TrimmedReplace
<1>4. ASSUME EndGroup PROVE buf'.request = buf.request
  <2>1. buf' = InitiateRepair([[buf EXCEPT !.next = @ + 1] EXCEPT !.revision = buf.next], LimitEdit, NoBatch)
    BY <1>4 DEF EndGroup, SetRevision
  <2> DEFINE d == [[buf EXCEPT !.next = @ + 1] EXCEPT !.revision = buf.next]
  <2>2. d.request = buf.request
    BY <1>1 DEF ParserSound, BufferRead, IsBuffer
  <2> HIDE DEF d
  <2>3. InitiateRepair(d, LimitEdit, NoBatch) = d
    BY <2>2 DEF InitiateRepair
  <2> QED  BY <2>1, <2>2, <2>3 DEF d
<1>5. ASSUME Undo PROVE buf'.request = buf.request
  <2> DEFINE r == records[Len(records)]
             b == TrimmedReplace(buf, r.pos, r.pos + Len(r.after), r.before)
             d == [b EXCEPT !.revision = r.revision]
  <2>1. buf' = InitiateRepair(d, LimitEdit, NoBatch)
    BY <1>5 DEF Undo, SetRevision
  <2>2. IsBuffer(buf)
    BY <1>1 DEF ParserSound, BufferRead
  <2>3. \A x, y, z : IsBuffer(ParserReplace(buf, x, y, z)) /\ ParserReplace(buf, x, y, z).request = buf.request
    <3> TAKE x, y, z
    <3>1. ReplacedIn(ParserReplace(buf, x, y, z), buf, x, y, z)
      BY <2>2, ReplaceFields
    <3> QED  BY <3>1 DEF ReplacedIn
  <2>4. IsBuffer(b) /\ b.request = buf.request
    BY <2>3 DEF TrimmedReplace
  <2> HIDE DEF b, r
  <2>5. d.request = buf.request
    BY <2>4 DEF IsBuffer
  <2> HIDE DEF d
  <2>6. InitiateRepair(d, LimitEdit, NoBatch) = d
    BY <2>5 DEF InitiateRepair
  <2> QED  BY <2>1, <2>5, <2>6
<1>6. CASE LineParsed
  <2>1. buf' = Completed(buf) /\ HistoryRight(buf, records, buf.revision)
    BY <1>1, <1>6 DEF LineParsed, Idling, ParserIInv, ParserState
  <2>2. PICK h : History(h, records, buf.text) /\ RequestRight(buf, records, h, buf.revision)
    BY <2>1 DEF HistoryRight
  <2> DEFINE q == buf.request
  <2>3. PICK d, s : /\ ParserSound(d) /\ SameText(d, buf) /\ SameParse(d, buf)
                    /\ Parsed(buf, q.from, q.to, s, q.scopes, q.state)
                    /\ Completed(buf).dirty = ParsedLine(d, q.from, q.to, q.scopes, q.state).dirty
    BY <1>1, <2>2, CompletedFacts
  <2> HIDE DEF q
  <2>4. /\ FirstDirty(d) = FirstDirty(buf) /\ d.text = buf.text /\ d.dirty # NoKeys
        /\ Parsed(d, q.from, q.to, s, q.scopes, q.state) /\ q.from = BeginOf(d.text, FirstDirty(d))
    BY <2>3 DEF SameText, SameParse, FirstDirty, Parsed, q
  <2>5. buf'.dirty = ParsedLine(d, q.from, q.to, q.scopes, q.state).dirty
    BY <2>1, <2>3
  <2>6. buf'.dirty = NoKeys \/ FirstDirty(buf') > FirstDirty(d)
    BY <2>3, <2>4, <2>5, LineAdvances
  <2> QED  BY <2>4, <2>6
<1>7. CASE RepairLine
  <2>1. buf' = RepairedLine(buf)
    BY <1>7 DEF RepairLine
  <2> DEFINE from == BeginOf(buf.text, FirstDirty(buf))
  <2>2. PICK to, x, ls, st : Parsed(buf, from, to, x, ls, st) /\ RepairedLine(buf).dirty = ParsedLine(buf, from, to, ls, st).dirty
    BY <1>1, RepairedFacts
  <2>3. buf'.dirty = ParsedLine(buf, from, to, ls, st).dirty
    BY <2>1, <2>2
  <2> QED  BY <1>1, <2>2, <2>3, LineAdvances
<1>8. ~WaitForRepair /\ ~Repaired
  <2>1. ~WaitForRepair
    BY DEF WaitForRepair, Idling
  <2>2. ~Repaired
    BY DEF Repaired
  <2> QED  BY <2>1, <2>2
<1>9. ASSUME NEW g \in Grammars, SetGrammar(g) PROVE FALSE
  BY <1>9 DEF SetGrammar
<1> QED  BY <1>2, <1>3, <1>4, <1>5, <1>6, <1>7, <1>8, <1>9 DEF ParserNext

\* A line that was parsed for the text as it is gets the parser further.
THEOREM ParserAdvances ==
  ASSUME NoRequestIsNone, ~GrammarWhileParsing
  PROVE  ParserSpec => StepsKeep
<1>1. ParserInit => ParserIInv
  BY ParserStarts
<1>2. ParserIInv /\ [ParserNext]_parserVars => ParserIInv'
  BY ParserKeeps
<1>3. ParserIInv /\ [ParserNext]_parserVars => [Advances]_parserVars
  BY StepAdvances
<1> QED  BY <1>1, <1>2, <1>3, PTL DEF ParserSpec, StepsKeep
================================================================================
