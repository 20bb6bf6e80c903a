----------------------------- MODULE BufferMarks -----------------------------
(***************************************************************************)
(* What moves with a buffer's text: marks_t (bookmarks and the marks that  *)
(* commands set) and pairs_t (the brackets that the editor inserted for    *)
(* the user), with the editing commands that use the pairs.                *)
(*                                                                         *)
(* A character is its place in the text, 1..size.  To tell what should have *)
(* moved where, a mark's value is the character it was set behind (0 at    *)
(* the begin), and `typed' has the characters that a pair was added for;   *)
(* Gone once they are deleted.  The code keeps neither.                    *)
(***************************************************************************)
EXTENDS IndexedMap

CONSTANTS MarkTypes, MaxSize, MaxPairs, MaxMarks, Gone

ASSUME ConstAssumption == Gone \notin Int

VARIABLES
  size,    \* of the text
  marks,   \* type -> indexed map from positions to marks
  pairs,   \* indexed map from positions to ranks; 2n and 2n+1 are a pair
  rank,    \* the next rank
  typed

vars == <<size, marks, pairs, rank, typed>>

Keys(m) == DOMAIN m

\* Where a character is after n new ones replaced those of from + 1 .. to.
Moved(i, from, to, n) ==
  IF i = Gone \/ i <= from THEN i ELSE IF i <= to THEN Gone ELSE i + n - (to - from)

-----------------------------------------------------------------------------
\* pairs_t

PairsReplace(p, from, to, len) ==
  LET gone == {p[k] \div 2 : k \in {j \in Keys(p) : from <= j /\ j < to}}
  IN Replace(Without(p, {k \in Keys(p) : p[k] \div 2 \in gone}), from, to, len, TRUE)

IsFirst(i) == i \in Keys(pairs) /\ pairs[i] % 2 = 0
IsLast(i)  == i \in Keys(pairs) /\ pairs[i] % 2 = 1
Counterpart(i) == CHOOSE k \in Keys(pairs) : pairs[k] \div 2 = pairs[i] \div 2 /\ pairs[k] # pairs[i]

-----------------------------------------------------------------------------
\* Mutant: marks in the replaced text are lost.
MarksReplaceDropping(mm, from, to, len) ==
  [t \in MarkTypes |-> LET m == Replace(mm[t], from, to, len, FALSE)
                        IN [k \in Keys(m) |-> Moved(m[k], from, to, len)]]

\* Mutant: marks do not move for the new text.
MarksReplaceShort(mm, from, to, len) ==
  [t \in MarkTypes |-> LET m == ReplacePreserving(mm[t], from, to, 0, FALSE)
                        IN [k \in Keys(m) |-> Moved(m[k], from, to, len)]]

MarksReplace(mm, from, to, len) ==
  [t \in MarkTypes |-> LET m == ReplacePreserving(mm[t], from, to, len, FALSE)
                        IN [k \in Keys(m) |-> Moved(m[k], from, to, len)]]

\* marks_t::next and prev: the candidate of each type, wrapped around.
NextCandidates(i) ==
  {LET after == {k \in Keys(marks[t]) : k > i} IN IF after # {} THEN Min(after) ELSE Min(Keys(marks[t])) :
     t \in {u \in MarkTypes : marks[u] # NoKeys}}
PrevCandidates(i) ==
  {LET before == {k \in Keys(marks[t]) : k < i} IN IF before # {} THEN Max(before) ELSE Max(Keys(marks[t])) :
     t \in {u \in MarkTypes : marks[u] # NoKeys}}

NextMark(i) ==
  LET c == NextCandidates(i) IN IF \E k \in c : k > i THEN Min({k \in c : k > i}) ELSE Min(c)
PrevMark(i) ==
  LET c == PrevCandidates(i) IN IF \E k \in c : k < i THEN Max({k \in c : k < i}) ELSE Max(c)

-----------------------------------------------------------------------------
\* buffer_t::replace with n new characters.
Replaced(b, from, to, n) ==
  [size  |-> b.size - (to - from) + n,
   marks |-> MarksReplace(b.marks, from, to, n),
   pairs |-> PairsReplace(b.pairs, from, to, n),
   typed |-> [r \in DOMAIN b.typed |-> Moved(b.typed[r], from, to, n)]]

Buffer == [size |-> size, marks |-> marks, pairs |-> pairs, typed |-> typed]

Becomes(b) ==
  /\ b.size <= MaxSize
  /\ size' = b.size /\ marks' = b.marks /\ pairs' = b.pairs
  /\ typed' = Restrict(b.typed, Range(pairs'))

Init ==
  /\ size \in 0..1 /\ marks = [t \in MarkTypes |-> NoKeys]
  /\ pairs = NoKeys /\ rank = 0 /\ typed = NoKeys

Edit(from, to, n) == Becomes(Replaced(Buffer, from, to, n)) /\ UNCHANGED rank

\* insert_with_pairing: an opening bracket is typed at the caret and its
\* counterpart inserted.
TypeFirst(caret) ==
  /\ rank < 2 * MaxPairs /\ rank' = rank + 2
  /\ Becomes([Replaced(Buffer, caret, caret, 2) EXCEPT
                !.pairs = Set(Set(@, caret, rank), caret + 1, rank + 1),
                !.typed = Set(Set(@, rank, caret + 1), rank + 1, caret + 2)])

\* The counterpart itself is typed: the caret moves over it.
TypeLast(caret) ==
  /\ IsLast(caret)
  /\ Becomes([Buffer EXCEPT !.pairs = Without(@, {caret, Counterpart(caret)})])
  /\ UNCHANGED rank

\* Backspace behind an opening bracket deletes its counterpart too: both at
\* once, or first the bracket and then the other where it is by then.
DeleteFirst(from) ==
  /\ IsFirst(from)
  /\ LET other == Counterpart(from) IN
     Becomes(IF other = from + 1 THEN Replaced(Buffer, from, from + 2, 0)
             ELSE Replaced(Replaced(Buffer, from, from + 1, 0), other - 1, other, 0))
  /\ UNCHANGED rank

SetMark(t, i) ==
  /\ FoldSet(LAMBDA u, n : n + Cardinality(Keys(marks[u])), 0, MarkTypes) < MaxMarks
  /\ marks' = [marks EXCEPT ![t] = Set(@, i, i)]
  /\ UNCHANGED <<size, pairs, rank, typed>>

RemoveMark(t, i) ==
  /\ i \in Keys(marks[t])
  /\ marks' = [marks EXCEPT ![t] = Without(@, {i})]
  /\ UNCHANGED <<size, pairs, rank, typed>>

Next ==
  \/ \E from, to \in 0..size, n \in 0..1 : from <= to /\ Edit(from, to, n)
  \/ \E i \in 0..size :
       \/ TypeFirst(i) \/ TypeLast(i) \/ DeleteFirst(i)
       \/ \E t \in MarkTypes : SetMark(t, i) \/ RemoveMark(t, i)

Spec == Init /\ [][Next]_vars

-----------------------------------------------------------------------------
\* What the assertion in counterpart() wants: each half of a pair has its other
\* half behind or before it, on the characters the pair was added for, and
\* pairs never cross; whatever was typed, deleted or replaced since.
PairsIntact ==
  /\ \A i \in Keys(pairs) :
       /\ \E j \in Keys(pairs) : pairs[j] \div 2 = pairs[i] \div 2 /\ i # j /\ (IsFirst(i) <=> i < j)
       /\ typed[pairs[i]] = i + 1
  /\ \A i, j \in Keys(pairs) :
       i < j /\ j < Counterpart(i) => i < Counterpart(j) /\ Counterpart(j) < Counterpart(i)

\* A mark stays behind its character for as long as the text has it.
MarksFollow ==
  \A t \in MarkTypes : \A k \in Keys(marks[t]) :
    marks[t][k] \in {k, Gone}

\* Text that is replaced keeps one of its marks, so that a line that is edited
\* as a whole does not lose its bookmark.
OneIsKept ==
  (\E from, to \in 0..size, n \in 0..1 : from < to /\ Edit(from, to, n)) =>
    \A t \in MarkTypes : (marks[t] # NoKeys) = (marks'[t] # NoKeys)
MarksKept == [][OneIsKept]_vars

\* Going from mark to mark, forth or back, visits all marks of all types.
MarksTour ==
  LET all == UNION {Keys(marks[t]) : t \in MarkTypes} IN
  \A i \in all :
    /\ PrevMark(NextMark(i)) = i /\ NextMark(PrevMark(i)) = i
    /\ \A j \in all : ~(i < j /\ j < NextMark(i))

\* Marks and pairs of brackets stay behind their characters, and next and
\* previous mark visit all marks.
MarksStick == MarksFollow /\ MarksTour /\ PairsIntact
=============================================================================
