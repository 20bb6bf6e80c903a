------------------------------ MODULE Selections ------------------------------
(***************************************************************************)
(* Selections of a text: carets, ranges and columns, how they are moved    *)
(* and extended, and what find makes of them.                              *)
(*                                                                         *)
(* An index is a position in the text and a carry, the columns that it is  *)
(* beyond it.  Characters have one byte; a tab is as wide as it takes.     *)
(* There are no soft tabs, no soft wrap, and no settings of a scope.       *)
(***************************************************************************)
EXTENDS Integers, Sequences, FiniteSets, SequencesExt

CONSTANTS WordChars, Space, Tab, NL, TabSize, Pairs

\* The text and its lines; lines and indices start at 0.
At(t, i) == t[i + 1]
Substr(t, i, j) == SubSeq(t, i + 1, j)
LineOf(t, i) == Cardinality({k \in 1..i : t[k] = NL})
Lines(t) == LineOf(t, Len(t)) + 1
Begin(t, n) == IF n = 0 THEN 0 ELSE CHOOSE k \in 1..Len(t) : t[k] = NL /\ LineOf(t, k) = n
Eol(t, n) == IF n + 1 = Lines(t) THEN Len(t) ELSE Begin(t, n + 1) - 1

Ix(i) == [index |-> i, carry |-> 0]
Less(a, b) == a.index < b.index \/ (a.index = b.index /\ a.carry < b.carry)

\* unanchored: either end may be the one that moves.
Span(a, b) == [first |-> a, last |-> b, columnar |-> FALSE, freehanded |-> FALSE, unanchored |-> FALSE, color |-> FALSE]
Between(i, j) == Span(Ix(i), Ix(j))
Loose(r) == [r EXCEPT !.unanchored = TRUE]
Caret(a) == [Span(a, a) EXCEPT !.freehanded = a.carry # 0]
MinOf(r) == IF Less(r.first, r.last) THEN r.first ELSE r.last
MaxOf(r) == IF Less(r.first, r.last) THEN r.last ELSE r.first
Empty(r) == IF r.freehanded THEN r.first = r.last ELSE r.first.index = r.last.index
Stripped(r, a) == IF r.columnar \/ r.freehanded THEN a ELSE Ix(a.index)
Normalized(r) == [r EXCEPT !.first = Stripped(r, MinOf(r)), !.last = Stripped(r, MaxOf(r))]
Precedes(a, b) == Less(a.first, b.first) \/ (a.first = b.first /\ Less(a.last, b.last))
Before(r, s) == Precedes(Normalized(r), Normalized(s))
Selected(t, r) == Substr(t, MinOf(r).index, MaxOf(r).index)

-----------------------------------------------------------------------------
\* Columns.
Width(ch, len) == IF ch = Tab THEN TabSize - (len % TabSize) ELSE 1
CountColumns(t, a) ==
  FoldLeft(LAMBDA len, ch : len + Width(ch, len), 0, Substr(t, Begin(t, LineOf(t, a.index)), a.index)) + a.carry

Beyond(t, i, col) == [index |-> i, carry |-> col - CountColumns(t, Ix(i))]
AtColumn(t, n, col) ==
  LET cols(i) == CountColumns(t, Ix(i)) IN
  Beyond(t, CHOOSE i \in Begin(t, n)..Eol(t, n) : cols(i) <= col /\ (i = Eol(t, n) \/ cols(i + 1) > col), col)

NotEmpty(t, sel) ==
  \E i \in DOMAIN sel : ~Empty(sel[i]) /\ ~(sel[i].columnar /\ CountColumns(t, sel[i].first) = CountColumns(t, sel[i].last))

LesserOf(a, b) == IF a < b THEN a ELSE b
GreaterOf(a, b) == IF a < b THEN b ELSE a

\* A rectangle is cut into a range per line, freehanded where a line is short.
RowOf(r, a, b) == [r EXCEPT !.first = a, !.last = b, !.columnar = FALSE, !.freehanded = a.carry # 0 \/ b.carry # 0]
Rows(t, r, colA, colB, from) ==
  [i \in 1..(LineOf(t, MaxOf(r).index) - from + 1) |->
     RowOf(r, AtColumn(t, from + i - 1, LesserOf(colA, colB)), AtColumn(t, from + i - 1, GreaterOf(colA, colB)))]
DissectRange(t, r) ==
  IF r.columnar /\ ~Empty(r)
  THEN Rows(t, r, CountColumns(t, r.first), CountColumns(t, r.last), LineOf(t, MinOf(r).index))
  ELSE << [r EXCEPT !.first = MinOf(r), !.last = MaxOf(r)] >>
Dissect(t, sel) == FlattenSeq([i \in DOMAIN sel |-> DissectRange(t, sel[i])])

ToggleColumnar(sel) ==
  [sel EXCEPT ![Len(sel)].columnar = ~@ /\ ~Empty(sel[Len(sel)]), ![Len(sel)].unanchored = FALSE]

DeselectLast(sel) ==
  IF Len(sel) = 1 THEN << [sel[1] EXCEPT !.freehanded = FALSE] >>
  ELSE IF \A i \in DOMAIN sel : Empty(sel[i]) THEN << sel[1] >>
  ELSE Front(sel)

-----------------------------------------------------------------------------
\* sanitize: of ranges that overlap the one that begins first and is longest
\* stays whole, the others lose what it has.  Rectangles are left alone.
SortKey(r) ==
  << IF r.columnar THEN 1 ELSE 0, MinOf(r).index, IF r.freehanded THEN MinOf(r).carry ELSE 0,
     -MaxOf(r).index, IF r.freehanded THEN MaxOf(r).carry ELSE 0 >>
KeyLess(k, l) == \E i \in DOMAIN k : k[i] < l[i] /\ \A j \in 1..(i - 1) : k[j] = l[j]

\* Mutant: what a range shares with the one before it stays in both.
TrimmedNever(r, last) == r

Trimmed(r, last) ==
  IF Less(Normalized(r).first, last)
  THEN IF Less(r.first, r.last) THEN [r EXCEPT !.first = last] ELSE [r EXCEPT !.last = last]
  ELSE r

None == [index |-> -1, carry |-> 0]

\* One of equal ranges, in their order; then what each of them keeps.
Ordered(keys) ==
  SortSeq(SelectSeq([i \in DOMAIN keys |-> i], LAMBDA i : \A j \in 1..(i - 1) : keys[j] # keys[i]),
          LAMBDA i, j : KeyLess(keys[i], keys[j]))
KeepRange(acc, i, r, max) ==
  IF acc.last = None \/ r.columnar THEN [last |-> max, kept |-> Append(acc.kept, <<i, r>>)]
  ELSE IF Less(acc.last, max) \/ (acc.last = max /\ Empty(r))
  THEN [last |-> max, kept |-> Append(acc.kept, <<i, Trimmed(r, acc.last)>>)]
  ELSE acc
Disjoint(rs) ==
  LET kept == FoldLeft(LAMBDA acc, i : KeepRange(acc, i, rs[i], Normalized(rs[i]).last),
                       [last |-> None, kept |-> <<>>], Ordered([i \in DOMAIN rs |-> SortKey(rs[i])])).kept
  IN SortSeq(kept, LAMBDA p, q : p[1] < q[1])
InText(t, a) == [a EXCEPT !.index = LesserOf(@, Len(t))]
Sanitize(t, sel) ==
  LET sorted == Disjoint([i \in DOMAIN sel |-> [sel[i] EXCEPT !.first = InText(t, @), !.last = InText(t, @)]])
  IN [i \in DOMAIN sorted |-> sorted[i][2]]

-----------------------------------------------------------------------------
\* Words.
Class(t, i) == IF At(t, i) \in WordChars THEN "word" ELSE IF At(t, i) \in {Space, Tab} THEN "space" ELSE "other"

\* The first index of the run of class c that ends at i, at least bol.
RunLeft(t, bol, i, c) ==
  CHOOSE k \in bol..i : (\A j \in k..(i - 1) : Class(t, j) = c) /\ (k = bol \/ Class(t, k - 1) # c)
RunRight(t, i, eol, c) ==
  CHOOSE k \in i..eol : (\A j \in i..(k - 1) : Class(t, j) = c) /\ (k = eol \/ Class(t, k) # c)

\* One space or other character between words is passed along.
PastLeft(t, bol, i, k) == IF Class(t, i - 1) # "word" /\ bol < k /\ k + 1 = i THEN RunLeft(t, bol, k, Class(t, k - 1)) ELSE k
WordLeft(t, bol, i) == IF i = bol THEN bol ELSE PastLeft(t, bol, i, RunLeft(t, bol, i, Class(t, i - 1)))
BeginOfWord(t, i) ==
  LET n == LineOf(t, i) IN WordLeft(t, IF i = Begin(t, n) /\ n # 0 THEN Begin(t, n - 1) ELSE Begin(t, n), i)

PastRight(t, i, eol, k) == IF Class(t, i) # "word" /\ k < eol /\ k = i + 1 THEN RunRight(t, k, eol, Class(t, k)) ELSE k
WordRight(t, i, eol) == IF i = eol THEN eol ELSE PastRight(t, i, eol, RunRight(t, i, eol, Class(t, i)))
EndOfWord(t, i) ==
  LET n == LineOf(t, i) IN WordRight(t, i, IF i = Eol(t, n) /\ n + 1 < Lines(t) THEN Eol(t, n + 1) ELSE Eol(t, n))

\* kSelectionExtendToWord.
ExtendToWord(t, r) ==
  LET from == MinOf(r).index
      to == MaxOf(r).index
      bol == Begin(t, LineOf(t, from))
      eol == Eol(t, LineOf(t, to))
      outerLeft == IF from = bol THEN "unknown" ELSE Class(t, from - 1)
      innerLeft == IF from = eol THEN "unknown" ELSE Class(t, from)
      innerRight == IF to = bol THEN "unknown" ELSE Class(t, to - 1)
      outerRight == IF to = eol THEN "unknown" ELSE Class(t, to)
      onlyRight == outerRight # "unknown" /\ \/ outerRight = "word" \/ outerLeft \in {"space", "unknown"}
                                             \/ outerLeft = "other" /\ outerRight # "space"
      left == IF from = to THEN outerLeft = outerRight \/ ~onlyRight ELSE outerLeft = innerLeft
      right == IF from = to THEN outerLeft = outerRight \/ onlyRight ELSE outerRight = innerRight
  IN [Loose(Between(IF left THEN RunLeft(t, bol, from, outerLeft) ELSE from,
              IF right THEN RunRight(t, to, eol, outerRight) ELSE to)) EXCEPT !.columnar = r.columnar]

WordAt(t, r) ==
  LET i == r.first.index
      n == LineOf(t, i)
  IN IF Empty(r) /\ (i = Begin(t, n) \/ Class(t, i - 1) = "space") /\ (i = Eol(t, n) \/ Class(t, i) = "space")
     THEN r ELSE ExtendToWord(t, r)

\* all_words: a run of characters ends where the class changes, and at the end.
Runs(t) ==
  LET Scan(acc, i) ==
        LET c == Class(t, i) IN
        IF c = acc.class THEN acc
        ELSE [class |-> c, from |-> i, words |-> acc.words \union (IF acc.class = "word" THEN {<<acc.from, i>>} ELSE {})]
  IN FoldLeft(Scan, [class |-> "other", from |-> 0, words |-> {}], [i \in 1..Len(t) |-> i - 1])

AllWords(t) == Runs(t).words \union (IF Runs(t).class = "word" THEN {<<Runs(t).from, Len(t)>>} ELSE {})
=============================================================================
