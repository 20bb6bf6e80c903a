------------------------------ MODULE Movements -------------------------------
(***************************************************************************)
(* Where carets go, how ranges are extended, which bracket belongs to      *)
(* which, and what Find Next finds.                                        *)
(***************************************************************************)
EXTENDS Selections

\* Lines of white space end a paragraph.
Blank(t, n) == \A i \in Begin(t, n)..(Eol(t, n) - 1) : At(t, i) \in {Space, Tab}
SmallestOr(S, d) == IF S = {} THEN d ELSE CHOOSE x \in S : \A y \in S : x <= y
LargestOr(S, d) == IF S = {} THEN d ELSE CHOOSE x \in S : \A y \in S : x >= y
EndOfIndent(t, n) == SmallestOr({i \in Begin(t, n)..(Eol(t, n) - 1) : At(t, i) \notin {Space, Tab}}, Eol(t, n))

BeginOfParagraph(t, n) ==
  LET blank == {m \in 1..(n - 1) : Blank(t, m)} IN IF blank = {} THEN 0 ELSE Begin(t, LargestOr(blank, 0) + 1)
EndOfParagraph(t, n) ==
  LET blank == {m \in (n + 1)..(Lines(t) - 1) : Blank(t, m)} IN IF blank = {} THEN Len(t) ELSE Begin(t, SmallestOr(blank, 0))

FreehandedLeft(t, a) ==
  IF a.carry # 0 THEN [a EXCEPT !.carry = @ - 1]
  ELSE IF a.index # 0 /\ At(t, a.index - 1) = Tab THEN AtColumn(t, LineOf(t, a.index), CountColumns(t, Ix(a.index)) - 1)
  ELSE Ix(GreaterOf(a.index - 1, 0))

FreehandedRight(t, a) ==
  IF a.index = Len(t) \/ At(t, a.index) = NL THEN [a EXCEPT !.carry = @ + 1]
  ELSE IF At(t, a.index) = Tab THEN AtColumn(t, LineOf(t, a.index), CountColumns(t, Ix(a.index)) + a.carry + 1)
  ELSE Ix(a.index + 1)

-----------------------------------------------------------------------------
\* Brackets.  find_enclosed_range goes left and right at the same pace and
\* counts, for each pair, what opens and closes; the first pair that has both
\* is the one.
OpenAt(t, p, i) ==
  LET opens(k) == Cardinality({j \in k..(i - 1) : At(t, j) = p[1]})
      closes(k) == Cardinality({j \in k..(i - 1) : At(t, j) = p[2]})
  IN LargestOr({k \in 0..(i - 1) : opens(k) - closes(k) = 1}, -1)

CloseAt(t, p, i) ==
  LET opens(k) == Cardinality({j \in i..k : At(t, j) = p[1]})
      closes(k) == Cardinality({j \in i..k : At(t, j) = p[2]})
  IN SmallestOr({k \in i..(Len(t) - 1) : closes(k) - opens(k) = 1}, -1)

NoPair == <<-1, -1>>
Steps(p, i) == GreaterOf(i - p[1], p[2] + 1 - i)
FirstPair(at, i) ==
  LET found == {n \in DOMAIN at : at[n][1] # -1 /\ at[n][2] # -1} IN
  IF found = {} THEN NoPair
  ELSE at[CHOOSE n \in found : \A m \in found : Steps(at[n], i) < Steps(at[m], i) \/ (Steps(at[n], i) = Steps(at[m], i) /\ n <= m)]
EnclosedRange(t, i) == FirstPair([n \in DOMAIN Pairs |-> <<OpenAt(t, Pairs[n], i), CloseAt(t, Pairs[n], i)>>], i)

Openers == {Pairs[n][1] : n \in DOMAIN Pairs}
Closers == {Pairs[n][2] : n \in DOMAIN Pairs}

\* A caret behind an opening bracket goes to the next one out.
BeginOfTypingPair(t, i, toBefore) ==
  LET behind == ~toBefore /\ i # 0 /\ At(t, i - 1) \in Openers
      to(pair) == IF pair = NoPair THEN i ELSE IF toBefore THEN pair[1] ELSE pair[1] + 1
  IN to(EnclosedRange(t, IF behind THEN i - 1 ELSE i))

EndOfTypingPair(t, i, toAfter) ==
  LET before == ~toAfter /\ i # Len(t) /\ At(t, i) \in Closers
      to(pair) == IF pair = NoPair THEN i ELSE IF toAfter THEN pair[2] + 1 ELSE pair[2]
  IN to(EnclosedRange(t, IF before THEN i + 1 ELSE i))

-----------------------------------------------------------------------------
Leftward == {"Left", "BeginOfIndentedLine", "BeginOfLine", "BeginOfTypingPair", "BeginOfWord"}
Rightward == {"Right", "EndOfIndentedLine", "EndOfLine", "EndOfTypingPair", "EndOfWord"}
Units == Leftward \union Rightward \union {"Up", "Down", "BeginOfDocument", "EndOfDocument"}

\* Where a caret at `a' goes; the layout has no lines but the text's.
MoveFrom(t, a, unit, i, n) ==
  LET bol == Begin(t, n)
      eol == Eol(t, n)
      eoi == EndOfIndent(t, n)
  IN CASE unit = "Nowhere" -> a
       [] unit = "Left" -> Ix(GreaterOf(i - 1, 0))
       [] unit = "Right" -> Ix(LesserOf(i + 1, Len(t)))
       [] unit = "Up" -> IF n = 0 THEN Ix(0) ELSE AtColumn(t, n - 1, CountColumns(t, a))
       [] unit = "Down" -> IF n + 1 = Lines(t) THEN Ix(Len(t)) ELSE AtColumn(t, n + 1, CountColumns(t, a))
       [] unit = "FreehandedLeft" -> FreehandedLeft(t, a)
       [] unit = "FreehandedRight" -> FreehandedRight(t, a)
       [] unit = "BeginOfLine" -> Ix(bol)
       [] unit = "EndOfLine" -> Ix(eol)
       [] unit = "BeginOfIndentedLine" -> Ix(IF eoi < i THEN eoi ELSE bol)
       [] unit = "EndOfIndentedLine" -> Ix(IF i < eoi THEN eoi ELSE eol)
       [] unit = "BeginOfTypingPair" -> Ix(BeginOfTypingPair(t, i, FALSE))
       [] unit = "EndOfTypingPair" -> Ix(EndOfTypingPair(t, i, FALSE))
       [] unit = "BeginOfWord" -> Ix(BeginOfWord(t, i))
       [] unit = "EndOfWord" -> Ix(EndOfWord(t, i))
       [] unit = "BeginOfDocument" -> Ix(0)
       [] unit = "EndOfDocument" -> Ix(Len(t))
Move(t, a, unit) == MoveFrom(t, a, unit, a.index, LineOf(t, a.index))

\* A range that is moved first collapses to the side it is moved to.
Landed(t, r, orgUnit, b) ==
  LET wraps == orgUnit = "Left" /\ Empty(r) /\ LineOf(t, b.index) + 1 = LineOf(t, r.last.index)
  IN [Span(b, b) EXCEPT !.freehanded = r.freehanded /\ ~wraps]

MoveRange(t, r, orgUnit) ==
  LET sideways == orgUnit \in Leftward \union Rightward
      crosses == LineOf(t, r.first.index) # LineOf(t, r.last.index)
      vertical == ~Empty(r) /\ ~r.columnar /\ orgUnit \in {"Up", "Down"} /\ crosses
      a == IF (sideways /\ ~Empty(r)) \/ vertical
           THEN IF orgUnit \in Leftward \union {"Up"} THEN MinOf(r) ELSE MaxOf(r)
           ELSE r.last
      atBegin == Begin(t, LineOf(t, a.index)) = a.index
      unit == IF ~Empty(r) /\ orgUnit \in {"Left", "Right"} THEN "Nowhere"
              ELSE IF vertical /\ orgUnit = "Down" /\ atBegin THEN "Nowhere"
              ELSE IF r.freehanded /\ orgUnit = "Left" THEN "FreehandedLeft"
              ELSE IF r.freehanded /\ orgUnit = "Right" THEN "FreehandedRight"
              ELSE orgUnit
  IN Landed(t, r, orgUnit, Move(t, a, unit))

\* Carets on several lines that go up or down become one.
Gathered(t, res, unit) ==
  LET ends == {res[i].first : i \in DOMAIN res}
      outermost == CHOOSE a \in ends : \A b \in ends : IF unit = "Up" THEN ~Less(b, a) ELSE ~Less(a, b)
      spread == Cardinality({LineOf(t, a.index) : a \in ends}) > 1
  IN IF unit \in {"Up", "Down"} /\ spread THEN << Span(outermost, outermost) >> ELSE res

MoveAll(t, sel, unit) ==
  LET from == IF unit \in Leftward \union Rightward THEN Dissect(t, sel) ELSE sel
  IN Sanitize(t, Gathered(t, [i \in DOMAIN from |-> MoveRange(t, from[i], unit)], unit))

MoveToEnds(t, sel) == Sanitize(t, [i \in DOMAIN sel |-> [Span(MaxOf(sel[i]), MaxOf(sel[i])) EXCEPT !.freehanded = sel[i].freehanded]])

\* To whole lines: a range that ends where a line begins does not have that line.
ToLine(t, r, withNewline) ==
  LET min == MinOf(r).index
      max == MaxOf(r).index
      eol == Eol(t, LineOf(t, max))
  IN Loose(Between(Begin(t, LineOf(t, min)),
                   IF min # max /\ max = Begin(t, LineOf(t, max)) THEN max
                   ELSE IF withNewline THEN LesserOf(eol + 1, Len(t)) ELSE eol))

\* To the brackets around, and if these are alone on their lines to those.
PairOrLines(t, r, from, to) ==
  LET bol == Begin(t, LineOf(t, from))
      eol == LesserOf(Eol(t, LineOf(t, to)) + 1, Len(t))
      white(i, j) == \A k \in i..(j - 1) : At(t, k) \in {Space, Tab, NL}
  IN IF from = MinOf(r).index \/ to = MaxOf(r).index THEN r
     ELSE IF LineOf(t, from) # LineOf(t, to) /\ white(bol, from) /\ white(to, eol) THEN Loose(Between(bol, eol))
     ELSE Loose(Between(from, to))
ToTypingPair(t, r) ==
  PairOrLines(t, r, BeginOfTypingPair(t, MinOf(r).index, TRUE), EndOfTypingPair(t, MaxOf(r).index, TRUE))

ExtendUnits == Units \union {"Word", "Line", "LineExclLF", "Paragraph", "TypingPair", "All"}
TowardBegin == {"Left", "Up", "BeginOfWord", "BeginOfIndentedLine", "BeginOfLine", "BeginOfDocument"}
TowardEnd == {"Right", "Down", "EndOfWord", "EndOfIndentedLine", "EndOfLine", "EndOfDocument"}
Extend(t, r, unit) ==
  LET plain == ~r.freehanded /\ r.first = r.last
      a == IF plain THEN Ix(r.first.index) ELSE r.first
      b == IF plain THEN Ix(r.last.index) ELSE r.last
      turn == r.unanchored /\ \/ Less(a, b) /\ unit \in TowardBegin
                              \/ Less(b, a) /\ unit \in TowardEnd
      free == r.freehanded \/ r.columnar
      by == IF free /\ unit = "Left" THEN "FreehandedLeft" ELSE IF free /\ unit = "Right" THEN "FreehandedRight" ELSE unit
  IN CASE unit = "Word" -> ExtendToWord(t, r)
       [] unit = "Line" -> ToLine(t, r, TRUE)
       [] unit = "LineExclLF" -> ToLine(t, r, FALSE)
       [] unit = "Paragraph" -> Loose(Between(BeginOfParagraph(t, LineOf(t, MinOf(r).index)), EndOfParagraph(t, LineOf(t, MaxOf(r).index))))
       [] unit = "TypingPair" -> ToTypingPair(t, r)
       [] unit = "All" -> Loose(Between(0, Len(t)))
       [] OTHER -> [r EXCEPT !.first = IF turn THEN b ELSE a, !.last = Move(t, IF turn THEN a ELSE b, by),
                             !.unanchored = FALSE, !.color = FALSE]

Splitting == {"Word", "TypingPair", "EndOfIndentedLine", "EndOfLine", "BeginOfTypingPair", "EndOfTypingPair"}
ExtendAll(t, sel, unit) ==
  LET from == IF Len(sel) = 1 /\ sel[1].columnar /\ unit \in Splitting THEN Dissect(t, sel) ELSE sel
  IN Sanitize(t, [i \in DOMAIN from |-> Extend(t, from[i], unit)])

\* At the end of a line EndOfLine takes the newline.
OrNewline(t, e, unit) ==
  IF unit = "EndOfLine" /\ Empty(e) THEN [e EXCEPT !.last = Move(t, @, IF e.freehanded THEN "FreehandedRight" ELSE "Right")] ELSE e
ExtendEach(t, rs, unit) == [k \in DOMAIN rs |-> [OrNewline(t, Extend(t, rs[k], unit), unit) EXCEPT !.color = FALSE]]
ExtendIfEmpty(t, sel, unit) ==
  Sanitize(t, FlattenSeq([i \in DOMAIN sel |->
    IF NotEmpty(t, <<sel[i]>>) THEN << [sel[i] EXCEPT !.color = TRUE] >>
    ELSE ExtendEach(t, DissectRange(t, sel[i]), unit)]))

-----------------------------------------------------------------------------
\* The words of Find All are those that a double click selects: the runs of
\* word characters, whole, and at a caret beside one that one.
WordsAgree(t) ==
  LET word(i) == i \in 0..(Len(t) - 1) /\ At(t, i) \in WordChars
      runs == {w \in (0..Len(t)) \X (0..Len(t)) :
                 w[1] < w[2] /\ (\A i \in w[1]..(w[2] - 1) : word(i)) /\ ~word(w[1] - 1) /\ ~word(w[2])}
  IN /\ AllWords(t) = runs
     /\ \A w \in runs, i \in 0..Len(t) : w[1] <= i /\ i <= w[2] => WordAt(t, Between(i, i)) = Loose(Between(w[1], w[2]))

\* Text whose brackets match: what is left when they are taken away in pairs.
Balanced(t) ==
  LET closes(open, ch) == open # <<>> /\ \E n \in DOMAIN Pairs : Pairs[n] = <<Last(open), ch>>
      Read(open, ch) == IF ch \notin Openers \union Closers THEN open
                        ELSE IF closes(open, ch) THEN Front(open)
                        ELSE Append(open, ch)
  IN FoldLeft(Read, <<>>, t) = <<>>

\* Where brackets match, those that a caret is enclosed by are the innermost
\* around it.
PairsInnermost(t) ==
  LET matched == {p \in (0..(Len(t) - 1)) \X (0..(Len(t) - 1)) :
                    /\ p[1] < p[2] /\ Balanced(Substr(t, p[1] + 1, p[2]))
                    /\ \E n \in DOMAIN Pairs : Pairs[n] = <<At(t, p[1]), At(t, p[2])>>}
      around(i) == {p \in matched : p[1] < i /\ i <= p[2]}
  IN Balanced(t) => \A i \in 0..Len(t) :
       IF around(i) = {} THEN EnclosedRange(t, i) = NoPair
       ELSE EnclosedRange(t, i) \in around(i) /\ \A p \in around(i) : p[1] <= EnclosedRange(t, i)[1]
=============================================================================
