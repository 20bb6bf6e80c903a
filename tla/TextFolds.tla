------------------------------- MODULE TextFolds -------------------------------
(***************************************************************************)
(* Folded ranges of a text: what can be folded is found by the markers and *)
(* the indent of its lines, and what is folded moves with the text.        *)
(*                                                                         *)
(* One character stands for what the patterns of a language's settings     *)
(* search for in a line.  A tab is as wide as a space.  Lines and offsets  *)
(* are of the text t, f is _folded and lv is _levels.                      *)
(***************************************************************************)
EXTENDS TextOps, Integers, SequencesExt, IndexedMap

CONSTANTS NL, Space,
  StartMark, StopMark, IndentMark, IgnoreMark   \* foldingStartMarker, ...

Begins(t) == FoldLeft(LAMBDA acc, i : IF t[i] = NL THEN Append(acc, i) ELSE acc, <<0>>, [i \in DOMAIN t |-> i])
Lines(t) == Len(Begins(t))
LineOf(t, i) == Cardinality({n \in DOMAIN Begins(t) : Begins(t)[n] <= i})
Bol(t, n) == Begins(t)[n]
Eol(t, n) == IF n = Lines(t) THEN Len(t) ELSE Begins(t)[n + 1] - 1
BolAt(t, i) == Bol(t, LineOf(t, i))

PairLess(p, q) == p[1] < q[1] \/ (p[1] = q[1] /\ p[2] < q[2])
Within(p, q) == q[1] <= p[1] /\ p[2] <= q[2]
Touches(p, bol, eol) == (p[1] <= bol /\ bol <= p[2]) \/ (p[1] <= eol /\ eol <= p[2])

\* set_folded: folds are sorted; what any of them hides is kept in _legacy.
SetFolded(pairs) == SortSeq(pairs, PairLess)
Fold(f, p) == SetFolded(Append(f, p))
Hidden(f, i) == \E k \in DOMAIN f : f[k][1] <= i /\ i < f[k][2]
Legacy(f) ==
  LET edges == {f[k][1] : k \in DOMAIN f} \union {f[k][2] : k \in DOMAIN f} IN
  {p \in edges \X edges : /\ p[1] < p[2]
                          /\ \A i \in p[1]..(p[2] - 1) : Hidden(f, i)
                          /\ ~Hidden(f, p[1] - 1) /\ ~Hidden(f, p[2])}
HasFolded(t, f, n) == \E k \in DOMAIN f : Touches(f[k], Bol(t, n), Eol(t, n))

-----------------------------------------------------------------------------
\* info_for: what the patterns find in a line, if that is not known already.
Indent(line) == LET i == SelectInSeq(line, LAMBDA c : c # Space) IN IF i = 0 THEN Len(line) ELSE i - 1
InfoOf(line) ==
  LET has(c) == c \in ToSet(line) IN
  [start |-> has(StartMark), stop |-> has(StopMark),
   indentStart |-> has(IndentMark) /\ ~has(StartMark) /\ ~has(StopMark),
   ignored |-> has(IgnoreMark), empty |-> ToSet(line) \subseteq {Space}, indent |-> Indent(line)]
Info(t, n) == InfoOf(Substr(t, Bol(t, n), Eol(t, n)))
InfoFor(t, lv, n) == IF Bol(t, n) \in DOMAIN lv THEN lv[Bol(t, n)] ELSE Info(t, n)
Known(t, lv, lines) == [bol \in {Bol(t, n) : n \in lines} |-> InfoFor(t, lv, LineOf(t, bol))] @@ lv

\* foldable_ranges: from marker to marker of one indent, and from a line that
\* starts a block to the last line that is indented more.
Scanned(t, acc, n, info) ==
  LET kept == SelectLastInSeq(acc.indents, LAMBDA o : o.indent < info.indent)
      closes == ~info.empty /\ ~info.ignored
      ended == IF ~closes THEN <<>> ELSE
               SelectSeq([k \in 1..(Len(acc.indents) - kept) |-> <<acc.indents[kept + k].from, Eol(t, n - 1 - acc.blank)>>],
                         LAMBDA p : p[1] < Eol(t, n - 1))
      opened == [from |-> Eol(t, n), indent |-> info.indent]
      match == SelectLastInSeq(acc.regular, LAMBDA o : o.indent = info.indent)
      indents == IF closes THEN SubSeq(acc.indents, 1, kept) ELSE acc.indents
      closed == ~info.start /\ ~info.indentStart /\ info.stop /\ match > 0
  IN [blank |-> IF info.empty /\ ~info.indentStart THEN acc.blank + 1 ELSE 0,
      indents |-> IF ~info.start /\ info.indentStart THEN Append(indents, opened) ELSE indents,
      regular |-> IF info.start THEN Append(acc.regular, opened)
                  ELSE IF closed THEN SubSeq(acc.regular, 1, match - 1) ELSE acc.regular,
      res |-> acc.res \o ended \o IF closed THEN << <<acc.regular[match].from, Bol(t, n) + Indent(Substr(t, Bol(t, n), Len(t)))>> >> ELSE <<>>]

Nested(acc, p) ==
  LET around == SubSeq(acc.stack, 1, SelectLastInSeq(acc.stack, LAMBDA q : q[2] > p[1])) IN
  IF around # <<>> /\ Last(around)[2] < p[2] THEN [acc EXCEPT !.stack = around]
  ELSE [stack |-> Append(around, p), ranges |-> Append(acc.ranges, p), depths |-> Append(acc.depths, Len(around) + 1)]

NestedRanges(pairs) == FoldLeft(Nested, [stack |-> <<>>, ranges |-> <<>>, depths |-> <<>>], SetFolded(pairs))
Ended(t, acc) == acc.res \o [k \in DOMAIN acc.indents |-> <<acc.indents[k].from, Len(t)>>]
FoldableRanges(t, lv) ==
  NestedRanges(Ended(t, FoldLeft(LAMBDA acc, n : Scanned(t, acc, n, InfoFor(t, lv, n)),
                                 [blank |-> 0, indents |-> <<>>, regular |-> <<>>, res |-> <<>>], [n \in 1..Lines(t) |-> n])))

LastOr(ranges, none) == IF ranges = <<>> THEN none ELSE Last(ranges)
RangeAtLine(t, lv, n) ==
  LastOr(SelectSeq(FoldableRanges(t, lv).ranges, LAMBDA p : Touches(p, Bol(t, n), Eol(t, n))), <<0, 0>>)

\* toggle_at_line: the folds that touch the line, or what can be folded there.
UnfoldStep(acc, p, touches, recursive) ==
  IF touches THEN [acc EXCEPT !.range = IF @[1] = @[2] THEN p ELSE @]
  ELSE IF recursive /\ Within(p, acc.range) THEN acc ELSE [acc EXCEPT !.folded = Append(@, p)]
Folding(f, all, range, recursive) ==
  LET inner == IF recursive THEN SelectSeq(all, LAMBDA p : Within(p, range)) ELSE <<range>>
  IN [folded |-> IF range[1] < range[2] THEN FoldLeft(Fold, f, inner) ELSE f, range |-> range]
ToggledAtLine(t, f, lv, n, recursive) ==
  IF HasFolded(t, f, n)
  THEN FoldLeft(LAMBDA acc, p : UnfoldStep(acc, p, Touches(p, Bol(t, n), Eol(t, n)), recursive),
                [folded |-> <<>>, range |-> <<0, 0>>], f)
  ELSE Folding(f, FoldableRanges(t, lv).ranges, RangeAtLine(t, lv, n), recursive)

\* toggle_all_at_level: 0 is all levels.
AtLevel(all, level) ==
  LET there == SelectSeq([k \in DOMAIN all.ranges |-> k], LAMBDA k : level \in {0, all.depths[k]})
  IN [k \in DOMAIN there |-> all.ranges[there[k]]]
Toggled(f, ranges) ==
  LET open == SelectSeq(ranges, LAMBDA p : p \notin ToSet(f))
      closed == SelectSeq(ranges, LAMBDA p : p \in ToSet(f))
  IN IF Len(open) >= Len(closed) THEN [folded |-> FoldLeft(Fold, f, open), ranges |-> open]
     ELSE [folded |-> FoldLeft(RemoveFirst, f, closed), ranges |-> closed]
ToggledAll(t, f, lv, level) == Toggled(f, AtLevel(FoldableRanges(t, lv), level))

\* unfold and remove_enclosing.
Unfolds(p, from, to) == (from = p[1] /\ p[2] <= to) \/ (from <= p[1] /\ p[2] = to)
Encloses(p, from, to) == (p[1] <= from /\ from < p[2]) \/ (p[1] < to /\ to <= p[2])

-----------------------------------------------------------------------------
\* will_replace, with the text before the edit: a fold that is not within the
\* edit, and that the edit does not cut, moves or grows.
Follows(p, from, to, len) ==
  LET delta == len - (to - from) IN
  IF to <= p[1] THEN << <<p[1] + delta, p[2] + delta>> >>
  ELSE IF p[1] <= from /\ to <= p[2] /\ delta # p[1] - p[2] THEN << <<p[1], p[2] + delta>> >>
  ELSE IF p[2] <= from THEN <<p>> ELSE <<>>
FoldsReplaced(f, from, to, len) == SetFolded(FlattenSeq([k \in DOMAIN f |-> Follows(f[k], from, to, len)]))
LevelsReplaced(t, lv, from, to, len) ==
  Without(Replace(lv, from, to, len, TRUE), {BolAt(t, from), BolAt(t, to)})

\* did_parse forgets the lines that were parsed, and one more.
LevelsParsed(t, lv, from, to) ==
  LET last == {k \in DOMAIN lv : k >= BolAt(t, to)} IN
  Without(lv, {k \in DOMAIN lv : BolAt(t, from) <= k /\ (k < BolAt(t, to) \/ k = Min(last))})
=============================================================================
