-------------------------------- MODULE Editor --------------------------------
(***************************************************************************)
(* The editor: what its commands do to the text and to the selection, with *)
(* any number of carets.                                                   *)
(*                                                                         *)
(* There are no snippets (Snippets) and no pairs of typed brackets         *)
(* (BufferMarks); what the indent patterns of a grammar would make of a    *)
(* line is left out, as if the setting indentOnPaste were "disable".       *)
(***************************************************************************)
EXTENDS Movements

CONSTANTS MaxSize, MaxCommands, MaxRanges, Commands, Alphabet, Strings, Nothing

VARIABLES
  text, sel,
  clip,        \* the clipboard's entry, or Nothing
  yank,        \* the content of the yank clipboard's entry, or Nothing
  extending,   \* _extend_yank_clipboard
  killed,      \* the text before the deletions that yank holds, or Nothing (not in the code)
  commands     \* the number of commands so far (not in the code)

vars == <<text, sel, clip, yank, extending, killed, commands>>

Trim == INSTANCE TextTrim

JoinLines(strs) == FoldLeft(LAMBDA s, i : s \o (IF i = 1 THEN <<>> ELSE <<NL>>) \o strs[i], <<>>, [i \in DOMAIN strs |-> i])
LinesOf(t) == [n \in 1..Lines(t) |-> Substr(t, Begin(t, n - 1), Eol(t, n - 1))]
Spaces(n) == [i \in 1..n |-> Space]
White(s) == \A i \in DOMAIN s : s[i] \in {Space, Tab, NL}

-----------------------------------------------------------------------------
\* replace_helper: replacements are made from left to right, each where the
\* ones before it have moved its range.  `edits' is what the buffer is told.
Replacement(r, s) == [range |-> r, str |-> s]
InOrder(reps) ==
  LET before(p, q) == Before(p[2].range, q[2].range)
      sorted == SortSeq([i \in DOMAIN reps |-> <<i, reps[i]>>], LAMBDA p, q : before(p, q) \/ (~before(q, p) /\ p[1] < q[1]))
  IN [k \in DOMAIN sorted |-> sorted[k][2]]

EditTold(t, from, to, str) ==
  LET old == Substr(t, from, to)
      left == Trim!CommonPrefix(old, str)
      right == Trim!CommonSuffix(old, str, left)
  IN [from |-> from + left, to |-> to - right, len |-> Len(str) - left - right]

Shifted(r, n) == [r EXCEPT !.first.index = @ + n, !.last.index = @ + n]

\* What replaces the range from `from' to `to' is the string after a pad.
Put(acc, r, from, to, pad, str) ==
  LET caret == from + Len(pad) + Len(str) IN
  [text |-> Trim!Splice(acc.text, from, to, pad \o str),
   ranges |-> Append(acc.ranges, [Loose(Between(caret - Len(str), caret)) EXCEPT !.freehanded = r.freehanded, !.color = r.color]),
   edits |-> Append(acc.edits, EditTold(acc.text, from, to, pad \o str))]
Pad(r) == IF r.freehanded THEN Spaces(MinOf(r).carry) ELSE <<>>
Upwards(r) == [r EXCEPT !.first = MinOf(r), !.last = MaxOf(r)]
ReplacesNothing(p) == p.range.first.index = p.range.last.index /\ p.str = <<>>

\* Mutant: the spaces that fill the line belong to the range, too.
StepPadded(acc, p, adjustment) ==
  IF ReplacesNothing(p) THEN [acc EXCEPT !.ranges = Append(@, Shifted(Upwards(p.range), adjustment))]
  ELSE Put(acc, p.range, MinOf(p.range).index + adjustment, MaxOf(p.range).index + adjustment, <<>>, Pad(p.range) \o p.str)

\* Nothing for nothing leaves the range; else it is what was inserted, without
\* the spaces that fill the line up to it.
Step(acc, p, adjustment) ==
  IF ReplacesNothing(p) THEN [acc EXCEPT !.ranges = Append(@, Shifted(Upwards(p.range), adjustment))]
  ELSE Put(acc, p.range, MinOf(p.range).index + adjustment, MaxOf(p.range).index + adjustment, Pad(p.range), p.str)

ReplaceHelper(t, reps) ==
  FoldLeft(LAMBDA acc, p : Step(acc, p, Len(acc.text) - Len(t)), [text |-> t, ranges |-> <<>>, edits |-> <<>>], InOrder(reps))

ToEnds(res) == [text |-> res.text, sel |-> MoveToEnds(res.text, res.ranges)]
Selecting(res) == [text |-> res.text, sel |-> res.ranges]

EachOf(rs, strs) == [i \in DOMAIN rs |-> Replacement(rs[i], strs[((i - 1) % Len(strs)) + 1])]
Each(t, s, strs) == EachOf(Dissect(t, s), strs)
\* transform::shift by a tab.
ShiftedLines(src, right) ==
  LET lines == LinesOf(src)
      cut(s) == IF s # <<>> /\ Head(s) = Tab THEN Tail(s)
                ELSE LET n == LargestOr({n \in 0..LesserOf(Len(s), TabSize) : \A i \in 1..n : s[i] = Space}, 0)
                         tab == n < TabSize /\ n < Len(s) /\ s[n + 1] = Tab
                     IN SubSeq(s, n + (IF tab THEN 2 ELSE 1), Len(s))
  IN JoinLines([i \in DOMAIN lines |-> IF ~right THEN cut(lines[i]) ELSE IF White(lines[i]) THEN lines[i] ELSE <<Tab>> \o lines[i]])

\* op is transform::null, or a shift.
Transformed(op, src) == IF op = "null" THEN <<>> ELSE ShiftedLines(src, op = "right")
MapRanges(t, rs, op) == [i \in DOMAIN rs |-> Replacement(rs[i], Transformed(op, Selected(t, rs[i])))]
OrCarets(res) ==
  [text |-> res.text, edits |-> res.edits,
   sel |-> [i \in DOMAIN res.ranges |-> IF res.ranges[i].color THEN res.ranges[i] ELSE Caret(MaxOf(res.ranges[i]))]]
Apply(t, s, op) == OrCarets(ReplaceHelper(t, MapRanges(t, Dissect(t, s), op)))
Delete(t, s) == Apply(t, s, "null")
Insert(t, s, str) == ReplaceHelper(t, Each(t, s, <<str>>))

-----------------------------------------------------------------------------
\* preserve_selection_helper_t: ranges go with what they select while text is
\* replaced; a caret in replaced text keeps its distance from the end.
MovedMark(kind, i, e) ==
  IF i \in e.from..e.to
  THEN IF kind = "unpaired" \/ i \notin {e.from, e.to}
       THEN e.from + e.len - LesserOf(e.to - i, e.len)
       ELSE IF kind = "end" THEN e.from + e.len ELSE e.from
  ELSE IF e.from < i THEN i + e.len - (e.to - e.from) ELSE i

Preserved(s, edits) ==
  LET mark(kind, a) == [a EXCEPT !.index = FoldLeft(LAMBDA i, e : MovedMark(kind, i, e), @, edits)]
      reversed(r) == Less(r.last, r.first)
      kept(r) == IF Empty(r) THEN Span(mark("unpaired", r.first), mark("unpaired", r.first))
                 ELSE LET a == mark("begin", MinOf(r))
                          b == mark("end", MaxOf(r))
                      IN [Span(IF reversed(r) THEN b ELSE a, IF reversed(r) THEN a ELSE b) EXCEPT !.columnar = r.columnar]
  IN [i \in DOMAIN s |-> kept(s[i])]

-----------------------------------------------------------------------------
\* Clipboards.  indent: what of the first line was not copied, if it is blank;
\* complete: whether the selection ends with its last line.
CopyOf(t, s) ==
  LET r == Last(s)
      from == MinOf(r).index
      to == MaxOf(r).index
      leading == Substr(t, Begin(t, LineOf(t, from)), from)
      crosses == Len(s) = 1 /\ LineOf(t, from) # LineOf(t, to)
      d == Dissect(t, s)
  IN [contents |-> [i \in DOMAIN d |-> Selected(t, d[i])],
      indent |-> IF crosses /\ White(leading) THEN leading ELSE <<>>,
      complete |-> crosses /\ to # Begin(t, LineOf(t, to)) /\ to = Eol(t, LineOf(t, to)),
      columnar |-> Len(s) = 1 /\ r.columnar]

\* A rectangle is pasted below the caret, in its column, and beyond the text.
PastedRow(t, m, at, col, str) ==
  IF m + 1 < Lines(t) THEN Replacement(Caret(at), str)
  ELSE IF m < Lines(t) THEN Replacement(Caret(Ix(at.index)), Spaces(at.carry) \o str)
  ELSE Replacement(Caret(Ix(Len(t))), <<NL>> \o Spaces(col) \o str)
PastedAt(t, n, col, rows) ==
  ToEnds(ReplaceHelper(t, [i \in DOMAIN rows |-> PastedRow(t, n + i - 1, AtColumn(t, n + i - 1, col), col, rows[i])]))
FirstOnly(res) == [res EXCEPT !.sel = << @[1] >>]
PastedRows(t, caret, rows) == FirstOnly(PastedAt(t, LineOf(t, caret.index), CountColumns(t, caret), rows))

PastedFragments(t, r, strings) ==
  ToEnds(ReplaceHelper(t, [i \in DOMAIN strings |-> Replacement(IF i = 1 THEN r ELSE Caret(MaxOf(r)), strings[i])]))

\* Lines that are pasted where a line begins bring their own indent.
PastedLines(t, r, entry, str) ==
  LET to == MaxOf(r).index
      bol == Begin(t, LineOf(t, MinOf(r).index))
      rest == Substr(t, to, Eol(t, LineOf(t, to)))
  IN ToEnds(ReplaceHelper(t, Each(t, <<Span(Ix(bol), MaxOf(r))>>,
       <<entry.indent \o str \o (IF entry.complete /\ ~White(rest) THEN <<NL>> ELSE <<>>)>>)))

Fragments(strings, str) ==
  IF Len(strings) > 1 THEN strings
  ELSE IF Lines(str) > 1 /\ Last(str) = NL THEN Front(LinesOf(str)) ELSE LinesOf(str)

PasteString(t, s, entry, strings, str) ==
  LET fragments == Len(strings)
      r == Last(s)
      lines == NL \in ToSet(str)
      leftOfCaret == Substr(t, Begin(t, LineOf(t, MinOf(r).index)), MinOf(r).index)
  IN IF (Len(s) # 1 \/ r.columnar) /\ (fragments > 1 \/ lines) THEN ToEnds(ReplaceHelper(t, Each(t, s, Fragments(strings, str))))
     ELSE IF fragments > 1 /\ entry.columnar THEN PastedRows(t, MinOf(Last(Dissect(t, s))), strings)
     ELSE IF fragments > 1 THEN PastedFragments(t, Last(Dissect(t, s)), strings)
     ELSE IF Len(s) = 1 /\ lines /\ White(leftOfCaret) THEN PastedLines(t, r, entry, str)
     ELSE ToEnds(Insert(t, s, str))
Paste(t, s, entry) == PasteString(t, s, entry, entry.contents, JoinLines(entry.contents))

-----------------------------------------------------------------------------
\* transform::transpose: words around what is between them, lines, characters.
TransposedString(src) ==
  LET n == Len(src)
      word(i, j) == \A k \in i..j : src[k] \in WordChars
      other(i, j) == \A k \in i..j : src[k] \notin WordChars
      cuts == {c \in (1..n) \X (1..n) : c[1] < c[2] /\ c[2] < n /\ word(1, c[1]) /\ other(c[1] + 1, c[2]) /\ word(c[2] + 1, n)}
      cut == CHOOSE c \in cuts : TRUE
      nl == n # 0 /\ src[n] = NL
      body == IF nl THEN Front(src) ELSE src
      lines == LinesOf(body)
  IN IF cuts # {} THEN SubSeq(src, cut[2] + 1, n) \o SubSeq(src, cut[1] + 1, cut[2]) \o SubSeq(src, 1, cut[1])
     ELSE IF Lines(body) = 1 THEN Reverse(body) \o (IF nl THEN <<NL>> ELSE <<>>)
     ELSE JoinLines(Reverse(lines)) \o (IF nl THEN <<NL>> ELSE <<>>)

\* At a caret the characters around it, or the lines, at either end of one.
TransposeAround(t, i) ==
  LET n == LineOf(t, i)
      end(m) == IF m + 1 >= Lines(t) THEN Len(t) ELSE Begin(t, m + 1)
  IN IF i \in {0, Len(t)} THEN <<i, i>>
     ELSE IF i = Begin(t, n) THEN <<Begin(t, n - 1), end(n)>>
     ELSE IF i = Eol(t, n) THEN <<Begin(t, n), end(n + 1)>>
     ELSE <<i - 1, i + 1>>

TransposeRange(t, range) == << Replacement(Between(range[1], range[2]), TransposedString(Substr(t, range[1], range[2]))) >>
TransposeRows(t, rows) == [i \in DOMAIN rows |-> Replacement(rows[i], Selected(t, rows[Len(rows) + 1 - i]))]
TransposeSelection(t, r) ==
  IF MinOf(r).index = MaxOf(r).index THEN TransposeRange(t, TransposeAround(t, MinOf(r).index))
  ELSE IF r.columnar THEN TransposeRows(t, DissectRange(t, r))
  ELSE TransposeRange(t, <<MinOf(r).index, MaxOf(r).index>>)

-----------------------------------------------------------------------------
\* move_selection: what is selected is taken out, from left to right, and put
\* back a line or a column away.  Of two clips at one index the first stays
\* (clips is a map).
Clipped(acc, str, res) ==
  LET at == MaxOf(res.ranges[1]).index IN
  [text |-> res.text, clips |-> IF \E k \in DOMAIN acc.clips : acc.clips[k][1] = at THEN acc.clips ELSE Append(acc.clips, <<at, str>>)]
TakeOut(acc, r) == Clipped(acc, Selected(acc.text, r), ReplaceHelper(acc.text, <<Replacement(r, <<>>)>>))
Removals(rs) == [i \in DOMAIN rs |-> Replacement(rs[i], <<>>)]

TakenOut(t, s) ==
  FoldLeft(LAMBDA acc, p : TakeOut(acc, Shifted(p.range, Len(acc.text) - Len(t))),
           [text |-> t, clips |-> <<>>], InOrder(Removals(Dissect(t, s))))

PutBack(t, clips, dx, dy) ==
  LET to(i) == AtColumn(t, LesserOf(GreaterOf(LineOf(t, i) + dy, 0), Lines(t) - 1), GreaterOf(CountColumns(t, Ix(i)) + dx, 0))
  IN Selecting(ReplaceHelper(t, [k \in DOMAIN clips |-> Replacement(Caret(to(clips[k][1])), clips[k][2])]))
PutBackAll(out, dx, dy) == PutBack(out.text, SortSeq(out.clips, LAMBDA c, d : c[1] < d[1]), dx, dy)
MoveSelection(t, s, dx, dy) == PutBackAll(TakenOut(t, s), dx, dy)

\* What was dropped is selected.
Dropped(res) ==
  LET full == SelectSeq(res.ranges, LAMBDA r : ~Empty(r)) IN [text |-> res.text, sel |-> IF full = <<>> THEN res.ranges ELSE full]
DropAt(t, rs, i) ==
  Dropped(ReplaceHelper(t, Append(Removals(rs), Replacement(Caret(Ix(i)), JoinLines([k \in DOMAIN rs |-> Selected(t, rs[k])])))))
MoveSelectionTo(t, s, i) == DropAt(t, Dissect(t, s), i)

-----------------------------------------------------------------------------
\* find_all; a search in the selection takes the matches within a range.
Matches(t, needle) ==
  LET at(i) == i + Len(needle) <= Len(t) /\ Substr(t, i, i + Len(needle)) = needle
      Scan(acc, i) == IF i >= acc.next /\ at(i) THEN [next |-> i + Len(needle), found |-> Append(acc.found, Loose(Between(i, i + Len(needle))))] ELSE acc
  IN FoldLeft(Scan, [next |-> 0, found |-> <<>>], [i \in DOMAIN t |-> i - 1]).found

Within(t, m, s) == LET d == Dissect(t, s) IN \E i \in DOMAIN d : ~Less(MinOf(m), MinOf(d[i])) /\ ~Less(MaxOf(d[i]), MaxOf(m))
MatchesIn(t, needle, s) == SelectSeq(Matches(t, needle), LAMBDA m : Within(t, m, s))

SameRange(r, m) == Normalized(r) = [Normalized(m) EXCEPT !.unanchored = r.unanchored, !.color = r.color]

\* The match that follows a range, or 0: one behind it, the first one if the
\* search wraps around, else one that begins in it.  Mutant: the search starts
\* where the range begins.
NextMatchInside(ms, r, wrap) ==
  LET inside == {k \in DOMAIN ms : ~Less(MinOf(ms[k]), MinOf(r))} IN
  IF inside # {} THEN SmallestOr(inside, 0) ELSE IF wrap THEN 1 ELSE 0

NextMatch(ms, r, wrap) ==
  LET behind == {k \in DOMAIN ms : ~Less(MinOf(ms[k]), MaxOf(r))}
      inside == {k \in DOMAIN ms : ~Less(MinOf(ms[k]), MinOf(r))}
      k == IF behind # {} THEN SmallestOr(behind, 0) ELSE IF wrap THEN 1 ELSE SmallestOr(inside, 0)
  IN IF k # 0 /\ SameRange(r, ms[k]) THEN 0 ELSE k

PreviousMatch(ms, r, wrap) ==
  LET before == {k \in DOMAIN ms : ~Less(MinOf(r), MaxOf(ms[k]))}
      inside == {k \in DOMAIN ms : ~Less(MaxOf(r), MaxOf(ms[k]))}
      k == IF before # {} THEN LargestOr(before, 0) ELSE IF wrap THEN Len(ms) ELSE LargestOr(inside, 0)
  IN IF k # 0 /\ SameRange(r, ms[k]) THEN 0 ELSE k

FindIn(ms, s, rs, backwards, wrap) ==
  LET next(r) == IF backwards THEN PreviousMatch(ms, r, wrap) ELSE NextMatch(ms, r, wrap)
      order == LET found == {next(rs[i]) : i \in DOMAIN rs} IN SelectSeq([k \in DOMAIN ms |-> k], LAMBDA k : k \in found)
  IN IF ms = <<>> THEN s ELSE [i \in DOMAIN order |-> ms[order[i]]]
OrElse(found, s) == IF found = <<>> THEN s ELSE found
Find(t, s, needle, backwards, wrap) == OrElse(FindIn(Matches(t, needle), s, Dissect(t, s), backwards, wrap), s)

\* Find Next and Modify Selection adds the match behind all ranges.
FindMore(t, s, needle, backwards) ==
  LET ms == Matches(t, needle)
      k == IF backwards
           THEN LargestOr({k \in DOMAIN ms : \A i \in DOMAIN s : Less(MinOf(ms[k]), MinOf(s[i]))}, 0)
           ELSE SmallestOr({k \in DOMAIN ms : \A i \in DOMAIN s : Less(MaxOf(s[i]), MinOf(ms[k]))
                                                  \/ (MaxOf(s[i]) = MinOf(ms[k]))}, 0)
  IN SortSeq(IF k = 0 THEN s ELSE Append(s, ms[k]), Before)

\* Find All in Selection of what is selected already looks everywhere.
Other(s, selected, all) ==
  IF Len(selected) = Len(s) /\ \A i \in DOMAIN s : \E k \in DOMAIN selected : SameRange(s[i], selected[k]) THEN all ELSE selected
FindAll(t, s, needle) ==
  OrElse(IF NotEmpty(t, s) THEN Other(s, MatchesIn(t, needle, s), Matches(t, needle)) ELSE Matches(t, needle), s)

KeepSelection(s, res) == [text |-> res.text, sel |-> Preserved(s, res.edits)]
ReplaceEvery(t, s, ms, str) == KeepSelection(s, ReplaceHelper(t, [i \in DOMAIN ms |-> Replacement(ms[i], str)]))

ShiftSelection(t, s, right) == KeepSelection(s, Apply(t, ExtendAll(t, s, "LineExclLF"), IF right THEN "right" ELSE "left"))

-----------------------------------------------------------------------------
\* What the mouse selects: a range, a rectangle, a place beyond the end of a
\* line, or two ranges.
Ranges(t) == {Between(i, j) : i, j \in 0..Len(t)}
Selections1(t) == {<<r>> : r \in Ranges(t)}
Selections2(t) ==
  Selections1(t)
    \union {<< [r EXCEPT !.columnar = TRUE] >> : r \in {r \in Ranges(t) : ~Empty(r)}}
    \union {<<Caret([index |-> Eol(t, n), carry |-> 1])>> : n \in 0..(Lines(t) - 1)}
    \union {Sanitize(t, <<r, q>>) : r, q \in Ranges(t)}
UserSelections(t) == IF MaxRanges = 1 THEN Selections1(t) ELSE Selections2(t)

Init ==
  /\ text \in UNION {[1..n -> Alphabet] : n \in 0..MaxSize}
  /\ sel = << Between(0, 0) >>
  /\ clip = Nothing
  /\ yank = Nothing
  /\ extending = FALSE
  /\ killed = Nothing
  /\ commands = 0

Counted == commands < MaxCommands /\ commands' = commands + 1

\* A command: perform ends the extending of the yank clipboard.
Performed(cmd) == cmd \in Commands /\ Counted /\ extending' = FALSE /\ killed' = Nothing
Becomes(result) == \E res \in {result} : text' = res.text /\ sel' = res.sel
Unyanked == UNCHANGED <<clip, yank>>

\* Clicks, typing and drags are no commands, and do not end it.  (Bound: a
\* click is followed by something.)
Click ==
  /\ Counted /\ commands' < MaxCommands
  /\ sel' \in UserSelections(text)
  /\ killed' = Nothing
  /\ UNCHANGED <<text, clip, yank, extending>>

Type(str) ==
  /\ "type" \in Commands /\ Counted
  /\ Becomes(ToEnds(Insert(text, sel, str)))
  /\ killed' = Nothing
  /\ UNCHANGED <<clip, yank, extending>>

Drag(i) ==
  /\ "drag" \in Commands /\ Counted
  /\ NotEmpty(text, sel)
  /\ LET d == Dissect(text, sel) IN ~\E k \in DOMAIN d : MinOf(d[k]).index < i /\ i < MaxOf(d[k]).index
  /\ Becomes(MoveSelectionTo(text, sel, i))
  /\ killed' = Nothing
  /\ UNCHANGED <<clip, yank, extending>>

MoveCarets(unit) == Performed("move") /\ sel' = MoveAll(text, sel, unit) /\ UNCHANGED text /\ Unyanked
ExtendRanges(unit) == Performed("move") /\ sel' = ExtendAll(text, sel, unit) /\ UNCHANGED text /\ Unyanked
ToggleColumnSelection == Performed("move") /\ sel' = ToggleColumnar(sel) /\ UNCHANGED text /\ Unyanked
Deselect == Performed("move") /\ sel' = DeselectLast(sel) /\ UNCHANGED text /\ Unyanked

DeleteBy(unit) == Performed("delete") /\ Becomes(Delete(text, ExtendIfEmpty(text, sel, unit))) /\ Unyanked

Appending == {"EndOfWord", "EndOfIndentedLine", "EndOfLine"}
Prepending == {"BeginOfWord", "BeginOfIndentedLine", "BeginOfLine"}

\* Mutant: what is deleted to the left is appended, too.
YankedAppended(unit, old, new) == old \o new

Yanked(unit, old, new) == IF unit \in Appending THEN old \o new ELSE new \o old

KillRanges(s, new, unit) ==
  /\ Becomes(Delete(text, s))
  /\ yank' = IF extending /\ yank # Nothing THEN Yanked(unit, yank, new) ELSE new

\* Deletes of words and lines keep what they delete, together if they follow
\* each other.
Kill(unit) ==
  /\ "kill" \in Commands /\ Counted
  /\ \E s \in {ExtendIfEmpty(text, sel, unit)} : KillRanges(s, JoinLines(CopyOf(text, s).contents), unit)
  /\ extending' = TRUE
  /\ killed' = IF extending THEN killed ELSE IF Len(sel) = 1 /\ sel = << Between(sel[1].first.index, sel[1].last.index) >> THEN text ELSE Nothing
  /\ UNCHANGED clip

YankBack == Performed("kill") /\ yank # Nothing /\ Becomes(ToEnds(Insert(text, sel, yank))) /\ Unyanked

Copy == Performed("paste") /\ clip' = CopyOf(text, sel) /\ UNCHANGED <<text, sel, yank>>
Cut == Performed("paste") /\ clip' = CopyOf(text, sel) /\ Becomes(Delete(text, sel)) /\ UNCHANGED yank
PasteClip == Performed("paste") /\ clip # Nothing /\ Becomes(Paste(text, sel, clip)) /\ Unyanked

\* Of several ranges the strings are permuted, which leads to the next
\* permutation of them (here to any).
OrToEnds(selects, res) == IF selects THEN Selecting(res) ELSE ToEnds(res)
Transposed(t, s) ==
  IF Len(s) > 1 /\ NotEmpty(t, s)
  THEN {Selecting(ReplaceHelper(t, [i \in DOMAIN s |-> Replacement(s[i], Selected(t, s[p[i]]))])) : p \in Permutations(DOMAIN s)}
  ELSE {OrToEnds(NotEmpty(t, s), ReplaceHelper(t, FlattenSeq([i \in DOMAIN s |-> TransposeSelection(t, s[i])])))}

Transpose == Performed("transpose") /\ (\E res \in Transposed(text, sel) : Becomes(res)) /\ Unyanked

Directions == {<<-1, 0>>, <<1, 0>>, <<0, -1>>, <<0, 1>>}
MoveSelected(dx, dy) ==
  /\ Performed("transpose")
  /\ Becomes(MoveSelection(text, IF dy = 0 THEN sel ELSE ExtendIfEmpty(text, sel, "Line"), dx, dy))
  /\ Unyanked

Shift(right) == Performed("shift") /\ Becomes(ShiftSelection(text, sel, right)) /\ Unyanked

FindNext(needle, backwards) == Performed("find") /\ sel' = Find(text, sel, needle, backwards, TRUE) /\ UNCHANGED text /\ Unyanked
FindNextMore(needle, backwards) == Performed("find") /\ sel' = FindMore(text, sel, needle, backwards) /\ UNCHANGED text /\ Unyanked
FindEvery(needle) == Performed("find") /\ sel' = FindAll(text, sel, needle) /\ UNCHANGED text /\ Unyanked
ReplaceFound(needle, str) == Performed("find") /\ Becomes(ReplaceEvery(text, sel, Matches(text, needle), str)) /\ Unyanked

Next ==
  \/ Click
  \/ \E str \in Strings : Type(str)
  \/ \E i \in 0..Len(text) : Drag(i)
  \/ \E unit \in Units : MoveCarets(unit)
  \/ \E unit \in {"Left", "Right"} : DeleteBy(unit)
  \/ \E unit \in ExtendUnits : ExtendRanges(unit)
  \/ ToggleColumnSelection \/ Deselect
  \/ \E unit \in Appending \union Prepending : Kill(unit)
  \/ YankBack \/ Copy \/ Cut \/ PasteClip
  \/ Transpose
  \/ \E d \in Directions : MoveSelected(d[1], d[2])
  \/ \E right \in BOOLEAN : Shift(right)
  \/ \E needle \in Strings, backwards \in BOOLEAN : FindNext(needle, backwards) \/ FindNextMore(needle, backwards)
  \/ \E needle \in Strings : FindEvery(needle) \/ \E str \in Strings \union {<<>>} : ReplaceFound(needle, str)

Spec == Init /\ [][Next]_vars

-----------------------------------------------------------------------------
\* The selection has a range, and its ranges are in the text, whatever the
\* commands replaced (the adjustment in replace_helper).
SelectionInText ==
  /\ sel # <<>>
  /\ \A i \in DOMAIN sel : {sel[i].first.index, sel[i].last.index} \subseteq 0..Len(text)

Apart(d) == \A i, j \in DOMAIN d : i < j => MaxOf(d[i]).index <= MinOf(d[j]).index \/ MaxOf(d[j]).index <= MinOf(d[i]).index

\* Replacing one range after the other is replacing all at once: what is
\* between them stays, and each range selects what was inserted for it.
ReplacesTogether ==
  LET d == Dissect(text, sel)
      Together(str) ==
        LET reps == InOrder(Each(text, sel, <<str>>))
            res == ReplaceHelper(text, reps)
            r(i) == reps[i].range
            pad(i) == IF r(i).freehanded /\ (str # <<>> \/ ~MinOf(r(i)).index = MaxOf(r(i)).index) THEN Spaces(MinOf(r(i)).carry) ELSE <<>>
            upto(i) == IF i = 0 THEN 0 ELSE MaxOf(r(i)).index
            pieces == [i \in DOMAIN reps |-> Substr(text, upto(i - 1), MinOf(r(i)).index) \o pad(i) \o str]
        IN /\ res.text = FlattenSeq(pieces) \o Substr(text, upto(Len(reps)), Len(text))
           /\ \A i \in DOMAIN reps : Selected(res.text, res.ranges[i]) = str
  IN Apart(d) => \A str \in Strings \union {<<>>} : Together(str)

\* While text is replaced the selection goes with what it selects: a
\* character that is not replaced is selected as it was.
SelectionTracks ==
  \A needle, str \in Strings \union {<<>>} : needle # <<>> =>
    LET ms == Matches(text, needle)
        res == ReplaceEvery(text, sel, ms, str)
        replaced(k) == \E m \in DOMAIN ms : ms[m].first.index <= k /\ k < ms[m].last.index
        new(k) == k + Cardinality({m \in DOMAIN ms : ms[m].last.index <= k}) * (Len(str) - Len(needle))
        in(r, k) == MinOf(r).index <= k /\ k < MaxOf(r).index
    IN \A k \in 0..(Len(text) - 1), i \in DOMAIN sel : ~replaced(k) /\ ~sel[i].columnar => in(sel[i], k) = in(res.sel[i], new(k))

\* Deletes that follow each other and are yanked give the text back.
YankRestores ==
  extending /\ killed # Nothing => Insert(text, sel, yank).text = killed

\* To paste over a selection what was copied from it changes nothing.
PasteKeeps ==
  LET d == Dissect(text, sel) IN
  Apart(d) /\ (\A i \in DOMAIN d : d[i].first.carry = 0) => Paste(text, sel, CopyOf(text, sel)).text = text

SameCharacters(t, u) == \A ch \in Alphabet : Len(SelectSeq(t, LAMBDA c : c = ch)) = Len(SelectSeq(u, LAMBDA c : c = ch))

\* Cut and Paste give the text back, when the ranges were selected from left
\* to right and do not touch.
CutRestores ==
  LET d == Dissect(text, sel)
      cut == Delete(text, sel)
  IN (\A i \in DOMAIN d : d[i].first.carry = 0 /\ d[i].last.carry = 0)
     /\ (\A i, j \in DOMAIN d : i < j => MaxOf(d[i]).index < MinOf(d[j]).index)
     => Paste(cut.text, cut.sel, CopyOf(text, sel)).text = text

\* To transpose is to put what is there into another order, unless carets are
\* so close to each other that one character is transposed by two.
TransposeKeeps ==
  Len(sel) = 1 \/ (NotEmpty(text, sel) /\ Apart(sel)) => \A res \in Transposed(text, sel) : SameCharacters(text, res.text)

\* A selection that is moved takes its text along, and none is lost.
MoveKeepsText ==
  LET d == Dissect(text, sel) IN
  (\A i, j \in DOMAIN d : i # j => MaxOf(d[i]).index # MinOf(d[j]).index) /\ Apart(d) =>
    \A to \in Directions :
      LET res == MoveSelection(text, sel, to[1], to[2])
      IN /\ SameCharacters(text, res.text)
         /\ {Selected(res.text, res.sel[i]) : i \in DOMAIN res.sel} = {Selected(text, d[i]) : i \in DOMAIN d}

\* Find Next visits every match, and Find Previous undoes it.
FindTours ==
  \A needle \in Strings :
    LET ms == Matches(text, needle)
        next(s) == Find(text, s, needle, FALSE, TRUE)
        after[n \in 0..(Len(ms) + 1)] == IF n = 0 THEN sel ELSE next(after[n - 1])
    IN Len(sel) = 1 /\ ~sel[1].columnar =>
         /\ \A k \in DOMAIN ms : \E n \in DOMAIN after : SameRange(after[n][1], ms[k])
         /\ \A k \in DOMAIN ms : Find(text, next(<<ms[k]>>), needle, TRUE, TRUE) = <<ms[k]>>

\* What sanitize does to overlapping ranges: none overlap, and what was
\* selected still is.
SanitizeKeeps ==
  commands = 0 => \A r, q \in Ranges(text) :
    LET s == Sanitize(text, <<r, q>>)
        in(rs, k) == \E i \in DOMAIN rs : MinOf(rs[i]).index <= k /\ k < MaxOf(rs[i]).index
    IN Apart(s) /\ \A k \in 0..(Len(text) - 1) : in(s, k) = in(<<r, q>>, k)

\* A caret that goes down and up again is where it was, across tabs and short
\* lines.
CaretReturns ==
  \A i \in DOMAIN sel :
    LET a == sel[i].last IN
    /\ LineOf(text, a.index) + 1 < Lines(text)
    /\ AtColumn(text, LineOf(text, a.index), CountColumns(text, a)) = a
    => Move(text, Move(text, a, "Down"), "Up") = a
=============================================================================
