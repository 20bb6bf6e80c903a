------------------------------- MODULE Snippets -------------------------------
(***************************************************************************)
(* Snippets: fields that the user fills in one after the other, mirrors    *)
(* that repeat what a field has, and snippets in the fields of others.     *)
(*                                                                         *)
(* A position is an offset and a rank: fields that touch, or are within    *)
(* each other, have ends at one offset, and the rank tells which of them   *)
(* is the outer one.  One caret; no indent, tabs, choices or variables.    *)
(***************************************************************************)
EXTENDS TextOps, SequencesExt

CONSTANTS Templates, Strings, Mark, Tab, MaxSize, MaxEdits

VARIABLES
  text, sel,     \* the buffer, and the selection: from, to
  anchor,        \* where the outermost snippet begins
  stack,         \* the snippets, the innermost last, each with its caret
  typed,         \* what was typed last and where (not in the code)
  edits          \* the number of commands so far (not in the code)

vars == <<text, sel, anchor, stack, typed, edits>>

Pos(offset, rank) == [offset |-> offset, rank |-> rank]
Rng(from, to) == [from |-> from, to |-> to]
PosLess(p, q) == p.offset < q.offset \/ (p.offset = q.offset /\ p.rank < q.rank)
Holds(r, p) == PosLess(r.from, p) /\ PosLess(p, r.to)
Encloses(r, q) == PosLess(r.from, q.from) /\ PosLess(q.to, r.to)
RngLess(r, q) == PosLess(r.from, q.from) \/ (r.from = q.from /\ PosLess(r.to, q.to))
Moved(r, n) == [r EXCEPT !.from.offset = @ + n, !.to.offset = @ + n]
TextOf(t, r) == Substr(t, r.from.offset, r.to.offset)
Smallest(S) == CHOOSE n \in S : \A m \in S : n <= m
Largest(S) == CHOOSE n \in S : \A m \in S : n >= m

-----------------------------------------------------------------------------
\* Parsing.  A template is a sequence of <<"text", s>>, <<"open", n>>,
\* <<"close", n>> and <<"transform", n, op>>; the second placeholder of a
\* number is a mirror, and so is one without content if another has some.
Unread == [res |-> <<>>, rank |-> 0, fields |-> <<>>, mirrors |-> <<>>, ambiguous |-> <<>>, open |-> <<>>, skip |-> 0]

Placed(acc, n, r, isEmpty) ==
  IF n \in DOMAIN acc.fields THEN [acc EXCEPT !.mirrors = Append(@, [index |-> n, op |-> "same", range |-> r])]
  ELSE IF isEmpty THEN [acc EXCEPT !.ambiguous = Append(@, [index |-> n, op |-> "same", range |-> r])]
  ELSE [acc EXCEPT !.fields = @ @@ (n :> r)]

Opened(acc, n, i) ==
  [acc EXCEPT !.rank = @ + 1, !.open = Append(@, [at |-> i, from |-> Pos(Len(acc.res), acc.rank + 1)]),
              !.skip = IF n \in DOMAIN acc.fields THEN 1 ELSE 0]
Closed(acc, n, i) ==
  Placed([acc EXCEPT !.rank = @ + 2, !.open = Front(@), !.skip = 0], n,
         Rng(Last(acc.open).from, Pos(Len(acc.res), acc.rank + 2)), Last(acc.open).at + 1 = i)

Visit(acc, node, i) ==
  IF acc.skip > 0 THEN IF node[1] = "open" THEN [acc EXCEPT !.skip = @ + 1]
                       ELSE IF node[1] = "close" /\ acc.skip > 1 THEN [acc EXCEPT !.skip = @ - 1]
                       ELSE IF node[1] = "close" THEN Closed(acc, node[2], i)
                       ELSE acc
  ELSE CASE node[1] = "text" -> [acc EXCEPT !.res = @ \o node[2]]
         [] node[1] = "open" -> Opened(acc, node[2], i)
         [] node[1] = "close" -> Closed(acc, node[2], i)
         [] node[1] = "transform" ->
              [acc EXCEPT !.rank = @ + 3,
                          !.mirrors = Append(@, [index |-> node[2], op |-> node[3],
                             range |-> Rng(Pos(Len(acc.res), acc.rank + 1), Pos(Len(acc.res), acc.rank + 3))])]

Resolve(acc, m) ==
  IF m.index \in DOMAIN acc.fields THEN [acc EXCEPT !.mirrors = Append(@, m)]
  ELSE [acc EXCEPT !.fields = @ @@ (m.index :> m.range)]

-----------------------------------------------------------------------------
\* A field depends on the fields and mirrors that it contains.
Depends(s) ==
  [n \in DOMAIN s.fields |->
     {m \in DOMAIN s.fields : Encloses(s.fields[n], s.fields[m])}
       \union {s.mirrors[i].index : i \in {i \in DOMAIN s.mirrors : Encloses(s.fields[n], s.mirrors[i].range)}}]

Touched(deps, n) ==
  FoldLeft(LAMBDA S, i : S \union {m \in DOMAIN deps : deps[m] \intersect S # {}}, {n}, [i \in 1..Cardinality(DOMAIN deps) |-> i])

Ascending(S) == SetToSortSeq(S, <)
Visited(acc, n) ==
  LET left == [m \in DOMAIN acc.left |-> acc.left[m] \ {n}] IN
  [order |-> Append(acc.order, n), left |-> left,
   active |-> Front(acc.active) \o Ascending({m \in DOMAIN left : n \in acc.left[m] /\ left[m] = {}})]
TopologicalOrder(deps) ==
  FoldLeft(LAMBDA acc, i : IF acc.active = <<>> THEN acc ELSE Visited(acc, Last(acc.active)),
           [order |-> <<>>, left |-> deps, active |-> Ascending({n \in DOMAIN deps : deps[n] = {}})],
           [i \in 1..Cardinality(DOMAIN deps) |-> i]).order

MovedPos(p, r, len) ==
  IF Holds(r, p) THEN [p EXCEPT !.offset = r.from.offset]
  ELSE IF PosLess(r.from, p) THEN [p EXCEPT !.offset = @ + len - (r.to.offset - r.from.offset)] ELSE p

MovedRng(q, r, len) == Rng(MovedPos(q.from, r, len), MovedPos(q.to, r, len))
ReplaceIn(s, r, str) ==
  [s EXCEPT !.text = Splice(@, r.from.offset, r.to.offset, str),
            !.fields = [n \in DOMAIN @ |-> MovedRng(@[n], r, Len(str))],
            !.mirrors = [i \in DOMAIN @ |-> [@[i] EXCEPT !.range = MovedRng(@, r, Len(str))]]]

\* The transformation marks a field that is not empty.
Transform(op, src) == IF op = "same" THEN src ELSE IF src = <<>> THEN <<>> ELSE <<Mark>>

MirrorsOf(s, n) == SelectSeq([i \in DOMAIN s.mirrors |-> i], LAMBDA i : s.mirrors[i].index = n)
UpdateNode(s, n, src) ==
  FoldLeft(LAMBDA t, i : ReplaceIn(t, t.mirrors[i].range, Transform(t.mirrors[i].op, src)), s, MirrorsOf(s, n))
UpdateMirrors(s, nodes) ==
  FoldLeft(LAMBDA t, n : UpdateNode(t, n, TextOf(t.text, t.fields[n])), s,
           SelectSeq(TopologicalOrder(Depends(s)), LAMBDA n : n \in nodes))

\* A mirror without a field is one.  $0 is at the end, unless it is given.
MirrorToField(s, n) ==
  LET i == Head(MirrorsOf(s, n)) IN
  [s EXCEPT !.fields = @ @@ (n :> s.mirrors[i].range), !.mirrors = RemoveAt(@, i)]
MirrorsToFields(s) ==
  FoldLeft(MirrorToField, s, Ascending({s.mirrors[i].index : i \in DOMAIN s.mirrors} \ DOMAIN s.fields))
WithEnd(s) ==
  IF 0 \in DOMAIN s.fields THEN s
  ELSE [s EXCEPT !.fields = @ @@ (0 :> Rng(Pos(Len(s.text), 998), Pos(Len(s.text), 1000)))]
First(s) == IF DOMAIN s.fields = {0} THEN 0 ELSE Smallest(DOMAIN s.fields \ {0})
Setup(s) == LET t == WithEnd(MirrorsToFields(s)) IN [UpdateMirrors(t, DOMAIN t.fields) EXCEPT !.current = First(t)]
Parse(template) ==
  LET read == FoldLeft(LAMBDA acc, i : Visit(acc, template[i], i), Unread, [i \in DOMAIN template |-> i])
      v == FoldLeft(Resolve, read, read.ambiguous)
  IN Setup([text |-> v.res, fields |-> v.fields, mirrors |-> v.mirrors, current |-> 0])

-----------------------------------------------------------------------------
\* snippet_t::replace: what is in the current field is replaced, the mirrors
\* follow, and the fields that were in it are no more.
Ranked(s, r) ==
  LET rank == s.fields[s.current].from.rank + 1 IN Rng(Pos(r.from.offset, rank), Pos(r.to.offset, rank))
Active(s) == [s EXCEPT !.mirrors = SelectSeq(@, LAMBDA m : ~Encloses(s.fields[s.current], m.range))]
Pruned(s) ==
  LET gone == {n \in DOMAIN s.fields : Encloses(s.fields[s.current], s.fields[n])} IN
  [s EXCEPT !.fields = [n \in DOMAIN @ \ gone |-> @[n]], !.mirrors = SelectSeq(@, LAMBDA m : m.index \notin gone)]

Outcome(before, after, order) ==
  LET dirty == FlattenSeq([k \in DOMAIN order |-> MirrorsOf(before, order[k])])
  IN [snip |-> Pruned(after),
      updated |-> SortSeq([k \in DOMAIN dirty |-> [range |-> before.mirrors[dirty[k]].range,
                                                   str |-> TextOf(after.text, after.mirrors[dirty[k]].range)]],
                          LAMBDA a, b : RngLess(a.range, b.range))]
Cascade(s, deps, dirty, r, str) ==
  Outcome(s, UpdateMirrors(ReplaceIn(s, r, str), dirty), SelectSeq(TopologicalOrder(deps), LAMBDA n : n \in dirty))
ReplaceActive(s, r, str) == Cascade(s, Depends(s), Touched(Depends(s), s.current), r, str)
ReplaceField(s, r, str) == ReplaceActive(Active(s), r, str)

\* Where the snippet of record k is, and the current field of that record.
Offset(st, k) ==
  FoldLeft(LAMBDA n, j : n + st[j].snip.fields[st[j].snip.current].from.offset + st[j].caret, 0, [j \in 1..(k - 1) |-> j])
FieldOf(st, k) == Moved(st[k].snip.fields[st[k].snip.current], Offset(st, k))
Current(st) == IF st = <<>> THEN Rng(Pos(0, 0), Pos(0, 0)) ELSE FieldOf(st, Len(st))

\* drop_for_pos: a snippet is done at $0, or when an edit is elsewhere.
DropForPos(st, i) ==
  LET stays == {k \in DOMAIN st : st[k].snip.current # 0 /\ Holds(FieldOf(st, k), Pos(i, FieldOf(st, k).from.rank + 1))}
  IN IF stays = {} THEN <<>> ELSE SubSeq(st, 1, Largest(stays))

\* Mutant: what is replaced ahead of the caret is applied after it.
SpreadBehind(acc, k, off, local, out) ==
  [stack |-> [acc.stack EXCEPT ![k].snip = out.snip],
   real |-> acc.real \o [i \in DOMAIN out.updated |-> [out.updated[i] EXCEPT !.range = Moved(@, off)]],
   range |-> Rng(Pos(off, 0), Pos(off + Len(acc.stack[k].snip.text), 0)),
   str |-> out.snip.text]

\* stack_t::replace: to the snippet around, its field gets all of this one.
Spread(acc, k, off, local, out) ==
  LET at == [i \in DOMAIN out.updated |-> [out.updated[i] EXCEPT !.range = Moved(@, off)]]
      ahead(u) == PosLess(u.range.from, Moved(local, off).from)
  IN [stack |-> [acc.stack EXCEPT ![k].snip = out.snip],
      real |-> SelectSeq(at, ahead) \o acc.real \o SelectSeq(at, LAMBDA u : ~ahead(u)),
      range |-> Rng(Pos(off, 0), Pos(off + Len(acc.stack[k].snip.text), 0)),
      str |-> out.snip.text]
InRecord(acc, k, off, local) == Spread(acc, k, off, local, ReplaceField(acc.stack[k].snip, local, acc.str))
Through(st, r, str) ==
  FoldLeft(LAMBDA acc, k : InRecord(acc, k, Offset(st, k), Ranked(acc.stack[k].snip, Moved(acc.range, -Offset(st, k)))),
           [stack |-> st, real |-> << [range |-> r, str |-> str] >>, range |-> r, str |-> str],
           [i \in DOMAIN st |-> Len(st) + 1 - i])
StackReplace(st, from, to, str) ==
  Through(DropForPos(DropForPos(st, from), to), Rng(Pos(from, 0), Pos(to, 0)), str)

-----------------------------------------------------------------------------
\* replace_helper, for one range.  Which of the replacements has the caret is
\* guessed: one within the current field, the first that is surely so.
Guess(acc, st, from, to) ==
  LET cur == Moved(Current(st), anchor)
      lo == cur.from.offset
      hi == cur.to.offset
  IN IF ~acc.sure /\ lo <= from /\ to <= hi
     THEN [acc EXCEPT !.caret = <<from, to>>,
                      !.sure = (lo < from /\ to < hi) \/ (from # to /\ (lo < from \/ to < hi))]
     ELSE acc

Applied(acc, st, from, to, str, original) ==
  LET next == [acc EXCEPT !.text = Splice(@, from, to, str), !.adjustment = @ + Len(str) - (to - from)] IN
  IF st # <<>> THEN Guess(next, st, from, from + Len(str))
  ELSE IF original THEN [next EXCEPT !.caret = <<from, from + Len(str)>>] ELSE next
Apply(acc, out, u, from, to) ==
  Applied(acc, out.stack, u.range.from.offset + anchor + acc.adjustment, u.range.to.offset + anchor + acc.adjustment, u.str,
          <<u.range.from.offset + anchor, u.range.to.offset + anchor>> = <<from, to>>)
Replaced(out, from, to, str) ==
  [stack |-> out.stack,
   done |-> FoldLeft(LAMBDA acc, u : Apply(acc, out, u, from, to),
                     [text |-> text, caret |-> <<from, from + Len(str)>>, adjustment |-> 0, sure |-> FALSE], out.real)]
ReplaceHelper(from, to, str) ==
  IF from = to /\ str = <<>>
  THEN [stack |-> stack, done |-> [text |-> text, caret |-> <<from, to>>]]
  ELSE Replaced(StackReplace(stack, from - anchor, to - anchor, str), from, to, str)

-----------------------------------------------------------------------------
\* Current plus anchor, as a selection.
CurrentSel(st, n) == <<Current(st).from.offset + n, Current(st).to.offset + n>>
Pushed(st, snip, n) ==
  Append(IF st = <<>> THEN st ELSE [st EXCEPT ![Len(st)].caret = n - Current(st).from.offset], [snip |-> snip, caret |-> 0])

NextField(s) == LET after == {n \in DOMAIN s.fields : n > s.current} IN IF after = {} THEN 0 ELSE Smallest(after)
NextOf(st) ==
  LET unfinished == {k \in DOMAIN st : st[k].snip.current # 0} IN
  IF unfinished = {} THEN <<>>
  ELSE [SubSeq(st, 1, Largest(unfinished)) EXCEPT ![Largest(unfinished)].snip.current = NextField(st[Largest(unfinished)].snip)]

\* From the first field the snippet around is left for its previous field.
PreviousField(s) == LET before == {n \in DOMAIN s.fields \ {0} : s.current = 0 \/ n < s.current} IN IF before = {} THEN 0 ELSE Largest(before)
PreviousStep(acc, k) ==
  IF acc.done THEN acc
  ELSE IF PreviousField(acc.stack[k].snip) # 0
  THEN [stack |-> [acc.stack EXCEPT ![k].snip.current = PreviousField(acc.stack[k].snip)], moved |-> TRUE, done |-> TRUE]
  ELSE IF k = 1 /\ acc.stack[k].snip.current # 0 THEN [acc EXCEPT !.done = TRUE]
  ELSE [acc EXCEPT !.stack = Front(@)]
PreviousOf(st) ==
  FoldLeft(PreviousStep, [stack |-> st, moved |-> FALSE, done |-> FALSE], [i \in DOMAIN st |-> Len(st) + 1 - i])

Init ==
  /\ text = <<Mark>>
  /\ sel \in {<<0, 0>>, <<0, 1>>}
  /\ anchor = 0
  /\ stack = <<>>
  /\ typed = <<>>
  /\ edits = 0

Counted == edits < MaxEdits /\ edits' = edits + 1
Fits(str) == Len(text) + Len(str) <= MaxSize

\* editor_t::snippet: what is selected becomes a snippet.
InsertSnippet(template) ==
  /\ Counted /\ Len(stack) < 2
  /\ \E snip \in {Parse(template)} : \E res \in {ReplaceHelper(sel[1], sel[2], snip.text)} :
       /\ Fits(snip.text)
       /\ text' = res.done.text
       /\ anchor' = IF res.stack = <<>> THEN res.done.caret[1] ELSE anchor
       /\ stack' = Pushed(res.stack, snip, res.done.caret[1] - anchor')
       /\ sel' = CurrentSel(stack', anchor')
  /\ typed' = <<>>

\* What is typed replaces the selection, and the caret goes behind it.
Type(str) ==
  /\ Counted /\ Fits(str)
  /\ \E res \in {ReplaceHelper(sel[1], sel[2], str)} :
       /\ text' = res.done.text
       /\ stack' = res.stack
       /\ sel' = <<res.done.caret[2], res.done.caret[2]>>
       /\ typed' = << [str |-> str, at |-> res.done.caret[1], kept |-> Len(res.stack) = Len(stack), inField |-> sel[1] - CurrentSel(stack, anchor)[1]] >>
  /\ UNCHANGED anchor

InsertTab ==
  /\ Counted
  /\ \E st \in {DropForPos(stack, sel[2] - anchor)} : \E next \in {NextOf(st)} :
       /\ stack' = next
       /\ IF next # <<>> THEN sel' = CurrentSel(next, anchor) /\ UNCHANGED text
          ELSE /\ text' = Splice(text, sel[1], sel[2], <<Tab>>)
               /\ sel' = <<sel[1] + 1, sel[1] + 1>>
  /\ typed' = <<>>
  /\ UNCHANGED anchor

InsertBacktab ==
  /\ Counted /\ stack # <<>>
  /\ \E out \in {PreviousOf(DropForPos(stack, sel[2] - anchor))} :
       /\ stack' = out.stack
       /\ sel' = IF out.moved THEN CurrentSel(out.stack, anchor) ELSE sel
  /\ typed' = <<>>
  /\ UNCHANGED <<text, anchor>>

\* The caret is moved; snippets find out when something is typed.
Select(from, to) ==
  /\ Counted /\ stack # <<>>
  /\ sel' = <<from, to>>
  /\ typed' = <<>>
  /\ UNCHANGED <<text, anchor, stack>>

Next ==
  \/ \E template \in Templates : InsertSnippet(template)
  \/ \E str \in Strings : Type(str)
  \/ InsertTab \/ InsertBacktab
  \/ \E from, to \in 0..Len(text) : from <= to /\ Select(from, to)

Spec == Init /\ [][Next]_vars

-----------------------------------------------------------------------------
\* The buffer has the text of each snippet where the stack believes it is:
\* what stack_t::replace returns is what happened to the snippets.
SnippetsInText ==
  \A k \in DOMAIN stack :
    LET from == anchor + Offset(stack, k) IN
    /\ from + Len(stack[k].snip.text) <= Len(text)
    /\ Substr(text, from, from + Len(stack[k].snip.text)) = stack[k].snip.text

\* Mirrors have what their field has.
MirrorsFollow ==
  \A k \in DOMAIN stack :
    LET s == stack[k].snip IN
    \A i \in DOMAIN s.mirrors :
      s.mirrors[i].index \in ToSet(TopologicalOrder(Depends(s))) =>
        TextOf(s.text, s.mirrors[i].range) = Transform(s.mirrors[i].op, TextOf(s.text, s.fields[s.mirrors[i].index]))

\* A snippet has its current field, and the snippet in it is in that field.
FieldsNest ==
  \A k \in DOMAIN stack :
    LET s == stack[k].snip IN
    /\ s.current \in DOMAIN s.fields
    /\ \A n \in DOMAIN s.fields : s.fields[n].from.offset <= s.fields[n].to.offset /\ s.fields[n].to.offset <= Len(s.text)
    /\ k > 1 => LET f == FieldOf(stack, k - 1) IN
         f.from.offset <= Offset(stack, k) /\ Offset(stack, k) + Len(s.text) <= f.to.offset

\* Who types in a field finds the caret behind what was typed, not at one of
\* the mirrors.
CaretStays ==
  stack # <<>> => \A i \in DOMAIN typed :
    /\ Substr(text, typed[i].at, typed[i].at + Len(typed[i].str)) = typed[i].str
    /\ typed[i].kept => typed[i].at - CurrentSel(stack, anchor)[1] = typed[i].inField
=============================================================================
