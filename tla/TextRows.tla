------------------------------- MODULE TextRows -------------------------------
(***************************************************************************)
(* The rows of a view's layout: one for each line, and lines that a fold   *)
(* joins are in one.  A row is a sequence of nodes, which are texts,       *)
(* unprintable characters, folds and newlines; none of them knows what it  *)
(* shows, only how long it is.  Rows are not wrapped.                      *)
(***************************************************************************)
EXTENDS TextFolds

CONSTANTS Texts, Strings, Unprintable, End,
  LineMax,      \* kCTLineMaxSize: how long a text node gets
  MaxEdits, MaxFolds, MaxFoldings

VARIABLES
  text,
  folded,     \* _folded: <<from, to>>, sorted
  levels,     \* _levels: what is known of the line that begins there
  rows,       \* _rows: the nodes of each, and its length as the tree has it
  torn,       \* see Next (not in the code)
  unparsed,   \* what was edited since did_parse: <<from, to>> (not in the code)
  foldings,   \* how many times folds changed (not in the code)
  edits       \* how many edits were made (not in the code)

vars == <<text, folded, levels, rows, torn, unparsed, foldings, edits>>

Node(type, len) == [type |-> type, len |-> len]
Sum(lengths) == FoldLeft(+, 0, lengths)
LengthOf(nodes) == Sum([k \in DOMAIN nodes |-> nodes[k].len])
Before(nodes, k) == LengthOf(SubSeq(nodes, 1, k - 1))
Updated(nodes) == [nodes |-> nodes, len |-> LengthOf(nodes)]

\* paragraph_t.  A node that an offset is in is split, to insert there.
NodeAt(nodes, i) ==
  SelectInSeq([j \in DOMAIN nodes |-> j], LAMBDA j : i < Before(nodes, j) + nodes[j].len \/ i = Before(nodes, j))
InsertAtNode(nodes, k, head, node) ==
  IF head = 0 THEN InsertAt(nodes, k, node)
  ELSE SubSeq(nodes, 1, k - 1) \o <<[nodes[k] EXCEPT !.len = head], node, Node("text", nodes[k].len - head)>>
         \o SubSeq(nodes, k + 1, Len(nodes))
InsertNode(nodes, i, node) ==
  IF NodeAt(nodes, i) = 0 THEN Append(nodes, node)
  ELSE InsertAtNode(nodes, NodeAt(nodes, i), i - Before(nodes, NodeAt(nodes, i)), node)

TextNodeAt(nodes, i) ==
  SelectInSeq([j \in DOMAIN nodes |-> j],
    LAMBDA j : nodes[j].type = "text" /\ Before(nodes, j) <= i /\ i <= Before(nodes, j) + nodes[j].len)
InsertTextAt(nodes, k, i, len) ==
  IF k # 0 /\ ~(i = Before(nodes, k) + nodes[k].len /\ nodes[k].len >= LineMax) THEN [nodes EXCEPT ![k].len = @ + len]
  ELSE InsertNode(nodes, i, Node("text", len))

\* insert: text up to a newline or an unprintable character, or of LineMax.
\* What is inserted is ended by End.
TypeOf(c) == IF c = NL THEN "newline" ELSE IF c = Unprintable THEN "unprintable" ELSE "text"
Flushed(acc, i) ==
  IF acc.from = i THEN acc.nodes ELSE InsertTextAt(acc.nodes, TextNodeAt(acc.nodes, acc.from), acc.from, i - acc.from)
Followed(nodes, c, i) ==
  IF TypeOf(c) = "text" THEN [nodes |-> nodes, from |-> i] ELSE [nodes |-> InsertNode(nodes, i, Node(TypeOf(c), 1)), from |-> i + 1]
InsertChar(acc, c, i) ==
  IF TypeOf(c) # "text" \/ c = End \/ i - acc.from >= LineMax THEN Followed(Flushed(acc, i), c, i) ELSE acc
Insert(nodes, at, str) ==
  FoldLeft(LAMBDA acc, k : InsertChar(acc, Append(str, End)[k], at + k - 1), [nodes |-> nodes, from |-> at],
           [k \in 1..(Len(str) + 1) |-> k]).nodes

Overlap(from, to, first, last) == LET n == Min({to, last}) - Max({from, first}) IN IF n > 0 THEN n ELSE 0
Erase(nodes, from, to) ==
  SelectSeq([k \in DOMAIN nodes |-> [nodes[k] EXCEPT !.len = @ - Overlap(from, to, Before(nodes, k), Before(nodes, k) + @)]],
            LAMBDA n : n.len > 0)

-----------------------------------------------------------------------------
\* layout_t: row_for_offset, and what a change does to the rows rs.
OffsetOf(rs, r) == Sum([k \in 1..(r - 1) |-> rs[k].len])
RowAt(rs, i) == Max({r \in DOMAIN rs : OffsetOf(rs, r) <= i})
Edited(rs, r, nodes) == [rs EXCEPT ![r] = Updated(nodes)]

\* did_erase: what is before it in the first row is inserted into the last
\* row again.  repair_folds: what is folded is one node.
InsertFolded(rs, p) ==
  LET r == RowAt(rs, p[1]) IN Edited(rs, r, InsertNode(rs[r].nodes, p[1] - OffsetOf(rs, r), Node("fold", p[2] - p[1])))
EraseInRow(rs, from, to) ==
  LET r == RowAt(rs, from) IN Edited(rs, r, Erase(rs[r].nodes, from - OffsetOf(rs, r), to - OffsetOf(rs, r)))
FoldsIn(f, from, to) == SetFolded(SetToSeq({p \in Legacy(f) : from < p[2] /\ p[1] < to}))
RepairFoldsInRow(rs, f, from, to) ==
  FoldLeft(LAMBDA acc, p : InsertFolded(EraseInRow(acc, p[1], p[2]), p), rs, FoldsIn(f, from, to))
EraseRows(rs, t, f, from, to, a, b, base) ==
  RepairFoldsInRow(SubSeq(rs, 1, a - 1)
    \o <<Updated(Insert(Erase(rs[b].nodes, 0, to - OffsetOf(rs, b)), 0, Substr(t, base, from)))>>
    \o SubSeq(rs, b + 1, Len(rs)), f, base, from)
DidErase(rs, t, f, from, to) ==
  IF from = to THEN rs
  ELSE IF RowAt(rs, from) = RowAt(rs, to) THEN EraseInRow(rs, from, to)
  ELSE EraseRows(rs, t, f, from, to, RowAt(rs, from), RowAt(rs, to), OffsetOf(rs, RowAt(rs, from)))
\* Mutant: a fold that ends where the new text does, or later, is left out.
RepairFoldsBefore(rs, t, f, from, to) ==
  FoldLeft(LAMBDA acc, p : InsertFolded(DidErase(acc, t, f, p[1], p[2]), p), rs,
           SelectSeq(FoldsIn(f, from, to), LAMBDA p : p[2] < to))
RepairFolds(rs, t, f, from, to) ==
  FoldLeft(LAMBDA acc, p : InsertFolded(DidErase(acc, t, f, p[1], p[2]), p), rs, FoldsIn(f, from, to))

\* did_insert: each line gets a row, and the last of them what was behind.
InsertIn(rs, r, t, first, last) == Edited(rs, r, Insert(rs[r].nodes, first - OffsetOf(rs, r), Substr(t, first, Min({last, Len(t)}))))
Broken(rs, acc, eol, last) ==
  IF eol = last THEN [rows |-> rs, row |-> acc.row, pos |-> last]
  ELSE [rows |-> InsertAt(rs, acc.row + 1, Updated(<<>>)), row |-> acc.row + 1, pos |-> eol + 1]
InsertLine(acc, t, eol, last) ==
  Broken(InsertIn(acc.rows, acc.row, t, acc.pos, IF eol = last THEN last ELSE eol + 1), acc, eol, last)
RECURSIVE InsertLines(_, _, _)
InsertLines(acc, t, last) ==
  IF acc.pos = last THEN acc
  ELSE InsertLines(InsertLine(acc, t, Min({Eol(t, LineOf(t, acc.pos)), last}), last), t, last)

Suffix(rs, t, first, last, row) ==
  IF LineOf(t, first) = LineOf(t, last) THEN 0 ELSE OffsetOf(rs, row) + LengthOf(rs[row].nodes) - first
Rest(acc, t, last, len) == IF len = 0 THEN acc.rows ELSE InsertIn(acc.rows, acc.row, t, last, last + len)
InsertBefore(rs, t, f, first, last, row, base, suffix) ==
  LET begun == [rs EXCEPT ![row].nodes = Erase(@, first - base, first - base + suffix)] IN
  RepairFolds(Rest(InsertLines([rows |-> begun, row |-> row, pos |-> first], t, last), t, last, suffix), t, f, first, last + suffix)
DidInsert(rs, t, f, first, last) ==
  LET row == RowAt(rs, first) IN
  IF first = last THEN rs ELSE InsertBefore(rs, t, f, first, last, row, OffsetOf(rs, row), Suffix(rs, t, first, last, row))

DidFold(rs, t, f, p) == DidInsert(DidErase(rs, t, f, p[1], p[2]), t, f, p[1], p[2])
DidReplace(rs, t, f, from, to, len) == DidInsert(DidErase(rs, t, f, from, to), t, f, from, from + len)

-----------------------------------------------------------------------------
Init ==
  /\ text \in Texts
  /\ folded = <<>>
  /\ levels = NoKeys
  /\ rows = DidInsert(<<Updated(<<>>)>>, text, <<>>, 0, Len(text))
  /\ torn = FALSE
  /\ unparsed = <<>>
  /\ foldings = 0
  /\ edits = 0

Cuts(p, i) == p[1] < i /\ i < p[2]
Touching(f) == \E i, j \in DOMAIN f : f[i][2] = f[j][1] \/ (Cuts(f[i], f[j][1]) /\ Cuts(f[j], f[i][2]))
Refolded(f, pairs) ==
  /\ foldings < MaxFoldings
  /\ foldings' = foldings + 1
  /\ folded' = f
  /\ rows' = FoldLeft(LAMBDA rs, p : IF p[1] = p[2] THEN rs ELSE DidFold(rs, text, f, p), rows, pairs)
  /\ torn' = \/ Touching(f)
              \/ \E p \in ToSet(folded) \ ToSet(f) : \A k \in DOMAIN pairs : ~Within(p, pairs[k])
  /\ UNCHANGED <<text, unparsed, edits>>
AllKnown == Known(text, levels, 1..Lines(text))

\* fold: what is selected.
FoldSelection(from, to) ==
  /\ Len(folded) < MaxFolds
  /\ Refolded(Fold(folded, <<from, to>>), << <<from, to>> >>)
  /\ UNCHANGED levels

\* unfold: a click at the dots that a fold is shown as.
Unfold(from, to) ==
  /\ <<from, to>> \in Legacy(folded)
  /\ \E k \in DOMAIN folded : Unfolds(folded[k], from, to)
  /\ Refolded(SelectSeq(folded, LAMBDA p : ~Unfolds(p, from, to)), << <<from, to>> >>)
  /\ UNCHANGED levels

\* remove_enclosing_folds: a caret or a selection is set.
Reveal(from, to) ==
  /\ \E k \in DOMAIN folded : Encloses(folded[k], from, to)
  /\ Refolded(SelectSeq(folded, LAMBDA p : ~Encloses(p, from, to)), SelectSeq(folded, LAMBDA p : Encloses(p, from, to)))
  /\ UNCHANGED levels

ToggleAtLine(n, recursive) ==
  /\ \E out \in {ToggledAtLine(text, folded, levels, n, recursive)} : Refolded(out.folded, <<out.range>>)
  /\ levels' = IF HasFolded(text, folded, n) THEN levels ELSE AllKnown

\* What is between the first and the last of them is shown anew.
ToggleAll(level) ==
  /\ \E out \in {ToggledAll(text, folded, levels, level)} :
       Refolded(out.folded, IF out.ranges = <<>> THEN <<>>
                            ELSE << <<Min({p[1] : p \in ToSet(out.ranges)}), Max({p[2] : p \in ToSet(out.ranges)})>> >>)
  /\ levels' = AllKnown

\* The markers in the gutter ask for what is known of each line.
Look ==
  /\ levels' = AllKnown
  /\ UNCHANGED <<text, folded, rows, torn, unparsed, foldings, edits>>

\* An edit: will_replace of the folds, then did_replace of the layout.
Edit(from, to, str) ==
  /\ edits < MaxEdits
  /\ text' = Splice(text, from, to, str)
  /\ folded' = FoldsReplaced(folded, from, to, Len(str))
  /\ levels' = LevelsReplaced(text, levels, from, to, Len(str))
  /\ rows' = DidReplace(rows, text', folded', from, to, Len(str))
  /\ unparsed' = LET moved(i) == IF i >= to THEN i + Len(str) - (to - from) ELSE Min({i, from}) IN
                 IF unparsed = <<>> THEN <<from, from + Len(str)>>
                 ELSE <<Min({from, moved(unparsed[1])}), Max({from + Len(str), moved(unparsed[2])})>>
  /\ torn' = \/ Touching(folded')
              \/ \E k \in DOMAIN folded : (Cuts(folded[k], from) /\ folded[k][2] < to) \/ (Cuts(folded[k], to) /\ from < folded[k][1])
  /\ edits' = edits + 1
  /\ UNCHANGED foldings

Parse ==
  /\ unparsed # <<>>
  /\ levels' = LevelsParsed(text, levels, unparsed[1], Min({Eol(text, LineOf(text, unparsed[2])) + 1, Len(text)}))
  /\ unparsed' = <<>>
  /\ UNCHANGED <<text, folded, rows, torn, foldings, edits>>

Step ==
  \/ \E from, to \in 0..Len(text) : from < to /\ (FoldSelection(from, to) \/ Unfold(from, to))
  \/ \E from, to \in 0..Len(text) : from <= to /\ Reveal(from, to)
  \/ \E n \in 1..Lines(text), recursive \in BOOLEAN : ToggleAtLine(n, recursive)
  \/ \E level \in 0..2 : ToggleAll(level)
  \/ Look
  \/ \E from, to \in 0..Len(text), str \in Strings :
       (IF from = to THEN str # <<>> ELSE from < to /\ str = <<>>) /\ Edit(from, to, str)
  \/ Parse

\* Folds that touch and edits that cut a fold are where rows go wrong: the
\* program goes on after them, what is stated here does not.
Next == ~torn /\ Step

Spec == Init /\ [][Next]_vars

-----------------------------------------------------------------------------
\* What the rows show: text, and one node for what folds hide.
Shown(nodes) ==
  FlattenSeq([k \in DOMAIN nodes |-> IF nodes[k].type = "fold" THEN <<nodes[k]>> ELSE [i \in 1..nodes[k].len |-> Node(nodes[k].type, 1)]])
Expected ==
  LET show(i) == CASE \E p \in Legacy(folded) : p[1] = i -> << Node("fold", (CHOOSE p \in Legacy(folded) : p[1] = i)[2] - i) >>
                   [] Hidden(folded, i) /\ \A p \in Legacy(folded) : p[1] # i -> <<>>
                   [] ~Hidden(folded, i) -> <<Node(TypeOf(text[i + 1]), 1)>>
  IN FlattenSeq([i \in DOMAIN text |-> show(i - 1)])
RowsShow ==
  torn \/ /\ FlattenSeq([r \in DOMAIN rows |-> Shown(rows[r].nodes)]) = Expected
          /\ \A r \in DOMAIN rows :
               /\ rows[r] = Updated(rows[r].nodes)
               /\ \A k \in DOMAIN rows[r].nodes :
                    rows[r].nodes[k].type = "newline" <=> (k = Len(rows[r].nodes) /\ r < Len(rows))

\* What is known of a line that was parsed is so.
LevelsFresh ==
  unparsed = <<>> => \A n \in 1..Lines(text) : InfoFor(text, levels, n) = Info(text, n)
=============================================================================
