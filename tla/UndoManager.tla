----------------------------- MODULE UndoManager -----------------------------
(***************************************************************************)
(* ng::undo_manager_t over the text and the revision numbers of an         *)
(* ng::buffer_t, as OakDocument, OakDocumentEditor and OakTextView drive   *)
(* it on the main thread.                                                  *)
(*                                                                         *)
(*  - Every edit of a loaded document happens between begin_undo_group and *)
(*    end_undo_group (OakTextView's AUTO_REFRESH, OakDocumentEditor's      *)
(*    change groups, performReplacements, importDocumentChanges).  Groups  *)
(*    nest: two editors of one document can each have one open.            *)
(*  - An undo or redo opens a group of its own, walks over records, one    *)
(*    buffer edit per record, sets the revision and closes the group.      *)
(*    Each record is one step here: the buffer's other observers see the   *)
(*    text between two of them.                                            *)
(*  - _records is 0-based in the code and 1-based here; _index is the same *)
(*    number in both (how many records the text includes).                 *)
(*                                                                         *)
(* `hist' and `content' are history variables: the text after each record, *)
(* and the text each revision number was given to.  No action reads them.  *)
(***************************************************************************)
EXTENDS Integers, TextOps

CONSTANTS
  Chars,         \* the characters of the model
  White,         \* those among them that are " ", "\n" or "\t"
  Strings,       \* the strings a document is loaded with and an edit inserts
  Sels,          \* non-empty selections (ranges_t)
  NoSel,         \* the empty ranges_t
  MaxLen,        \* bound: length of the text
  MaxRecords,    \* bound: number of records
  MaxRevision,   \* bound: revision numbers handed out
  MaxNesting     \* bound: nested groups

ASSUME ConstAssumption ==
  /\ White \subseteq Chars
  /\ \A s \in Strings : s \in Seq(Chars)
  /\ NoSel \notin Sels
  /\ MaxLen \in Nat /\ MaxRecords \in Nat /\ MaxRevision \in Nat /\ MaxNesting \in Nat

VARIABLES
  text,          \* buffer_t::_storage
  revision,      \* buffer_t::_revision
  nextRevision,  \* buffer_t::_next_revision
  records,       \* _records
  index,         \* _index
  nesting,       \* _nesting_count
  preSel,        \* _pre_selection
  preRevision,   \* _pre_revision
  changes,       \* _changes
  mode,          \* what the main thread is in: "idle", "undo" or "redo"
  res,           \* undo()/redo(): local variable res
  rev,           \* undo()/redo(): local variable rev
  hist,          \* history: hist[i+1] is the text after record i
  content        \* history: content[r] is the text revision r was given to

bufVars   == <<text, revision, nextRevision>>
groupVars == <<nesting, preSel, preRevision, changes>>
loopVars  == <<mode, res, rev>>
vars == <<bufVars, records, index, groupVars, loopVars, hist, content>>

-----------------------------------------------------------------------------
\* A member the constructor leaves unset; no revision has this number.
Unset == 0

\* Mutant: the two strings change places.
RecordSwapped(pos, before, after, sel, r) ==
  [pos |-> pos, before |-> after, after |-> before,
   preSel |-> sel, preRevision |-> r, postSel |-> NoSel, postRevision |-> Unset]

Record(pos, before, after, sel, r) ==
  [pos |-> pos, before |-> before, after |-> after,
   preSel |-> sel, preRevision |-> r, postSel |-> NoSel, postRevision |-> Unset]

IsInsert(r) == r.before = <<>> /\ r.after # <<>>
IsErase(r)  == r.before # <<>> /\ r.after = <<>>

\* The string should_merge looks at.
Typed(r)    == IF IsInsert(r) THEN r.after ELSE r.before
AllWhite(r) == \A i \in DOMAIN Typed(r) : Typed(r)[i] \in White
NoWhite(r)  == \A i \in DOMAIN Typed(r) : Typed(r)[i] \notin White

ShouldMerge(r, t) ==
  /\ IsInsert(r) = IsInsert(t)
  /\ IsErase(r) = IsErase(t)
  /\ AllWhite(r) \/ NoWhite(r)
  /\ AllWhite(r) = AllWhite(t)
  /\ NoWhite(r) = NoWhite(t)

CanUndo == index # 0
CanRedo == index # Len(records)

-----------------------------------------------------------------------------
\* A loaded document: the content was inserted before the undo manager was
\* created, and the buffer bumped to revision 1 after.
Init ==
  /\ text \in Strings
  /\ revision = 1
  /\ nextRevision = 2
  /\ records = <<>>
  /\ index = 0
  /\ nesting = 0
  /\ preSel = NoSel
  /\ preRevision = Unset
  /\ changes = 0
  /\ mode = "idle"
  /\ res = NoSel
  /\ rev = Unset
  /\ hist = <<text>>
  /\ content = <<text>>

\* Mutant: begin_undo_group forgets the selection.
OpenGroupNoSelection(sel) ==
  /\ nesting' = nesting + 1
  /\ IF nesting = 0
       THEN preRevision' = revision /\ changes' = 0
       ELSE UNCHANGED <<preRevision, changes>>
  /\ UNCHANGED preSel

\* Mutant: begin_undo_group forgets the revision.
OpenGroupStaleRevision(sel) ==
  /\ nesting' = nesting + 1
  /\ IF nesting = 0
       THEN preSel' = sel /\ changes' = 0
       ELSE UNCHANGED <<preSel, changes>>
  /\ UNCHANGED preRevision

\* begin_undo_group, without what it leaves alone.
OpenGroup(sel) ==
  /\ nesting' = nesting + 1
  /\ IF nesting = 0
       THEN preSel' = sel /\ preRevision' = revision /\ changes' = 0
       ELSE UNCHANGED <<preSel, preRevision, changes>>

BeginUndoGroup(sel) ==
  /\ mode = "idle"
  /\ nesting < MaxNesting
  /\ OpenGroup(sel)
  /\ UNCHANGED <<bufVars, records, index, loopVars, hist, content>>

\* Mutant: a group is closed that was never opened.
EndUndoGroupUnbalanced ==
  /\ mode = "idle"
  /\ nesting > 1 \/ changes = 0
  /\ nesting' = nesting - 1
  /\ UNCHANGED <<bufVars, records, index, preSel, preRevision, changes, loopVars, hist, content>>

\* An inner group, or a group without changes: only the count goes down.
EndUndoGroupQuiet ==
  /\ mode = "idle"
  /\ nesting > 0
  /\ nesting > 1 \/ changes = 0
  /\ nesting' = nesting - 1
  /\ UNCHANGED <<bufVars, records, index, preSel, preRevision, changes, loopVars, hist, content>>

\* Mutants: the last record of a group keeps the revision it started from, is
\* left without a revision, is left without a selection.
ClosedPreRevision(r, sel, n) == [r EXCEPT !.postSel = sel, !.postRevision = r.preRevision]
ClosedNoRevision(r, sel, n) == [r EXCEPT !.postSel = sel]

\* The last record of a group that ends.
Closed(r, sel, n) == [r EXCEPT !.postSel = sel, !.postRevision = n]

\* The outermost group with changes: its last record learns the selection
\* and the revision number the buffer gets.
EndUndoGroupBump(sel) ==
  /\ mode = "idle"
  /\ nesting = 1
  /\ changes # 0
  /\ nesting' = 0
  /\ changes' = 0
  /\ revision' = nextRevision
  /\ nextRevision' = nextRevision + 1
  /\ records' = [records EXCEPT ![index] = Closed(@, sel, nextRevision)]
  /\ content' = Append(content, text)
  /\ UNCHANGED <<text, index, preSel, preRevision, loopVars, hist>>

\* buffer_t::actual_replace and the will_replace it announces itself with.
Replace(from, to, s) ==
  /\ mode = "idle"
  /\ nesting > 0
  /\ index < MaxRecords /\ nextRevision <= MaxRevision
  /\ from <= to /\ to <= Len(text)
  /\ Len(text) - (to - from) + Len(s) <= MaxLen
  /\ text' = Splice(text, from, to, s)
  /\ records' = Append(SubSeq(records, 1, index),
                       Record(from, Substr(text, from, to), s, preSel, preRevision))
  /\ preSel' = NoSel
  /\ changes' = changes + 1
  /\ index' = index + 1
  /\ hist' = Append(SubSeq(hist, 1, index + 1), text')
  /\ UNCHANGED <<revision, nextRevision, nesting, preRevision, loopVars, content>>

-----------------------------------------------------------------------------
\* undo: and redo: of OakTextView, up to the head of the loop.  They are event
\* handlers, so no group is open when they are called.
StartUndo(sel) ==
  /\ mode = "idle" /\ nesting = 0
  /\ CanUndo
  /\ OpenGroup(sel)
  /\ mode' = "undo" /\ res' = NoSel /\ rev' = Unset
  /\ UNCHANGED <<bufVars, records, index, hist, content>>

StartRedo(sel) ==
  /\ mode = "idle" /\ nesting = 0
  /\ CanRedo
  /\ OpenGroup(sel)
  /\ mode' = "redo" /\ res' = NoSel /\ rev' = Unset
  /\ UNCHANGED <<bufVars, records, index, hist, content>>

\* Undoing record r continues into t, the record before it.
UndoMerges(i) ==
  /\ i # 1
  /\ i # Len(records)
  /\ records[i].preSel = records[i - 1].postSel
  /\ ShouldMerge(records[i], records[i - 1])

RedoMerges(i) ==
  /\ i # Len(records)
  /\ records[i].postSel = records[i + 1].preSel
  /\ ShouldMerge(records[i], records[i + 1])

\* One iteration of undo()'s loop.
UndoStep ==
  /\ mode = "undo" /\ res = NoSel
  /\ index # 0
  /\ LET r == records[index] IN
       /\ text' = Splice(text, r.pos, r.pos + Len(r.after), r.before)
       /\ res' = IF UndoMerges(index) THEN NoSel ELSE r.preSel
       /\ rev' = r.preRevision
  /\ index' = index - 1
  /\ UNCHANGED <<revision, nextRevision, records, groupVars, mode, hist, content>>

\* One iteration of redo()'s loop.
RedoStep ==
  /\ mode = "redo" /\ res = NoSel
  /\ index # Len(records)
  /\ LET r == records[index + 1] IN
       /\ text' = Splice(text, r.pos, r.pos + Len(r.before), r.after)
       /\ res' = IF RedoMerges(index + 1) THEN NoSel ELSE r.postSel
       /\ rev' = r.postRevision
  /\ index' = index + 1
  /\ UNCHANGED <<revision, nextRevision, records, groupVars, mode, hist, content>>

\* The loop ends, the revision is set, and the caller's group closes: with
\* _changes reset to 0 it leaves no trace.
FinishLoop ==
  /\ mode # "idle" /\ res # NoSel
  /\ revision' = rev
  /\ changes' = 0
  /\ nesting' = nesting - 1
  /\ mode' = "idle" /\ res' = NoSel /\ rev' = Unset
  /\ UNCHANGED <<text, nextRevision, records, index, preSel, preRevision, hist, content>>

Next ==
  \/ \E sel \in Sels : BeginUndoGroup(sel) \/ EndUndoGroupBump(sel)
  \/ EndUndoGroupQuiet
  \/ \E from, to \in 0..MaxLen, s \in Strings : Replace(from, to, s)
  \/ \E sel \in Sels : StartUndo(sel) \/ StartRedo(sel)
  \/ UndoStep
  \/ RedoStep
  \/ FinishLoop

Spec == Init /\ [][Next]_vars

-----------------------------------------------------------------------------
Str == Seq(Chars)

RecordType ==
  [pos : Nat, before : Str, after : Str, preSel : Sels \cup {NoSel}, preRevision : Nat,
   postSel : Sels \cup {NoSel}, postRevision : Nat]

\* The type invariant.
TypeOK ==
  /\ text \in Str
  /\ revision \in Nat \ {0} /\ nextRevision \in Nat \ {0}
  /\ records \in Seq(RecordType)
  /\ index \in 0..Len(records)
  /\ nesting \in Nat
  /\ preSel \in Sels \cup {NoSel} /\ preRevision \in Nat
  /\ changes \in Nat
  /\ mode \in {"idle", "undo", "redo"}
  /\ res \in Sels \cup {NoSel} /\ rev \in Nat
  /\ hist \in Seq(Str) /\ Len(hist) = Len(records) + 1
  /\ content \in Seq(Str) /\ Len(content) = nextRevision - 1

Quiescent == mode = "idle" /\ nesting = 0

\* When no editing action is under way, the text in the buffer is the one its
\* revision number was given to: OakDocument's isDocumentEdited, which only
\* compares revision numbers, says "not edited" of exactly the saved text,
\* whatever edits, undos and redos led back to it.
RevisionIdentifiesText ==
  Quiescent => revision \in DOMAIN content /\ text = content[revision]

\* The records are a faithful path: the text in the buffer, also between two
\* steps of an undo, is the text as it was when record `index' was made, and
\* each record's position and strings fit the texts on both its sides.
RecordsReplayHistory ==
  /\ text = hist[index + 1]
  /\ \A i \in 1..Len(records) :
       LET r == records[i] IN
       /\ r.pos + Len(r.before) <= Len(hist[i])
       /\ Substr(hist[i], r.pos, r.pos + Len(r.before)) = r.before
       /\ hist[i + 1] = Splice(hist[i], r.pos, r.pos + Len(r.before), r.after)

\* The assertions at the heads of the two loops: a walk over the records ends
\* at a record with a selection before it runs out of records.
LoopsStayInRecords ==
  /\ mode = "undo" /\ res = NoSel => index # 0
  /\ mode = "redo" /\ res = NoSel => index # Len(records)

\* The undo manager keeps the promise of RevisionHistory.
History == INSTANCE RevisionHistory WITH Texts <- Str, busy <- ~Quiescent
KeepsRevisionHistory == History!Spec
=============================================================================
