--------------------------- MODULE RevisionHistory ---------------------------
(***************************************************************************)
(* What the buffer and its undo manager promise to the rest of the program *)
(* (OakDocument compares revision numbers to decide whether a document is  *)
(* edited, OakTextView to decide whether anything changed): a revision     *)
(* number names one text for ever.                                         *)
(*                                                                         *)
(* While an editing action is under way (`busy') the text may be anything  *)
(* and the revision is still that of the text the action started from.    *)
(* When it ends, either the new text has got a revision number of its own, *)
(* or the text is the one its revision number has always named.            *)
(***************************************************************************)
EXTENDS Naturals, Sequences

CONSTANT Texts

VARIABLES
  text,       \* the text in the buffer
  revision,   \* the revision number the buffer reports
  content,    \* content[r]: the text that revision r names
  busy        \* an editing action, an undo or a redo is under way

vars == <<text, revision, content, busy>>

Init ==
  /\ text \in Texts
  /\ revision = 1
  /\ content = <<text>>
  /\ busy = FALSE

\* The editing action changes the text; its revision is decided at the end.
Touch ==
  /\ text' \in Texts
  /\ busy' = TRUE
  /\ UNCHANGED <<revision, content>>

\* The editing action ends: what it made becomes a new revision.
Commit ==
  /\ busy
  /\ content' = Append(content, text)
  /\ revision' = Len(content')
  /\ busy' = FALSE
  /\ UNCHANGED text

\* The action ends with the text of a revision that is already known: an
\* undo, a redo, or an action that changed nothing.
Return ==
  /\ busy
  /\ revision' \in DOMAIN content
  /\ content[revision'] = text
  /\ busy' = FALSE
  /\ UNCHANGED <<text, content>>

Next == Touch \/ Commit \/ Return

Spec == Init /\ [][Next]_vars
=============================================================================
