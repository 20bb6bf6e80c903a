----------------------------- MODULE OpenContract -----------------------------
(***************************************************************************)
(* What file::open promises OakDocument, which loads and imports files     *)
(* with it: the file is read at most once, so a text that is shown is one  *)
(* version of the file; the caller gets the text or an error, never both,  *)
(* never twice, and no text without a read.                                *)
(***************************************************************************)
VARIABLES
  read,      \* the file has been read (or the caller passed the content)
  answer     \* "none" until the callback is told, then "content" or "error"

vars == <<read, answer>>

Init == read \in BOOLEAN /\ answer = "none"

Read ==
  /\ answer = "none" /\ ~read
  /\ read' = TRUE
  /\ UNCHANGED answer

Answer ==
  /\ answer = "none"
  /\ answer' \in {"error"} \cup (IF read THEN {"content"} ELSE {})
  /\ UNCHANGED read

Next == Read \/ Answer

Spec == Init /\ [][Next]_vars
=============================================================================
