----------------------------- MODULE SaveContract -----------------------------
(***************************************************************************)
(* What file::save promises whoever calls it (OakDocument, and through it  *)
(* the windows and the Find dialog): the file is written at most once, the *)
(* result is reported exactly once, nothing is written after the report,   *)
(* and a save the user cancelled has left the file alone.                  *)
(***************************************************************************)
VARIABLES
  written,   \* the save has changed the file
  result     \* "none" until did_save, then what it was called with

vars == <<written, result>>

Init == written = FALSE /\ result = "none"

Write ==
  /\ result = "none" /\ ~written
  /\ written' = TRUE
  /\ UNCHANGED result

Report ==
  /\ result = "none"
  /\ result' \in {"success", "failure"} \cup (IF written THEN {} ELSE {"cancel"})
  /\ UNCHANGED written

Next == Write \/ Report

Spec == Init /\ [][Next]_vars
=============================================================================
