------------------------------ MODULE MCFileOpen ------------------------------
(***************************************************************************)
(* Bounded instances of FileOpen for TLC.                                  *)
(***************************************************************************)
EXTENDS FileOpen

CONSTANTS utf8, bom, win, none, unknown, noContent, t1, t2, b1, b2

MCCharsets == {utf8, bom, win}
=============================================================================
