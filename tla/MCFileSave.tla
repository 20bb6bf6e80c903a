------------------------------ MODULE MCFileSave ------------------------------
(***************************************************************************)
(* Bounded instances of FileSave for TLC.                                  *)
(***************************************************************************)
EXTENDS FileSave

CONSTANTS utf8, latin1, ascii, none, t1, t2, b1

MCCharsets == {utf8, latin1, ascii}
MCEncodable == {utf8, latin1}
=============================================================================
