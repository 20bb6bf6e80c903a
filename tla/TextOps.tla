------------------------------- MODULE TextOps -------------------------------
(***************************************************************************)
(* The two operations on a buffer's text.  A text is a sequence of         *)
(* characters; offsets count from 0 and lie between characters, as in the  *)
(* code: [from, to) are the characters from+1 .. to of the sequence.       *)
(***************************************************************************)
EXTENDS Naturals, Sequences

\* buffer_t::substr
Substr(t, from, to) == SubSeq(t, from + 1, to)

\* The text after buffer_t::actual_replace: storage_t's erase and insert.
Splice(t, from, to, s) == SubSeq(t, 1, from) \o s \o SubSeq(t, to + 1, Len(t))
=============================================================================
