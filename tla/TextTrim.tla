------------------------------- MODULE TextTrim -------------------------------
(***************************************************************************)
(* What buffer_t::replace leaves alone: the characters that the old and    *)
(* the new text both begin or end with.                                    *)
(***************************************************************************)
EXTENDS TextOps, FiniteSetsExt

CommonPrefix(s, t) ==
  Max({n \in 0..Min({Len(s), Len(t)}) : \A i \in 1..n : s[i] = t[i]})

CommonSuffix(s, t, prefix) ==
  Max({n \in 0..Min({Len(s), Len(t)}) - prefix : \A i \in 1..n : s[Len(s) + 1 - i] = t[Len(t) + 1 - i]})
=============================================================================
