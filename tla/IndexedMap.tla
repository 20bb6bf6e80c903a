------------------------------ MODULE IndexedMap ------------------------------
(***************************************************************************)
(* indexed_map_t: a map from offsets in a text to values, which moves with *)
(* the text.  The code keeps it as a tree of the distances between keys;   *)
(* here it is a function whose domain is the set of keys (-1 is one that   *)
(* no edit moves).                                                         *)
(***************************************************************************)
EXTENDS Integers, FiniteSetsExt, Functions, TLC

NoKeys == <<>>

Set(m, k, v) == [j \in DOMAIN m \cup {k} |-> IF j = k THEN v ELSE m[j]]

\* set() of each of several.
SetAll(m, new) == [j \in DOMAIN new \cup DOMAIN m |-> IF j \in DOMAIN new THEN new[j] ELSE m[j]]

Without(m, keys) == Restrict(m, DOMAIN m \ keys)

\* remove(lower_bound(from), lower_bound(to)); its end may also be end().
RemoveRange(m, from, to) == Without(m, {k \in DOMAIN m : from <= k /\ k < to})
RemoveFrom(m, from)      == Without(m, {k \in DOMAIN m : from <= k})

\* The text between `from' and `to' is replaced by `len' characters.  A key at
\* an end of it sticks to the text on its right, or on its left.
IsReplaced(k, from, to, bindRight) == IF bindRight THEN from <= k /\ k < to ELSE from < k /\ k <= to
KeyAfter(k, from, to, len, bindRight) ==
  IF k > to \/ (bindRight /\ k = to) THEN k + len - (to - from) ELSE k

Replace(m, from, to, len, bindRight) ==
  LET kept == {k \in DOMAIN m : ~IsReplaced(k, from, to, bindRight)}
  IN [j \in {KeyAfter(k, from, to, len, bindRight) : k \in kept} |->
        m[CHOOSE k \in kept : KeyAfter(k, from, to, len, bindRight) = j]]

\* What buffer_t does for its scopes and marks_t for its marks: the last of
\* the keys in the replaced text, or at its end, goes to the end of the new text.
ReplacePreserving(m, from, to, len, bindRight) ==
  LET inside == {k \in DOMAIN m : from < k /\ k <= to}
      rest   == Replace(m, from, to, len, bindRight)
  IN IF inside = {} THEN rest ELSE Set(rest, from + len, m[Max(inside)])

\* The value of the last key that is at or before i.
ValueAt(m, i) == m[Max({k \in DOMAIN m : k <= i})]
=============================================================================
