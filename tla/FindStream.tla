------------------------------ MODULE FindStream ------------------------------
(***************************************************************************)
(* The search for a string, without regular expressions, in a text that    *)
(* comes in pieces.  A needle is a sequence of characters, and each of     *)
(* these a set of its forms in bytes (composed or not, either case).       *)
(* Searches go forward and are not stopped.                                *)
(***************************************************************************)
EXTENDS Integers, Sequences, FiniteSets

CONSTANTS Haystacks, Needles, Space

VARIABLES
  bytes,     \* the whole text
  needle, ignoring,
  node,      \* current_node, as what would have to follow
  matched,   \* match_data
  offset,    \* _offset
  found      \* the matches so far

vars == <<bytes, needle, ignoring, node, matched, offset, found>>

White(b) == ignoring /\ b = Space

\* The automaton: the forms of the needle, and what is left of them after a
\* byte.  A node without children has the empty string only.
Concat(S, T) == {s \o t : s \in S, t \in T}
RECURSIVE Forms(_)
Forms(chars) == IF chars = <<>> THEN {<<>>} ELSE Concat(Head(chars), Forms(Tail(chars)))
Root == Forms(needle)
After(n, b) == {Tail(s) : s \in {s \in n : s # <<>> /\ Head(s) = b}}
Childless(n) == n \ {<<>>} = {}

Initial == [node |-> Root, matched |-> <<>>]
NoMatch == -1

\* match: from byte i of buf on.  Bytes that matched until one did not are
\* matched again, without the first of them, and then that byte.
RECURSIVE Match(_, _, _)
Match(st, buf, i) ==
  IF i > Len(buf) THEN [st |-> st, end |-> NoMatch]
  ELSE IF White(buf[i])
  THEN Match([st EXCEPT !.matched = IF @ = <<>> THEN @ ELSE Append(@, buf[i])], buf, i + 1)
  ELSE LET next == [node |-> After(st.node, buf[i]), matched |-> Append(st.matched, buf[i])] IN
       IF next.node # {} /\ Childless(next.node) THEN [st |-> next, end |-> i]
       ELSE IF next.node # {} THEN Match(next, buf, i + 1)
       ELSE IF st.matched # <<>>
       THEN Match(IF Len(st.matched) > 1 THEN Match(Initial, Tail(st.matched), 1).st ELSE Initial, buf, i)
       ELSE Match(st, buf, i + 1)

\* The call after a match begins anew.
Resumed(st) == IF Childless(st.node) THEN Initial ELSE st

\* each_match: all the matches that end in this piece.
RECURSIVE EachMatch(_, _, _)
EachMatch(acc, buf, from) ==
  IF from = Len(buf) THEN acc
  ELSE LET m == Match(Resumed(acc.st), SubSeq(buf, from + 1, Len(buf)), 1)
           to == offset + from + m.end
       IN IF m.end = NoMatch THEN [acc EXCEPT !.st = m.st]
          ELSE EachMatch([st |-> m.st, found |-> Append(acc.found, <<to - Len(m.st.matched), to>>)], buf, from + m.end)

Init ==
  /\ bytes \in Haystacks
  /\ needle \in Needles
  /\ ignoring \in BOOLEAN
  /\ node = Root
  /\ matched = <<>>
  /\ offset = 0
  /\ found = <<>>

\* The next piece of the text, of n bytes.
Read(n) ==
  /\ \E acc \in {EachMatch([st |-> [node |-> node, matched |-> matched], found |-> found], SubSeq(bytes, offset + 1, offset + n), 0)} :
       /\ node' = acc.st.node
       /\ matched' = acc.st.matched
       /\ found' = acc.found
  /\ offset' = offset + n
  /\ UNCHANGED <<bytes, needle, ignoring>>

Next == \E n \in 1..(Len(bytes) - offset) : Read(n)
Spec == Init /\ [][Next]_vars

-----------------------------------------------------------------------------
\* However the text is cut into pieces: what was found is what there is to be
\* found, from left to right, each match behind the one before.
FoundAll ==
  LET seen(i, j) == SelectSeq(SubSeq(bytes, i + 1, j), LAMBDA b : ~White(b))
      there == {m \in (0..offset) \X (0..offset) :
                  m[1] < m[2] /\ ~White(bytes[m[1] + 1]) /\ ~White(bytes[m[2]]) /\ seen(m[1], m[2]) \in Root}
      Scan[i \in 0..offset] ==
        LET at == {m \in there : m[1] >= i} IN
        IF at = {} THEN <<>>
        ELSE LET m == CHOOSE m \in at : \A o \in at : m[1] < o[1] \/ (m[1] = o[1] /\ m[2] <= o[2]) IN <<m>> \o Scan[m[2]]
  IN found = Scan[0]
=============================================================================
