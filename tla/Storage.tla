------------------------------- MODULE Storage -------------------------------
(***************************************************************************)
(* ng::detail::storage_t, the text of a buffer, and buffer_t::replace that *)
(* edits it.  The text is a sequence of nodes; a node is a part of a block *)
(* of memory that other nodes, and the nodes of a copy, may refer to.      *)
(* Typing appends to a block in place.  A copy (the document's snapshot,   *)
(* which is the common original of a merge) copies the nodes only.         *)
(*                                                                         *)
(* `text' and `copied' are not in the code: the text that the edits made,  *)
(* and what it was when the copy was taken.                                *)
(***************************************************************************)
EXTENDS TextTrim, IndexedMap, SequencesExt

CONSTANTS Chars, NL,
  Blocks,   \* identities of allocated blocks
  Room,     \* what malloc gives more than was asked for: 15 bytes or more
  MaxInsert, MaxSize, MaxEdits   \* bound a run: what an edit inserts, the text, and the edits

ASSUME ConstAssumption == IsFiniteSet(Blocks) /\ Room \in Nat

VARIABLES
  memory,     \* block -> [bytes, room]: its bytes, and how many may be appended
  nodes,      \* of the buffer: <<[block, offset, key], ...>>
  hardlines,  \* of the buffer: where its newlines are
  snapshot,   \* the nodes of the copy
  text, copied,
  edits       \* bounds a run

vars == <<memory, nodes, hardlines, snapshot, text, copied, edits>>

Free == [bytes |-> <<>>, room |-> 0]

\* memory_t::bytes to the end of the node, and substr of the whole storage.
Bytes(n) == SubSeq(memory[n.block].bytes, n.offset + 1, n.offset + n.key)
Content(ns) == FlattenSeq([i \in DOMAIN ns |-> Bytes(ns[i])])

\* The tree knows at which offset each node ends.
Ends(ns) ==
  LET e[i \in 0..Len(ns)] == IF i = 0 THEN 0 ELSE e[i - 1] + ns[i].key IN e

\* find_pos and split_at: the nodes before and after a position.
Split(ns, pos) ==
  LET e   == Ends(ns)
      k   == Max({i \in 0..Len(ns) : e[i] <= pos})
      cut == pos - e[k]
  IN IF cut = 0 THEN [left |-> SubSeq(ns, 1, k), right |-> SubSeq(ns, k + 1, Len(ns))]
     ELSE [left  |-> Append(SubSeq(ns, 1, k), [ns[k + 1] EXCEPT !.key = cut]),
           right |-> <<[ns[k + 1] EXCEPT !.offset = @ + cut, !.key = @ - cut]>> \o SubSeq(ns, k + 2, Len(ns))]

Erase(ns, first, last) == Split(ns, first).left \o Split(ns, last).right

\* Mutant: the end of the node need not be the end of its block.
MayAppendAnywhere(n, length) == length <= memory[n.block].room

\* insert may append to the node before the position.
MayAppend(n, length) ==
  /\ n.key = Len(memory[n.block].bytes) - n.offset
  /\ length <= memory[n.block].room

Used(ns) == {ns[i].block : i \in DOMAIN ns}

\* The last of the nodes, and its block, with the bytes s appended to them.
Grown(ns, s) == [ns EXCEPT ![Len(ns)].key = @ + Len(s)]
Written(mem, n, s) == [mem EXCEPT ![n.block] = [bytes |-> @.bytes \o s, room |-> @.room - Len(s)]]

\* A block that nobody refers to is freed.
Freed(mem, used) == [b \in Blocks |-> IF b \in used THEN mem[b] ELSE Free]
Becomes(ns, mem) == nodes' = ns /\ memory' = Freed(mem, Used(ns) \cup Used(snapshot))

Insert(ns, pos, s) ==
  LET left  == Split(ns, pos).left
      right == Split(ns, pos).right
      last  == left[Len(left)]
      block == CHOOSE b \in Blocks : b \notin Used(ns) \cup Used(snapshot)
  IN /\ Cardinality(Used(ns) \cup Used(snapshot)) < Cardinality(Blocks)
     /\ IF s = <<>> THEN Becomes(ns, memory)
        ELSE IF left # <<>> /\ MayAppend(last, Len(s)) THEN Becomes(Grown(left, s) \o right, Written(memory, last, s))
        ELSE Becomes(Append(left, [block |-> block, offset |-> 0, key |-> Len(s)]) \o right,
                     [memory EXCEPT ![block] = [bytes |-> s, room |-> Room]])

ActualReplace(from, to, s) ==
  /\ Insert(Erase(nodes, from, to), from, s)
  /\ hardlines' = [i \in {from + k - 1 : k \in {j \in DOMAIN s : s[j] = NL}}
                          \cup DOMAIN Replace(hardlines, from, to, Len(s), TRUE) |-> TRUE]

-----------------------------------------------------------------------------
Init ==
  /\ memory = [b \in Blocks |-> Free] /\ nodes = <<>> /\ hardlines = NoKeys
  /\ snapshot = <<>> /\ text = <<>> /\ copied = <<>>
  /\ edits = 0

BufferReplace(from, to, s) ==
  LET old   == SubSeq(Content(nodes), from + 1, to)
      left  == CommonPrefix(old, s)
      right == CommonSuffix(old, s, left)
  IN /\ ActualReplace(from + left, to - right, SubSeq(s, left + 1, Len(s) - right))
     /\ text' = Splice(text, from, to, s)
     /\ edits' = edits + 1
     /\ UNCHANGED <<snapshot, copied>>

TakeSnapshot ==
  /\ snapshot' = nodes /\ copied' = text
  /\ memory' = Freed(memory, Used(nodes))
  /\ UNCHANGED <<nodes, hardlines, text, edits>>

Next ==
  \/ \E from, to \in 0..Len(text), s \in SeqOf(Chars, MaxInsert) :
       /\ edits < MaxEdits
       /\ from <= to /\ Len(text) - (to - from) + Len(s) <= MaxSize
       /\ BufferReplace(from, to, s)
  \/ TakeSnapshot

Spec == Init /\ [][Next]_vars

-----------------------------------------------------------------------------
\* However blocks are shared and appended to, the buffer and the copy have the
\* text that the edits gave them, and no edit of the buffer shows in the copy; a
\* position is a line's last one exactly if the text has a newline there.
ReadsAsText ==
  /\ Content(nodes) = text /\ Content(snapshot) = copied
  /\ DOMAIN hardlines = {i \in 0..Len(text) - 1 : text[i + 1] = NL}
=============================================================================
