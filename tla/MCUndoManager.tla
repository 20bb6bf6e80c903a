---------------------------- MODULE MCUndoManager ----------------------------
(***************************************************************************)
(* A bounded instance of UndoManager for TLC.  Two groups have any         *)
(* selections, so that they merge or do not; a third one, the number the   *)
(* merge conditions of undo() tell apart, comes with one selection.        *)
(***************************************************************************)
EXTENDS UndoManager, TLC, FiniteSets

CONSTANTS x, sp, s1, s2

MCChars == {x, sp}
MCWhite == {sp}
MCSels  == {s1, s2}
MCStrings == {<<>>, <<x>>, <<sp>>}

SelSymmetry == Permutations(MCSels)

UsedSels == ({preSel, res} \cup {records[i].preSel : i \in DOMAIN records}
               \cup {records[i].postSel : i \in DOMAIN records}) \ {NoSel}

MCNext == Next /\ (nextRevision' <= 3 \/ Cardinality(UsedSels') <= 1)
MCSpec == Init /\ [][MCNext]_vars
=============================================================================
