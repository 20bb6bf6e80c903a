-------------------------- MODULE UndoManagerProofs --------------------------
(***************************************************************************)
(* Proofs about UndoManager, for every set of characters, strings and      *)
(* selections and every bound.                                             *)
(***************************************************************************)
EXTENDS UndoManager, DataLemmas

\* Revision number r was given to text t.
Names(r, t) == r \in DOMAIN content /\ content[r] = t

\* A record that ends a walk (it has the selection to go back to) has the
\* revision number of the text at that end.
RecordsNameRevisions ==
  \A i \in 1..Len(records) :
    /\ records[i].preSel # NoSel => Names(records[i].preRevision, hist[i])
    /\ records[i].postSel # NoSel => Names(records[i].postRevision, hist[i + 1])

\* The first record ends every undo; the last one ends every redo, unless the
\* group it belongs to is still open.
EndsHaveSelections ==
  Len(records) # 0 =>
    /\ records[1].preSel # NoSel
    /\ changes = 0 => records[Len(records)].postSel # NoSel

\* What is known of the open group.
OpenGroupInv ==
  /\ changes # 0 => /\ nesting # 0 /\ mode = "idle" /\ preSel = NoSel
                    /\ index = Len(records) /\ index # 0
  /\ mode # "idle" => nesting = 1
  /\ mode = "idle" /\ changes = 0 => Names(revision, text)
  /\ mode = "idle" /\ changes = 0 /\ nesting # 0 => preSel # NoSel /\ preRevision = revision

\* The revision a finished walk is about to set names the text it has reached.
WalkInv == mode # "idle" /\ res # NoSel => Names(rev, text)

IndInv ==
  /\ TypeOK
  /\ RecordsReplayHistory
  /\ LoopsStayInRecords
  /\ RecordsNameRevisions
  /\ EndsHaveSelections
  /\ OpenGroupInv
  /\ WalkInv

-----------------------------------------------------------------------------
LEMMA InitInv == Init => IndInv
<1> SUFFICES ASSUME Init PROVE IndInv
  OBVIOUS
<1> USE ConstAssumption
<1>1. text \in Str
  BY DEF Init, Str
<1>2. Len(records) = 0 /\ Len(hist) = 1 /\ hist[1] = text /\ Len(content) = 1 /\ content[1] = text
  BY DEF Init
<1>3. TypeOK
  BY <1>1 DEF Init, TypeOK, Unset
<1>4. RecordsReplayHistory
  BY <1>2 DEF Init, RecordsReplayHistory
<1>5. Names(revision, text)
  BY <1>2 DEF Init, Names
<1>6. QED
  BY <1>2, <1>3, <1>4, <1>5
     DEF IndInv, Init, LoopsStayInRecords, RecordsNameRevisions, EndsHaveSelections, OpenGroupInv, WalkInv

\* The strings of a record and the texts around it.
LEMMA RecordFacts ==
  ASSUME IndInv, NEW i \in 1..Len(records)
  PROVE  /\ hist[i] \in Str /\ hist[i + 1] \in Str
         /\ records[i] \in RecordType
         /\ Splice(hist[i], records[i].pos, records[i].pos + Len(records[i].before), records[i].after) = hist[i + 1]
         /\ Splice(hist[i + 1], records[i].pos, records[i].pos + Len(records[i].after), records[i].before) = hist[i]
<1>1. /\ hist[i] \in Str /\ hist[i + 1] \in Str /\ records[i] \in RecordType
  BY DEF IndInv, TypeOK
<1>2. /\ records[i].pos \in Nat /\ records[i].before \in Seq(Chars) /\ records[i].after \in Seq(Chars)
      /\ hist[i] \in Seq(Chars)
  BY <1>1 DEF RecordType, Str
<1>3. /\ records[i].pos + Len(records[i].before) <= Len(hist[i])
      /\ Substr(hist[i], records[i].pos, records[i].pos + Len(records[i].before)) = records[i].before
      /\ hist[i + 1] = Splice(hist[i], records[i].pos, records[i].pos + Len(records[i].before), records[i].after)
  BY DEF IndInv, RecordsReplayHistory
<1>4. Splice(Splice(hist[i], records[i].pos, records[i].pos + Len(records[i].before), records[i].after),
             records[i].pos, records[i].pos + Len(records[i].after), records[i].before) = hist[i]
  BY <1>2, <1>3, SpliceUndoes
<1>5. QED
  BY <1>1, <1>3, <1>4

LEMMA BeginUndoGroupInv ==
  ASSUME IndInv, NEW sel \in Sels, BeginUndoGroup(sel)
  PROVE  IndInv'
<1> USE ConstAssumption
<1> USE DEF BeginUndoGroup, OpenGroup, bufVars, loopVars
<1>1. TypeOK'
  BY DEF IndInv, TypeOK
<1>2. RecordsReplayHistory' /\ LoopsStayInRecords' /\ RecordsNameRevisions' /\ WalkInv'
  BY DEF IndInv, RecordsReplayHistory, LoopsStayInRecords, RecordsNameRevisions, WalkInv, Names
<1>3. EndsHaveSelections'
  BY DEF IndInv, EndsHaveSelections, OpenGroupInv, TypeOK
<1>4. OpenGroupInv'
  BY DEF IndInv, OpenGroupInv, TypeOK, Names
<1>5. QED
  BY <1>1, <1>2, <1>3, <1>4 DEF IndInv

LEMMA EndUndoGroupQuietInv ==
  ASSUME IndInv, EndUndoGroupQuiet
  PROVE  IndInv'
<1> USE DEF EndUndoGroupQuiet, bufVars, loopVars
<1>1. TypeOK'
  BY DEF IndInv, TypeOK
<1>2. RecordsReplayHistory' /\ LoopsStayInRecords' /\ RecordsNameRevisions' /\ WalkInv' /\ EndsHaveSelections'
  BY DEF IndInv, RecordsReplayHistory, LoopsStayInRecords, RecordsNameRevisions, WalkInv, Names, EndsHaveSelections
<1>3. OpenGroupInv'
  BY DEF IndInv, OpenGroupInv, TypeOK, Names
<1>4. QED
  BY <1>1, <1>2, <1>3 DEF IndInv

\* A record only learns two fields it did not have, and the new revision
\* number leaves the old ones alone.
LEMMA EndUndoGroupBumpInv ==
  ASSUME IndInv, NEW sel \in Sels, EndUndoGroupBump(sel)
  PROVE  IndInv'
<1> USE DEF EndUndoGroupBump, loopVars
<1> DEFINE r == Closed(records[index], sel, nextRevision)
<1>1. index = Len(records) /\ index # 0 /\ index \in 1..Len(records) /\ mode = "idle" /\ preSel = NoSel
  BY DEF IndInv, TypeOK, OpenGroupInv
<1>2. records[index] \in RecordType /\ nextRevision \in Nat \ {0} /\ Len(content) = nextRevision - 1
  BY <1>1 DEF IndInv, TypeOK
<1>3. /\ r \in RecordType
      /\ r.pos = records[index].pos /\ r.before = records[index].before /\ r.after = records[index].after
      /\ r.preSel = records[index].preSel /\ r.preRevision = records[index].preRevision
      /\ r.postSel = sel /\ r.postRevision = nextRevision
  BY <1>2 DEF RecordType, Closed
<1>4. /\ records' \in Seq(RecordType)
      /\ Len(records') = Len(records)
      /\ \A i \in 1..Len(records) : records'[i] = IF i = index THEN r ELSE records[i]
  <2>1. records \in Seq(RecordType) /\ records' = [records EXCEPT ![index] = r]
    BY DEF IndInv, TypeOK
  <2> HIDE DEF r
  <2>2. QED
    BY <2>1, <1>1, <1>3, ExceptSeq
<1> HIDE DEF r
<1>5. /\ content' \in Seq(Str)
      /\ Len(content') = nextRevision
      /\ content'[nextRevision] = text
      /\ \A n \in 1..Len(content) : content'[n] = content[n]
  <2>1. content \in Seq(Str) /\ text \in Str
    BY DEF IndInv, TypeOK
  <2>2. QED
    BY <2>1, <1>2
<1>6. DOMAIN content = 1..Len(content) /\ DOMAIN content' = 1..Len(content')
  BY <1>5 DEF IndInv, TypeOK
<1>13. Names(revision, text)' /\ \A t, n : Names(n, t) => Names(n, t)'
  BY <1>2, <1>5, <1>6 DEF Names
<1>14. TypeOK'
  BY <1>1, <1>2, <1>4, <1>5 DEF IndInv, TypeOK
<1>7. RecordsReplayHistory'
  BY <1>1, <1>3, <1>4 DEF IndInv, RecordsReplayHistory
<1>8. LoopsStayInRecords' /\ WalkInv'
  BY <1>1 DEF IndInv, LoopsStayInRecords, WalkInv
<1>9. RecordsNameRevisions'
  <2> SUFFICES ASSUME NEW i \in 1..Len(records)
               PROVE  /\ records'[i].preSel # NoSel => Names(records[i].preRevision, hist[i])'
                      /\ records'[i].postSel # NoSel => Names(records[i].postRevision, hist[i + 1])'
    BY <1>4 DEF RecordsNameRevisions
  <2>1. /\ records[i].preSel # NoSel => Names(records[i].preRevision, hist[i])
        /\ records[i].postSel # NoSel => Names(records[i].postRevision, hist[i + 1])
    BY DEF IndInv, RecordsNameRevisions
  <2>2. CASE i = index
    <3>1. hist[i + 1] = text
      BY <2>2 DEF IndInv, RecordsReplayHistory
    <3>2. QED
      BY <1>3, <1>4, <1>13, <2>1, <2>2, <3>1 DEF Names
  <2>3. CASE i # index
    BY <1>4, <1>13, <2>1, <2>3 DEF Names
  <2>4. QED
    BY <2>2, <2>3
<1>10. EndsHaveSelections'
  BY <1>1, <1>3, <1>4, ConstAssumption DEF IndInv, EndsHaveSelections, TypeOK
<1>11. OpenGroupInv'
  BY <1>1, <1>13 DEF OpenGroupInv, Names
<1>12. QED
  BY <1>14, <1>7, <1>8, <1>9, <1>10, <1>11 DEF IndInv

LEMMA ReplaceInv ==
  ASSUME IndInv, NEW from \in 0..MaxLen, NEW to \in 0..MaxLen, NEW s \in Strings, Replace(from, to, s)
  PROVE  IndInv'
<1> USE DEF Replace, loopVars
<1> DEFINE r == Record(from, Substr(text, from, to), s, preSel, preRevision)
<1>1. /\ from \in Nat /\ to \in Nat /\ from <= to /\ to <= Len(text)
      /\ s \in Seq(Chars) /\ text \in Seq(Chars) /\ index \in 0..Len(records)
  BY ConstAssumption DEF IndInv, TypeOK, Str
<1>2. Substr(text, from, to) \in Seq(Chars) /\ Len(Substr(text, from, to)) = to - from
  BY <1>1, SubstrFacts
<1>3. text' \in Seq(Chars)
  BY <1>1, SpliceFacts
<1>4. /\ r \in RecordType
      /\ r.pos = from /\ r.before = Substr(text, from, to) /\ r.after = s
      /\ r.preSel = preSel /\ r.preRevision = preRevision /\ r.postSel = NoSel
  BY <1>1, <1>2 DEF Record, RecordType, Str, Unset, IndInv, TypeOK
<1>5. /\ records' \in Seq(RecordType)
      /\ Len(records') = index + 1
      /\ \A i \in 1..index : records'[i] = records[i]
      /\ records'[index + 1] = r
  <2>1. records \in Seq(RecordType)
    BY DEF IndInv, TypeOK
  <2>2. records' = Append(SubSeq(records, 1, index), r)
    OBVIOUS
  <2> HIDE DEF r
  <2>3. QED
    BY SMTT(30), <1>1, <1>4, <2>1, <2>2, CutAppend
<1> HIDE DEF r
<1>6. /\ hist' \in Seq(Str)
      /\ Len(hist') = index + 2
      /\ \A i \in 1..(index + 1) : hist'[i] = hist[i]
      /\ hist'[index + 2] = text'
  <2>1. hist \in Seq(Str) /\ index + 1 \in 0..Len(hist) /\ text' \in Str
    BY <1>1, <1>3 DEF IndInv, TypeOK, Str
  <2>2. hist' = Append(SubSeq(hist, 1, index + 1), text')
    OBVIOUS
  <2>3. (index + 1) + 1 = index + 2
    BY <1>1
  <2>4. QED
    BY SMTT(30), <2>1, <2>2, <2>3, CutAppend
<1>7. hist[index + 1] = text
  BY DEF IndInv, RecordsReplayHistory
<1>8. TypeOK'
  BY SMTT(30), <1>1, <1>3, <1>5, <1>6 DEF IndInv, TypeOK, Str
<1>9. RecordsReplayHistory'
  <2>1. text' = hist'[index' + 1]
    BY <1>1, <1>6
  <2>2. ASSUME NEW i \in 1..Len(records')
        PROVE  /\ records'[i].pos + Len(records'[i].before) <= Len(hist'[i])
               /\ Substr(hist'[i], records'[i].pos, records'[i].pos + Len(records'[i].before)) = records'[i].before
               /\ hist'[i + 1] = Splice(hist'[i], records'[i].pos, records'[i].pos + Len(records'[i].before), records'[i].after)
    <3>1. CASE i \in 1..index
      <4>1. i \in 1..(index + 1) /\ i + 1 \in 1..(index + 1) /\ i \in 1..Len(records)
        BY <3>1, <1>1
      <4>2. records'[i] = records[i] /\ hist'[i] = hist[i] /\ hist'[i + 1] = hist[i + 1]
        BY <3>1, <4>1, <1>5, <1>6
      <4>3. QED
        BY <4>1, <4>2 DEF IndInv, RecordsReplayHistory
    <3>2. CASE i = index + 1
      <4>1. records'[i] = r /\ hist'[i] = text /\ hist'[i + 1] = Splice(text, from, to, s)
        BY <3>2, <1>1, <1>5, <1>6, <1>7
      <4>2. from + Len(r.before) = to
        BY <1>1, <1>2, <1>4
      <4>3. QED
        BY <4>1, <4>2, <1>1, <1>4
    <3>3. QED
      BY <3>1, <3>2, <1>1, <1>5
  <2>3. QED
    BY <2>1, <2>2 DEF RecordsReplayHistory
<1>10. LoopsStayInRecords' /\ WalkInv'
  BY DEF LoopsStayInRecords, WalkInv
<1>11. RecordsNameRevisions'
  <2>1. \A t, n : Names(n, t)' <=> Names(n, t)
    BY DEF Names
  <2> SUFFICES ASSUME NEW i \in 1..Len(records')
               PROVE  /\ records'[i].preSel # NoSel => Names(records[i].preRevision, hist[i])'
                      /\ records'[i].postSel # NoSel => Names(records[i].postRevision, hist[i + 1])'
    BY DEF RecordsNameRevisions
  <2>2. CASE i \in 1..index
    <3>4. i \in 1..(index + 1) /\ i + 1 \in 1..(index + 1) /\ i \in 1..Len(records)
      BY <2>2, <1>1
    <3>1. records'[i] = records[i] /\ hist'[i] = hist[i] /\ hist'[i + 1] = hist[i + 1]
      BY <2>2, <3>4, <1>5, <1>6
    <3>2. /\ records[i].preSel # NoSel => Names(records[i].preRevision, hist[i])
          /\ records[i].postSel # NoSel => Names(records[i].postRevision, hist[i + 1])
      BY <3>4 DEF IndInv, RecordsNameRevisions
    <3>3. QED
      BY <3>1, <3>2 DEF Names
  <2>3. CASE i = index + 1
    <3>1. records'[i] = r /\ hist'[i] = text
      BY <2>3, <1>1, <1>5, <1>6, <1>7
    <3>2. preSel # NoSel => Names(preRevision, text)
      BY DEF IndInv, OpenGroupInv, TypeOK
    <3>3. QED
      BY <3>1, <3>2, <1>4 DEF Names
  <2>4. QED
    BY <2>2, <2>3, <1>1, <1>5
<1>12. EndsHaveSelections'
  <2>1. changes' # 0 /\ Len(records') # 0
    BY <1>1, <1>5 DEF IndInv, TypeOK
  <2>2. records'[1].preSel # NoSel
    <3>1. CASE index = 0
      BY <3>1, <1>4, <1>5 DEF IndInv, OpenGroupInv, TypeOK
    <3>2. CASE index # 0
      <4>1. records'[1] = records[1] /\ Len(records) # 0
        BY <3>2, <1>1, <1>5
      <4>2. QED
        BY <4>1 DEF IndInv, EndsHaveSelections
    <3>3. QED
      BY <3>1, <3>2
  <2>3. QED
    BY <2>1, <2>2 DEF EndsHaveSelections
<1>13. OpenGroupInv'
  BY <1>1, <1>5 DEF IndInv, OpenGroupInv, TypeOK
<1>14. QED
  BY <1>8, <1>9, <1>10, <1>11, <1>12, <1>13 DEF IndInv

LEMMA StartInv ==
  ASSUME IndInv, NEW sel \in Sels, StartUndo(sel) \/ StartRedo(sel)
  PROVE  IndInv'
<1> USE ConstAssumption
<1> USE DEF StartUndo, StartRedo, OpenGroup, CanUndo, CanRedo, bufVars
<1>1. TypeOK'
  BY DEF IndInv, TypeOK, Unset
<1>2. RecordsReplayHistory' /\ LoopsStayInRecords' /\ RecordsNameRevisions' /\ WalkInv'
  BY DEF IndInv, RecordsReplayHistory, LoopsStayInRecords, RecordsNameRevisions, WalkInv, Names
<1>3. EndsHaveSelections'
  BY DEF IndInv, EndsHaveSelections, OpenGroupInv, TypeOK
<1>4. OpenGroupInv'
  BY DEF IndInv, OpenGroupInv, TypeOK, Names
<1>5. QED
  BY <1>1, <1>2, <1>3, <1>4 DEF IndInv

LEMMA UndoStepInv ==
  ASSUME IndInv, UndoStep
  PROVE  IndInv'
<1> USE DEF UndoStep, groupVars
<1>1. /\ index \in 1..Len(records) /\ index' = index - 1 /\ index' \in 0..Len(records)
      /\ changes = 0 /\ nesting = 1 /\ mode' = "undo"
  BY DEF IndInv, TypeOK, OpenGroupInv
<1>2. text = hist[index + 1]
  BY DEF IndInv, RecordsReplayHistory
<1>3. text' = hist[index] /\ text' \in Str /\ records[index] \in RecordType
  BY <1>1, <1>2, RecordFacts
<1>4. res' = NoSel \/ res' = records[index].preSel
  OBVIOUS
<1>5. res' \in Sels \cup {NoSel} /\ rev' = records[index].preRevision /\ rev' \in Nat
  BY <1>3, <1>4 DEF RecordType
<1>6. TypeOK'
  BY <1>1, <1>3, <1>5 DEF IndInv, TypeOK
<1>7. RecordsReplayHistory' /\ RecordsNameRevisions' /\ EndsHaveSelections'
  <2>1. text' = hist'[index' + 1]
    BY <1>1, <1>3
  <2>2. UNCHANGED <<records, hist, content, changes>>
    OBVIOUS
  <2>3. QED
    BY <2>1, <2>2 DEF IndInv, RecordsReplayHistory, RecordsNameRevisions, EndsHaveSelections, Names
<1>8. LoopsStayInRecords'
  <2> SUFFICES ASSUME res' = NoSel PROVE index # 1
    BY <1>1 DEF LoopsStayInRecords
  <2>1. CASE UndoMerges(index)
    BY <2>1 DEF UndoMerges
  <2>2. CASE ~UndoMerges(index)
    BY <2>2, <1>1 DEF IndInv, EndsHaveSelections
  <2>3. QED
    BY <2>1, <2>2
<1>9. WalkInv'
  <2> SUFFICES ASSUME res' # NoSel PROVE Names(records[index].preRevision, hist[index])
    BY <1>3, <1>5 DEF WalkInv, Names
  <2>1. QED
    BY <1>1, <1>4 DEF IndInv, RecordsNameRevisions
<1>10. OpenGroupInv'
  BY <1>1 DEF IndInv, OpenGroupInv
<1>11. QED
  BY <1>6, <1>7, <1>8, <1>9, <1>10 DEF IndInv

LEMMA RedoStepInv ==
  ASSUME IndInv, RedoStep
  PROVE  IndInv'
<1> USE DEF RedoStep, groupVars
<1> DEFINE k == index + 1
<1>1. /\ k \in 1..Len(records) /\ index' = k /\ k \in 0..Len(records)
      /\ changes = 0 /\ nesting = 1 /\ mode' = "redo"
  BY DEF IndInv, TypeOK, OpenGroupInv
<1>2. text = hist[k]
  BY DEF IndInv, RecordsReplayHistory
<1>3. text' = hist[k + 1] /\ text' \in Str /\ records[k] \in RecordType
  BY <1>1, <1>2, RecordFacts
<1>4. res' = NoSel \/ res' = records[k].postSel
  OBVIOUS
<1>5. res' \in Sels \cup {NoSel} /\ rev' = records[k].postRevision /\ rev' \in Nat
  BY <1>3, <1>4 DEF RecordType
<1>6. TypeOK'
  BY <1>1, <1>3, <1>5 DEF IndInv, TypeOK
<1>7. RecordsReplayHistory' /\ RecordsNameRevisions' /\ EndsHaveSelections'
  <2>1. text' = hist'[index' + 1]
    BY <1>1, <1>3
  <2>2. UNCHANGED <<records, hist, content, changes>>
    OBVIOUS
  <2>3. QED
    BY <2>1, <2>2 DEF IndInv, RecordsReplayHistory, RecordsNameRevisions, EndsHaveSelections, Names
<1>8. LoopsStayInRecords'
  <2> SUFFICES ASSUME res' = NoSel PROVE k # Len(records)
    BY <1>1 DEF LoopsStayInRecords
  <2>1. CASE RedoMerges(k)
    BY <2>1 DEF RedoMerges
  <2>2. CASE ~RedoMerges(k)
    BY <2>2, <1>1 DEF IndInv, EndsHaveSelections
  <2>3. QED
    BY <2>1, <2>2
<1>9. WalkInv'
  <2> SUFFICES ASSUME res' # NoSel PROVE Names(records[k].postRevision, hist[k + 1])
    BY <1>3, <1>5 DEF WalkInv, Names
  <2>1. QED
    BY <1>1, <1>4 DEF IndInv, RecordsNameRevisions
<1>10. OpenGroupInv'
  BY <1>1 DEF IndInv, OpenGroupInv
<1>11. QED
  BY <1>6, <1>7, <1>8, <1>9, <1>10 DEF IndInv

LEMMA FinishLoopInv ==
  ASSUME IndInv, FinishLoop
  PROVE  IndInv'
<1> USE DEF FinishLoop
<1>1. Names(rev, text) /\ nesting = 1
  BY DEF IndInv, WalkInv, OpenGroupInv
<1>2. Names(revision, text)' /\ revision' \in Nat \ {0}
  BY <1>1 DEF Names, IndInv, TypeOK
<1>3. TypeOK'
  BY <1>1, <1>2 DEF IndInv, TypeOK, Unset
<1>4. RecordsReplayHistory' /\ LoopsStayInRecords' /\ RecordsNameRevisions' /\ WalkInv'
  BY DEF IndInv, RecordsReplayHistory, LoopsStayInRecords, RecordsNameRevisions, WalkInv, Names
<1>5. EndsHaveSelections'
  BY DEF IndInv, EndsHaveSelections, OpenGroupInv
<1>6. OpenGroupInv'
  BY <1>1, <1>2 DEF OpenGroupInv
<1>7. QED
  BY <1>3, <1>4, <1>5, <1>6 DEF IndInv

LEMMA StutterInv ==
  ASSUME IndInv, UNCHANGED vars
  PROVE  IndInv'
<1> USE DEF vars, bufVars, groupVars, loopVars
<1>1. TypeOK' /\ RecordsReplayHistory' /\ LoopsStayInRecords'
  BY DEF IndInv, TypeOK, RecordsReplayHistory, LoopsStayInRecords
<1>2. RecordsNameRevisions' /\ EndsHaveSelections' /\ OpenGroupInv' /\ WalkInv'
  BY DEF IndInv, RecordsNameRevisions, EndsHaveSelections, OpenGroupInv, WalkInv, Names
<1>3. QED
  BY <1>1, <1>2 DEF IndInv

LEMMA NextInv == IndInv /\ [Next]_vars => IndInv'
<1> SUFFICES ASSUME IndInv, [Next]_vars PROVE IndInv'
  OBVIOUS
<1>1. CASE \E sel \in Sels : BeginUndoGroup(sel) \/ EndUndoGroupBump(sel)
  BY <1>1, BeginUndoGroupInv, EndUndoGroupBumpInv
<1>2. CASE EndUndoGroupQuiet
  BY <1>2, EndUndoGroupQuietInv
<1>3. CASE \E from, to \in 0..MaxLen, s \in Strings : Replace(from, to, s)
  BY <1>3, ReplaceInv
<1>4. CASE \E sel \in Sels : StartUndo(sel) \/ StartRedo(sel)
  BY <1>4, StartInv
<1>5. CASE UndoStep
  BY <1>5, UndoStepInv
<1>6. CASE RedoStep
  BY <1>6, RedoStepInv
<1>7. CASE FinishLoop
  BY <1>7, FinishLoopInv
<1>8. CASE UNCHANGED vars
  BY <1>8, StutterInv
<1>9. QED
  BY <1>1, <1>2, <1>3, <1>4, <1>5, <1>6, <1>7, <1>8 DEF Next

LEMMA Inductive == Spec => []IndInv
BY InitInv, NextInv, PTL DEF Spec

-----------------------------------------------------------------------------
\* Type correctness.
THEOREM TypeCorrect == Spec => []TypeOK
<1>1. IndInv => TypeOK
  BY DEF IndInv
<1>2. QED
  BY <1>1, Inductive, PTL

\* The undo records always replay the history they were made from, also
\* between two steps of an undo or a redo (undo.cc, will_replace).
THEOREM RecordsReplay == Spec => []RecordsReplayHistory
<1>1. IndInv => RecordsReplayHistory
  BY DEF IndInv
<1>2. QED
  BY <1>1, Inductive, PTL

\* The assertions at the heads of the loops of undo() and redo().
THEOREM LoopsStay == Spec => []LoopsStayInRecords
<1>1. IndInv => LoopsStayInRecords
  BY DEF IndInv
<1>2. QED
  BY <1>1, Inductive, PTL

\* Between editing actions the buffer's revision number names its text, so a
\* comparison of revision numbers is a comparison of texts.
THEOREM RevisionIdentifies == Spec => []RevisionIdentifiesText
<1>1. IndInv => RevisionIdentifiesText
  BY DEF IndInv, RevisionIdentifiesText, Quiescent, OpenGroupInv, Names
<1>2. QED
  BY <1>1, Inductive, PTL

-----------------------------------------------------------------------------
LEMMA InitRefines == Init => History!Init
BY ConstAssumption DEF Init, History!Init, Quiescent, Str

\* Every step of the undo manager is a step of RevisionHistory or a stutter.
LEMMA NextRefines ==
  ASSUME IndInv, IndInv', [Next]_vars
  PROVE  [History!Next]_(History!vars)
<1>1. text' \in Str /\ text \in Str
  BY DEF IndInv, TypeOK
<1>2. (Quiescent => Names(revision, text)) /\ (Quiescent => Names(revision, text))'
  BY DEF IndInv, OpenGroupInv, Quiescent
<1>3. ASSUME UNCHANGED <<revision, content>>, ~Quiescent' PROVE History!Touch
  BY <1>1, <1>3 DEF History!Touch
<1>4. ASSUME UNCHANGED <<text, content>>, ~Quiescent, Quiescent' PROVE History!Return
  BY <1>2, <1>4 DEF History!Return, Names
<1>5. CASE \E sel \in Sels : BeginUndoGroup(sel)
  BY <1>5, <1>3 DEF BeginUndoGroup, OpenGroup, Quiescent, bufVars, loopVars, IndInv, TypeOK, History!Next
<1>6. CASE \E sel \in Sels : EndUndoGroupBump(sel)
  <2>1. ~Quiescent /\ Quiescent'
    BY <1>6 DEF EndUndoGroupBump, Quiescent, loopVars
  <2>2. content' = Append(content, text) /\ revision' = nextRevision /\ text' = text
    BY <1>6 DEF EndUndoGroupBump
  <2>3. Len(content') = nextRevision
    <3>1. content \in Seq(Str) /\ Len(content) = nextRevision - 1 /\ nextRevision \in Nat
      BY DEF IndInv, TypeOK
    <3>2. QED
      BY <1>1, <2>2, <3>1
  <2>4. QED
    BY <2>1, <2>2, <2>3 DEF History!Next, History!Commit
<1>7. CASE EndUndoGroupQuiet
  <2>1. UNCHANGED <<text, revision, content>> /\ ~Quiescent
    BY <1>7 DEF EndUndoGroupQuiet, Quiescent, bufVars, IndInv, TypeOK
  <2>2. QED
    BY <2>1, <1>3, <1>4 DEF History!Next
<1>8. CASE \E from, to \in 0..MaxLen, s \in Strings : Replace(from, to, s)
  BY <1>8, <1>3 DEF Replace, Quiescent, History!Next
<1>9. CASE \E sel \in Sels : StartUndo(sel) \/ StartRedo(sel)
  BY <1>9, <1>3 DEF StartUndo, StartRedo, bufVars, Quiescent, History!Next
<1>10. CASE UndoStep \/ RedoStep
  BY <1>10, <1>3 DEF UndoStep, RedoStep, Quiescent, History!Next
<1>11. CASE FinishLoop
  BY <1>11, <1>4 DEF FinishLoop, Quiescent, History!Next, IndInv, OpenGroupInv
<1>12. CASE UNCHANGED vars
  BY <1>12 DEF vars, bufVars, groupVars, loopVars, History!vars, Quiescent
<1>13. QED
  BY <1>3, <1>5, <1>6, <1>7, <1>8, <1>9, <1>10, <1>11, <1>12 DEF Next, History!Next

\* The undo manager implements RevisionHistory: it never gives a revision
\* number to two texts, and undo and redo only go back to known revisions.
THEOREM Refines == Spec => KeepsRevisionHistory
<1>1. Spec => []IndInv
  BY Inductive
<1>2. IndInv /\ IndInv' /\ [Next]_vars => [History!Next]_(History!vars)
  BY NextRefines
<1>3. QED
  BY <1>1, <1>2, InitRefines, PTL DEF Spec, KeepsRevisionHistory, History!Spec
=============================================================================
