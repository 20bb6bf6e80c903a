---------------------------- MODULE DocumentProofs ----------------------------
(***************************************************************************)
(* However many clients load, save and close a document, and whatever      *)
(* fails, its open count is accounted for, and the file system is observed *)
(* only while the document is loaded and open.  If the user waits for a    *)
(* save to finish, a document that says it is not edited is as its file,   *)
(* imports keep his changes, and a crash does not cost unsaved text.       *)
(***************************************************************************)
EXTENDS MCDocument, TLAPS, SequenceTheorems

\* The open count is accounted for, and a save or an open undo group
\* implies that the document is loaded.
IndInv == TypeOK /\ OpensAreOwed /\ ObservedIsOpen /\ (saves # <<>> \/ group => loaded)

-----------------------------------------------------------------------------
LEMMA Removed ==
  ASSUME NEW S, NEW s \in Seq(S), NEW i \in 1..Len(s)
  PROVE  RemoveAt(s, i) \in Seq(S) /\ Len(RemoveAt(s, i)) = Len(s) - 1
<1> DEFINE before == SubSeq(s, 1, i - 1)
           after  == SubSeq(s, i + 1, Len(s))
<1>1. before \in Seq(S) /\ Len(before) = i - 1
  BY SubSeqProperties
<1>2. after \in Seq(S) /\ Len(after) = Len(s) - i
  BY SubSeqProperties
<1>3. RemoveAt(s, i) = before \o after
  BY Zenon DEF RemoveAt
<1>4. Len(s) \in Nat /\ i \in Int
  BY LenProperties
<1> HIDE DEF before, after
<1>5. (before \o after) \in Seq(S) /\ Len(before \o after) = Len(before) + Len(after)
  BY <1>1, <1>2, ConcatProperties, Zenon
<1>6. Len(before) + Len(after) = Len(s) - 1
  BY <1>1, <1>2, <1>4
<1> QED  BY <1>3, <1>5, <1>6, Zenon

LEMMA Appended ==
  ASSUME NEW S, NEW s \in Seq(S), NEW e \in S
  PROVE  Append(s, e) \in Seq(S) /\ Append(s, e) # <<>> /\ Len(Append(s, e)) = Len(s) + 1
BY AppendProperties

LEMMA Singleton ==
  ASSUME NEW S, NEW e \in S
  PROVE  <<e>> \in Seq(S) /\ <<e>> # <<>>
OBVIOUS

LEMMA Replaced ==
  ASSUME NEW S, NEW s \in Seq(S), NEW i \in 1..Len(s), NEW e \in S
  PROVE  [s EXCEPT ![i] = e] \in Seq(S) /\ Len([s EXCEPT ![i] = e]) = Len(s)
BY ExceptSeq

LEMMA FrontOf ==
  ASSUME NEW S, NEW s \in Seq(S), s # <<>>
  PROVE  /\ Front(s) \in Seq(S) /\ Len(Front(s)) = Len(s) - 1
         /\ \A k \in 1..(Len(s) - 1) : Front(s)[k] = s[k]
         /\ Len(s) \in Nat \ {0} /\ Last(s) = s[Len(s)]
<1>1. Len(s) \in Nat \ {0}
  BY LenProperties, EmptySeq
<1>2. Front(s) = SubSeq(s, 1, Len(s) - 1) /\ Last(s) = s[Len(s)]
  BY Zenon DEF Front, Last
<1>3. /\ SubSeq(s, 1, Len(s) - 1) \in Seq(S) /\ Len(SubSeq(s, 1, Len(s) - 1)) = Len(s) - 1
      /\ \A k \in 1..(Len(s) - 1) : SubSeq(s, 1, Len(s) - 1)[k] = s[k]
  <2> DEFINE n == Len(s) - 1
  <2>1. n \in Nat /\ \A k \in 1..n : s[k] \in S
    BY <1>1, ElementOfSeq
  <2> HIDE DEF n
  <2>2. (n - 1 + 1) = n /\ (1 <= n \/ n = 0) /\ \A k \in 1..n : 1 + k - 1 = k
    <3>1. n \in Nat
      BY <2>1
    <3> QED  BY <3>1
  <2>3. /\ SubSeq(s, 1, n) \in Seq(S) /\ Len(SubSeq(s, 1, n)) = IF 1 <= n THEN n - 1 + 1 ELSE 0
        /\ \A k \in 1..(n - 1 + 1) : SubSeq(s, 1, n)[k] = s[1 + k - 1]
    BY <2>1, SubSeqProperties
  <2>4. Len(SubSeq(s, 1, n)) = n
    BY <2>2, <2>3
  <2>5. \A k \in 1..n : SubSeq(s, 1, n)[k] = s[k]
    BY <2>2, <2>3
  <2> QED  BY <2>3, <2>4, <2>5 DEF n
<1> QED  BY <1>1, <1>2, <1>3, Zenon

LEMMA Booleans == Edited \in BOOLEAN /\ NeedsBackup \in BOOLEAN
BY Zenon DEF Edited, NeedsBackup

\* An import that starts, or may.
LEMMA NewIsImport ==
  ASSUME NEW outer \in Nat, NEW then \in {"nothing", "marks", "equals", "differs"}
  PROVE  NewImport(outer, then) \in Imports
BY DEF NewImport, Imports, Reads

LEMMA ImportStarts ==
  ASSUME imports \in Seq(Imports), StartImport \/ ImportIfNeeded
  PROVE  imports' \in Seq(Imports)
<1>1. CASE StartImport
  BY <1>1, Appended, NewIsImport DEF StartImport
<1>2. CASE UNCHANGED imports
  BY <1>2
<1> QED  BY <1>1, <1>2 DEF ImportIfNeeded

\* The text that an import has read.
LEMMA ReadIsText ==
  ASSUME imports \in Seq(Imports), NEW i \in DOMAIN imports, IsText(imports[i].read)
  PROVE  imports[i].read \in Text
<1>1. imports[i] \in Imports
  BY ElementOfSeq, LenProperties
<1> QED  BY <1>1 DEF Imports, Reads, IsText

\* What the steps of an import make of the stack of run loops.
LEMMA ImportChanges ==
  ASSUME imports \in Seq(Imports), disk \in SomeText,
         (\E i \in DOMAIN imports : ImportReads(i) \/ ImportNeverStops(i) \/ ImportReturns(i)) \/ ImportStops
  PROVE  imports' \in Seq(Imports)
<1>0. imports \in Seq(Imports) /\ DOMAIN imports = 1..Len(imports) /\ Len(imports) \in Nat
  BY LenProperties
<1>1. ASSUME NEW i \in DOMAIN imports, NEW st \in {"suspended", "stopped", "stuck"}
      PROVE  imports[i] \in Imports /\ Leaves(i, st) \in Imports /\ i \in Nat
  <2>1. imports[i] \in Imports
    BY <1>0, ElementOfSeq
  <2>2. Leaves(i, st) = [imports[i] EXCEPT !.read = Unread, !.state = st] /\ Unread \in Reads /\ i \in Nat
    BY <1>0 DEF Leaves, Reads
  <2> QED  BY <2>1, <2>2 DEF Imports
<1>2. CASE \E i \in DOMAIN imports : ImportReads(i)
  <2>0. Content \in Text
    BY DEF Content, SomeText, Text
  <2>1. PICK i \in DOMAIN imports : ImportReads(i)
    BY <1>2
  <2>2. PICK t \in {Content, Failed} : imports' = [imports EXCEPT ![i].read = t]
    BY <2>1 DEF ImportReads
  <2>3. [imports[i] EXCEPT !.read = t] \in Imports
    BY <2>0, <1>1 DEF Imports, Reads
  <2>4. imports' = [imports EXCEPT ![i] = [imports[i] EXCEPT !.read = t]]
    BY <2>2
  <2> QED  BY <1>0, <2>3, <2>4, ExceptSeq
<1>3. CASE \E i \in DOMAIN imports : ImportNeverStops(i)
  <2>1. PICK i \in DOMAIN imports : imports' = [imports EXCEPT ![i] = Leaves(i, "stuck")]
    BY <1>3 DEF ImportNeverStops
  <2> QED  BY <1>0, <1>1, <2>1, ExceptSeq
<1>4. CASE \E i \in DOMAIN imports : ImportReturns(i)
  <2>1. PICK i \in DOMAIN imports : ImportReturns(i)
    BY <1>4
  <2>2. Stop(i) \/ \E then \in {"marks", "equals", "differs"} : RunAnother(i, then)
    BY <2>1 DEF ImportReturns
  <2>3. CASE Stop(i)
    BY <1>0, <1>1, <2>3, ExceptSeq DEF Stop
  <2>4. CASE \E then \in {"marks", "equals", "differs"} : RunAnother(i, then)
    <3>1. PICK then \in {"marks", "equals", "differs"} :
             imports' = Append([imports EXCEPT ![i] = Leaves(i, "suspended")], NewImport(i, then))
      BY <2>4 DEF RunAnother
    <3>2. [imports EXCEPT ![i] = Leaves(i, "suspended")] \in Seq(Imports)
      BY <1>0, <1>1, ExceptSeq
    <3>3. NewImport(i, then) \in Imports
      BY <1>1, NewIsImport
    <3> QED  BY <3>1, <3>2, <3>3, Appended
  <2> QED  BY <2>2, <2>3, <2>4
<1>5. CASE ImportStops
  <2> DEFINE f == Front(imports)
             o == Last(imports).outer
  <2>1. f \in Seq(Imports)
    BY <1>0, <1>5, FrontOf DEF ImportStops
  <2>2. imports' = f \/ imports' = [f EXCEPT ![o].state = "stopped"]
    BY <1>5 DEF ImportStops
  <2> HIDE DEF f, o
  <2>3. CASE imports' = f
    BY <2>1, <2>3
  <2>4. CASE imports' = [f EXCEPT ![o].state = "stopped"] /\ o \in 1..Len(f)
    <3>1. f[o] \in Imports
      BY <2>1, <2>4, ElementOfSeq
    <3>2. [f[o] EXCEPT !.state = "stopped"] \in Imports
      BY <3>1 DEF Imports
    <3>3. imports' = [f EXCEPT ![o] = [f[o] EXCEPT !.state = "stopped"]]
      BY <2>4
    <3> QED  BY <2>1, <2>4, <3>2, <3>3, ExceptSeq
  <2>5. CASE imports' = [f EXCEPT ![o].state = "stopped"] /\ o \notin 1..Len(f)
    <3>1. DOMAIN f = 1..Len(f) /\ f = [k \in DOMAIN f |-> f[k]]
      BY <2>1, LenProperties
    <3>2. imports' = f
      BY <2>5, <3>1
    <3> QED  BY <2>1, <3>2
  <2> QED  BY <2>2, <2>3, <2>4, <2>5
<1> QED  BY <1>2, <1>3, <1>4, <1>5

LEMMA InitInd == Init => IndInv
<1> SUFFICES ASSUME Init PROVE IndInv
  OBVIOUS
<1>1. TextTypes
  BY ConstAssumption DEF Init, TextTypes, SomeText, Reads
<1>2. SeqTypes
  BY DEF Init, SeqTypes
<1>3. NumberTypes
  BY DEF Init, NumberTypes
<1>4. FlagTypes
  BY DEF Init, FlagTypes
<1> QED  BY <1>1, <1>2, <1>3, <1>4 DEF Init, IndInv, TypeOK, OpensAreOwed, ObservedIsOpen
LEMMA StepInd == IndInv /\ [Next]_vars => IndInv'
<1> SUFFICES ASSUME IndInv, [Next]_vars PROVE IndInv'
  OBVIOUS
<1> USE ConstAssumption DEF IndInv, TypeOK,
     fileVars, bufVars, savedVars, openVars, loadVars, backupVars, sessionVars, importVars, watchVars,
     countVars
<1>1. CASE LoadFromBackup
  <2>1. TextTypes'
    BY <1>1 DEF LoadFromBackup, LoadBackup, DidLoad, TextTypes, SeqTypes, NumberTypes, SomeText, Reads, Text, Saves, Backups
  <2>2. texts' \in Seq(Text) /\ (loaded' <=> texts' # <<>>)
    <3>1. backup.text \in Text
      BY <1>1 DEF LoadFromBackup, TextTypes, Backups
    <3>2. texts' = <<backup.text>> /\ loaded'
      BY <1>1 DEF LoadFromBackup, LoadBackup, DidLoad
    <3> QED  BY <3>1, <3>2, Singleton
  <2>3. saves' \in Seq(Saves)
    BY <1>1 DEF LoadFromBackup, LoadBackup, DidLoad, TextTypes, SeqTypes, Saves, SomeText, Backups
  <2>4. imports' \in Seq(Imports)
    BY <1>1 DEF LoadFromBackup, LoadBackup, DidLoad, TextTypes, SeqTypes, SomeText, Reads, Text
  <2>5. NumberTypes'
    BY <1>1 DEF LoadFromBackup, LoadBackup, DidLoad, NumberTypes, SeqTypes, TextTypes
  <2>6. FlagTypes'
    BY <1>1 DEF LoadFromBackup, LoadBackup, DidLoad, FlagTypes, TextTypes
  <2>7. OpensAreOwed' /\ ObservedIsOpen' /\ (saves' # <<>> \/ group' => loaded')
    BY <1>1 DEF LoadFromBackup, LoadBackup, DidLoad, OpensAreOwed, ObservedIsOpen, NumberTypes, SeqTypes, TextTypes, Text
  <2> QED  BY <2>1, <2>2, <2>3, <2>4, <2>5, <2>6, <2>7 DEF SeqTypes
<1>2. CASE LoadReturns
  <2>1. TextTypes'
    BY <1>2 DEF LoadReturns, DidLoad, IsText, TextTypes, SeqTypes, NumberTypes, SomeText, Reads, Text, Saves, Backups
  <2>2. texts' \in Seq(Text) /\ (loaded' <=> texts' # <<>>)
    BY <1>2 DEF LoadReturns, DidLoad, IsText, TextTypes, SeqTypes, Text, SomeText, Reads, Backups
  <2>3. saves' \in Seq(Saves)
    BY <1>2 DEF LoadReturns, DidLoad, IsText, TextTypes, SeqTypes, Saves, SomeText, Backups
  <2>4. imports' \in Seq(Imports)
    BY <1>2 DEF LoadReturns, DidLoad, IsText, TextTypes, SeqTypes, SomeText, Reads, Text
  <2>5. NumberTypes'
    BY <1>2 DEF LoadReturns, DidLoad, IsText, NumberTypes, SeqTypes, TextTypes
  <2>6. FlagTypes'
    BY <1>2 DEF LoadReturns, DidLoad, IsText, FlagTypes, TextTypes
  <2>7. OpensAreOwed' /\ ObservedIsOpen' /\ (saves' # <<>> \/ group' => loaded')
    BY <1>2 DEF LoadReturns, DidLoad, IsText, OpensAreOwed, ObservedIsOpen, NumberTypes, SeqTypes, TextTypes, Text
  <2> QED  BY <2>1, <2>2, <2>3, <2>4, <2>5, <2>6, <2>7 DEF SeqTypes
<1>3. CASE LoadFails
  <2>1. TextTypes'
    BY <1>3 DEF LoadFails, TearDown, TextTypes, SeqTypes, NumberTypes, SomeText, Reads, Text, Saves, Backups
  <2>2. texts' \in Seq(Text) /\ (loaded' <=> texts' # <<>>)
    <3>1. CASE openCount = 1
      BY <3>1, <1>3 DEF LoadFails, TearDown
    <3>2. CASE UNCHANGED <<texts, loaded>>
      BY <3>2 DEF SeqTypes
    <3> QED  BY <3>1, <3>2, <1>3 DEF LoadFails
  <2>3. saves' \in Seq(Saves)
    BY <1>3 DEF LoadFails, TearDown, TextTypes, SeqTypes, Saves, SomeText, Backups
  <2>4. imports' \in Seq(Imports)
    BY <1>3 DEF LoadFails, TearDown, TextTypes, SeqTypes, SomeText, Reads, Text
  <2>5. NumberTypes'
    <3>1. Len(saves) \in Nat
      BY LenProperties DEF SeqTypes
    <3>2. openCount' \in Nat /\ leaked' \in Nat /\ holders' \in Nat /\ waiting' \in Nat
      BY <3>1, <1>3 DEF LoadFails, NumberTypes, TextTypes, OpensAreOwed
    <3>3. revision' \in Int /\ savedRevision' \in Int /\ backupRevision' \in Int
      BY <1>3 DEF LoadFails, TearDown, NumberTypes
    <3> QED  BY <3>2, <3>3, <1>3 DEF LoadFails, NumberTypes
  <2>6. FlagTypes'
    BY ZenonT(30), <1>3 DEF LoadFails, TearDown, FlagTypes, TextTypes
  <2>7. OpensAreOwed' /\ ObservedIsOpen' /\ (saves' # <<>> \/ group' => loaded')
    BY <1>3 DEF LoadFails, TearDown, OpensAreOwed, ObservedIsOpen, NumberTypes, SeqTypes, TextTypes, Text
  <2> QED  BY <2>1, <2>2, <2>3, <2>4, <2>5, <2>6, <2>7 DEF SeqTypes
<1>4. CASE Close
  <2>1. TextTypes'
    BY <1>4 DEF Close, TearDown, TextTypes, SeqTypes, NumberTypes, SomeText, Reads, Text, Saves, Backups
  <2>2. texts' \in Seq(Text) /\ (loaded' <=> texts' # <<>>)
    <3>1. CASE openCount = 1
      BY <3>1, <1>4 DEF Close, TearDown
    <3>2. CASE UNCHANGED <<texts, loaded>>
      BY <3>2 DEF SeqTypes
    <3> QED  BY <3>1, <3>2, <1>4 DEF Close
  <2>3. saves' \in Seq(Saves)
    BY <1>4 DEF Close, TearDown, TextTypes, SeqTypes, Saves, SomeText, Backups
  <2>4. imports' \in Seq(Imports)
    BY <1>4 DEF Close, TearDown, TextTypes, SeqTypes, SomeText, Reads, Text
  <2>5. NumberTypes'
    <3>1. Len(saves) \in Nat
      BY LenProperties DEF SeqTypes
    <3>2. openCount' \in Nat /\ leaked' \in Nat /\ holders' \in Nat /\ waiting' \in Nat
      BY <3>1, <1>4 DEF Close, NumberTypes, TextTypes, OpensAreOwed
    <3>3. revision' \in Int /\ savedRevision' \in Int /\ backupRevision' \in Int
      BY <1>4 DEF Close, TearDown, NumberTypes
    <3> QED  BY <3>2, <3>3, <1>4 DEF Close, NumberTypes
  <2>6. FlagTypes'
    BY ZenonT(30), <1>4 DEF Close, TearDown, FlagTypes, TextTypes
  <2>7. OpensAreOwed' /\ ObservedIsOpen' /\ (saves' # <<>> \/ group' => loaded')
    BY <1>4 DEF Close, TearDown, OpensAreOwed, ObservedIsOpen, NumberTypes, SeqTypes, TextTypes, Text
  <2> QED  BY <2>1, <2>2, <2>3, <2>4, <2>5, <2>6, <2>7 DEF SeqTypes
<1>5. CASE \E l \in Mine : Edit(l)
  <2>1. TextTypes'
    BY <1>5 DEF Edit, TextTypes, SeqTypes, NumberTypes, SomeText, Reads, Text, Saves, Backups
  <2>2. texts' \in Seq(Text) /\ (loaded' <=> texts' # <<>>)
    BY <1>5 DEF Edit, TextTypes, SeqTypes, Text, SomeText, Reads, Backups
  <2>3. saves' \in Seq(Saves)
    BY <1>5 DEF Edit, TextTypes, SeqTypes, Saves, SomeText, Backups
  <2>4. imports' \in Seq(Imports)
    BY <1>5 DEF Edit, TextTypes, SeqTypes, SomeText, Reads, Text
  <2>5. NumberTypes'
    BY <1>5 DEF Edit, NumberTypes, SeqTypes, TextTypes
  <2>6. FlagTypes'
    BY <1>5 DEF Edit, FlagTypes, TextTypes
  <2>7. OpensAreOwed' /\ ObservedIsOpen' /\ (saves' # <<>> \/ group' => loaded')
    BY <1>5 DEF Edit, OpensAreOwed, ObservedIsOpen, NumberTypes, SeqTypes, TextTypes, Text
  <2> QED  BY <2>1, <2>2, <2>3, <2>4, <2>5, <2>6, <2>7 DEF SeqTypes
<1>6. CASE EndGroup
  <2>1. TextTypes'
    BY <1>6 DEF EndGroup, ImportIfNeeded, StartImport, TextTypes, SeqTypes, NumberTypes, SomeText, Reads, Text, Saves, Backups
  <2>2. texts' \in Seq(Text) /\ (loaded' <=> texts' # <<>>)
    <3>1. buf \in Text /\ loaded
      BY <1>6 DEF EndGroup, TextTypes, SomeText
    <3>2. texts' = Append(texts, buf) /\ UNCHANGED loaded
      BY <1>6 DEF EndGroup
    <3> QED  BY <3>1, <3>2, Appended DEF SeqTypes
  <2>3. saves' \in Seq(Saves)
    BY <1>6 DEF EndGroup, ImportIfNeeded, StartImport, TextTypes, SeqTypes, Saves, SomeText, Backups
  <2>4. imports' \in Seq(Imports)
    <3>1. ImportIfNeeded
      BY <1>6 DEF EndGroup
    <3> QED  BY <3>1, ImportStarts DEF SeqTypes
  <2>5. NumberTypes'
    BY <1>6 DEF EndGroup, ImportIfNeeded, StartImport, NumberTypes, SeqTypes, TextTypes
  <2>6. FlagTypes'
    BY <1>6 DEF EndGroup, ImportIfNeeded, StartImport, FlagTypes, TextTypes
  <2>7. OpensAreOwed' /\ ObservedIsOpen' /\ (saves' # <<>> \/ group' => loaded')
    BY <1>6 DEF EndGroup, ImportIfNeeded, StartImport, OpensAreOwed, ObservedIsOpen, NumberTypes, SeqTypes, TextTypes, Text
  <2> QED  BY <2>1, <2>2, <2>3, <2>4, <2>5, <2>6, <2>7 DEF SeqTypes
<1>7. CASE \E r \in DOMAIN texts : Undo(r)
  <2>1. TextTypes'
    <3>1. PICK r \in DOMAIN texts : Undo(r)
      BY <1>7
    <3>2. texts[r] \in Text /\ texts # <<>>
      BY <3>1, ElementOfSeq, LenProperties DEF SeqTypes
    <3>3. buf' \in Text /\ loaded' = TRUE
      BY <3>1, <3>2 DEF Undo, SeqTypes
    <3> QED  BY <3>1, <3>3 DEF Undo, TextTypes, SomeText, Text
  <2>2. texts' \in Seq(Text) /\ (loaded' <=> texts' # <<>>)
    BY <1>7 DEF Undo, ImportIfNeeded, StartImport, TextTypes, SeqTypes, Text, SomeText, Reads, Backups
  <2>3. saves' \in Seq(Saves)
    BY <1>7 DEF Undo, ImportIfNeeded, StartImport, TextTypes, SeqTypes, Saves, SomeText, Backups
  <2>4. imports' \in Seq(Imports)
    <3>1. ImportIfNeeded
      BY <1>7 DEF Undo
    <3> QED  BY <3>1, ImportStarts DEF SeqTypes
  <2>5. NumberTypes'
    BY <1>7 DEF Undo, ImportIfNeeded, StartImport, NumberTypes, SeqTypes, TextTypes
  <2>6. FlagTypes'
    BY <1>7 DEF Undo, ImportIfNeeded, StartImport, FlagTypes, TextTypes
  <2>7. OpensAreOwed' /\ ObservedIsOpen' /\ (saves' # <<>> \/ group' => loaded')
    BY <1>7 DEF Undo, ImportIfNeeded, StartImport, OpensAreOwed, ObservedIsOpen, NumberTypes, SeqTypes, TextTypes, Text
  <2> QED  BY <2>1, <2>2, <2>3, <2>4, <2>5, <2>6, <2>7 DEF SeqTypes
<1>8. CASE SaveStart
  <2>1. TextTypes'
    BY <1>8 DEF SaveStart, Saves, TextTypes, SeqTypes, NumberTypes, SomeText, Reads, Text, Saves, Backups
  <2>2. texts' \in Seq(Text) /\ (loaded' <=> texts' # <<>>)
    BY <1>8 DEF SaveStart, Saves, TextTypes, SeqTypes, Text, SomeText, Reads, Backups
  <2>3. saves' \in Seq(Saves)
    <3>1. buf \in Text
      BY <1>8 DEF SaveStart, TextTypes, SomeText
    <3>2. saves' = Append(saves, [text |-> buf, state |-> "writing"])
      BY <1>8 DEF SaveStart
    <3> QED  BY <3>1, <3>2, Appended DEF SeqTypes, Saves
  <2>4. imports' \in Seq(Imports)
    BY <1>8 DEF SaveStart, Saves, TextTypes, SeqTypes, SomeText, Reads, Text
  <2>5. NumberTypes'
    BY <1>8 DEF SaveStart, Saves, NumberTypes, SeqTypes, TextTypes
  <2>6. FlagTypes'
    BY <1>8 DEF SaveStart, Saves, FlagTypes, TextTypes
  <2>7. OpensAreOwed' /\ ObservedIsOpen' /\ (saves' # <<>> \/ group' => loaded')
    BY <1>8 DEF SaveStart, Saves, OpensAreOwed, ObservedIsOpen, NumberTypes, SeqTypes, TextTypes, Text
  <2> QED  BY <2>1, <2>2, <2>3, <2>4, <2>5, <2>6, <2>7 DEF SeqTypes
<1>9. CASE SaveRestored
  <2>1. TextTypes'
    BY <1>9 DEF SaveRestored, LoadBackup, DidLoad, TextTypes, SeqTypes, NumberTypes, SomeText, Reads, Text, Saves, Backups
  <2>2. texts' \in Seq(Text) /\ (loaded' <=> texts' # <<>>)
    BY <1>9 DEF SaveRestored, LoadBackup, DidLoad, TextTypes, SeqTypes, Text, SomeText, Reads, Backups
  <2>3. saves' \in Seq(Saves)
    BY <1>9 DEF SaveRestored, LoadBackup, DidLoad, TextTypes, SeqTypes, Saves, SomeText, Backups
  <2>4. imports' \in Seq(Imports)
    BY <1>9 DEF SaveRestored, LoadBackup, DidLoad, TextTypes, SeqTypes, SomeText, Reads, Text
  <2>5. NumberTypes'
    BY <1>9 DEF SaveRestored, LoadBackup, DidLoad, NumberTypes, SeqTypes, TextTypes
  <2>6. FlagTypes'
    BY <1>9 DEF SaveRestored, LoadBackup, DidLoad, FlagTypes, TextTypes
  <2>7. OpensAreOwed' /\ ObservedIsOpen' /\ (saves' # <<>> \/ group' => loaded')
    BY <1>9 DEF SaveRestored, LoadBackup, DidLoad, OpensAreOwed, ObservedIsOpen, NumberTypes, SeqTypes, TextTypes, Text
  <2> QED  BY <2>1, <2>2, <2>3, <2>4, <2>5, <2>6, <2>7 DEF SeqTypes
<1>10. CASE \E i \in DOMAIN saves : SaveWrites(i)
  <2>1. TextTypes'
    <3>1. PICK i \in DOMAIN saves : SaveWrites(i)
      BY <1>10
    <3>2. saves[i] \in Saves
      BY <3>1, ElementOfSeq, LenProperties DEF SeqTypes
    <3>4. saves[i].text \in Text
      BY <3>2 DEF Saves
    <3>3. disk' \in SomeText /\ ours' \in SomeText
      BY <3>1, <3>4 DEF SaveWrites, TextTypes, SomeText
    <3> QED  BY <3>1, <3>3 DEF SaveWrites, TextTypes
  <2>2. texts' \in Seq(Text) /\ (loaded' <=> texts' # <<>>)
    BY <1>10 DEF SaveWrites, TextTypes, SeqTypes, Text, SomeText, Reads, Backups
  <2>3. saves' \in Seq(Saves)
    <3>1. PICK i \in DOMAIN saves : SaveWrites(i)
      BY <1>10
    <3>2. saves[i] \in Saves /\ i \in 1..Len(saves)
      BY <3>1, ElementOfSeq, LenProperties DEF SeqTypes
    <3>3. PICK st \in {"ok", "failed"} : saves' = [saves EXCEPT ![i] = [saves[i] EXCEPT !.state = st]]
      BY <3>1 DEF SaveWrites
    <3>4. [saves[i] EXCEPT !.state = st] \in Saves
      BY <3>2 DEF Saves
    <3> QED  BY <3>2, <3>3, <3>4, ExceptSeq DEF SeqTypes
  <2>4. imports' \in Seq(Imports)
    BY <1>10 DEF SaveWrites, TextTypes, SeqTypes, SomeText, Reads, Text
  <2>5. NumberTypes'
    BY <1>10 DEF SaveWrites, NumberTypes, SeqTypes, TextTypes
  <2>6. FlagTypes'
    BY <1>10 DEF SaveWrites, FlagTypes, TextTypes
  <2>7. OpensAreOwed' /\ ObservedIsOpen' /\ (saves' # <<>> \/ group' => loaded')
    BY <1>10 DEF SaveWrites, OpensAreOwed, ObservedIsOpen, NumberTypes, SeqTypes, TextTypes, Text
  <2> QED  BY <2>1, <2>2, <2>3, <2>4, <2>5, <2>6, <2>7 DEF SeqTypes
<1>11. CASE \E i \in DOMAIN saves : SaveReturns(i)
  <2>1. TextTypes'
    BY ZenonT(30), <1>11 DEF SaveReturns, SaveSucceeds, TearDown, TextTypes, SeqTypes, NumberTypes, SomeText, Reads, Text, Saves, Backups
  <2>2. texts' \in Seq(Text) /\ (loaded' <=> texts' # <<>>)
    <3>1. CASE openCount = 1
      BY <3>1, <1>11 DEF SaveReturns, TearDown
    <3>2. CASE UNCHANGED <<texts, loaded>>
      BY <3>2 DEF SeqTypes
    <3> QED  BY <3>1, <3>2, <1>11 DEF SaveReturns
  <2>3. saves' \in Seq(Saves)
    <3>1. PICK i \in DOMAIN saves : SaveReturns(i)
      BY <1>11
    <3>2. i \in 1..Len(saves) /\ saves' = RemoveAt(saves, i)
      BY <3>1, LenProperties DEF SaveReturns, SeqTypes
    <3>3. saves' \in Seq(Saves) /\ Len(saves') = Len(saves) - 1 /\ Len(saves) \in Nat /\ Len(saves') \in Nat
      BY <3>2, Removed, LenProperties DEF SeqTypes
    <3> QED  BY <3>3
  <2>4. imports' \in Seq(Imports)
    BY <1>11 DEF SaveReturns, SaveSucceeds, TearDown, TextTypes, SeqTypes, SomeText, Reads, Text
  <2>5. NumberTypes'
    <3>1. PICK i \in DOMAIN saves : SaveReturns(i)
      BY <1>11
    <3>2. i \in 1..Len(saves) /\ saves' = RemoveAt(saves, i)
      BY <3>1, LenProperties DEF SaveReturns, SeqTypes
    <3>3. saves' \in Seq(Saves) /\ Len(saves') = Len(saves) - 1 /\ Len(saves) \in Nat /\ Len(saves') \in Nat
      BY <3>2, Removed, LenProperties DEF SeqTypes
    <3>4. openCount' = openCount - 1 /\ UNCHANGED <<holders, leaked, waiting>>
      BY <3>1 DEF SaveReturns
    <3>5. openCount' \in Nat
      BY <3>3, <3>4 DEF OpensAreOwed, NumberTypes
    <3>6. revision' \in Int /\ savedRevision' \in Int /\ backupRevision' \in Int
      BY <3>1 DEF SaveReturns, TearDown, SaveSucceeds, NumberTypes
    <3> QED  BY <3>1, <3>4, <3>5, <3>6 DEF SaveReturns, NumberTypes
  <2>6. FlagTypes'
    <3>1. PICK i \in DOMAIN saves : SaveReturns(i)
      BY <1>11
    <3>2. onDisk' \in BOOLEAN
      BY <3>1 DEF SaveReturns, SaveSucceeds, FlagTypes
    <3> QED  BY <3>1, <3>2 DEF SaveReturns, TearDown, SaveSucceeds, FlagTypes
  <2>7. OpensAreOwed' /\ ObservedIsOpen' /\ (saves' # <<>> \/ group' => loaded')
    <3>1. PICK i \in DOMAIN saves : SaveReturns(i)
      BY <1>11
    <3>2. i \in 1..Len(saves) /\ saves' = RemoveAt(saves, i)
      BY <3>1, LenProperties DEF SaveReturns, SeqTypes
    <3>3. saves' \in Seq(Saves) /\ Len(saves') = Len(saves) - 1 /\ Len(saves) \in Nat /\ Len(saves') \in Nat
      BY <3>2, Removed, LenProperties DEF SeqTypes
    <3> HIDE DEF RemoveAt
    <3>4. OpensAreOwed'
      BY <3>1, <3>3 DEF SaveReturns, OpensAreOwed, NumberTypes
    <3>5. saves # <<>> /\ loaded
      BY <3>2
    <3>6. CASE openCount = 1
      <4>1. openCount' = 0 /\ ~observing' /\ ~group'
        BY <3>1, <3>6 DEF SaveReturns, TearDown
      <4>2. Len(saves') = 0
        BY <3>1, <3>3, <3>4, <4>1 DEF OpensAreOwed, SaveReturns, NumberTypes
      <4>3. saves' = <<>>
        BY <3>3, <4>2, EmptySeq
      <4> QED  BY <3>4, <4>1, <4>3 DEF ObservedIsOpen
    <3>7. CASE openCount # 1
      BY <3>1, <3>4, <3>5, <3>7 DEF SaveReturns, ObservedIsOpen, NumberTypes
    <3> QED  BY <3>6, <3>7
  <2> QED  BY <2>1, <2>2, <2>3, <2>4, <2>5, <2>6, <2>7 DEF SeqTypes
<1>12. CASE FileSystemDidChange
  <2>1. TextTypes'
    BY <1>12 DEF FileSystemDidChange, NeedsImport, StartImport, TextTypes, SeqTypes, NumberTypes, SomeText, Reads, Text, Saves, Backups
  <2>2. texts' \in Seq(Text) /\ (loaded' <=> texts' # <<>>)
    BY <1>12 DEF FileSystemDidChange, NeedsImport, StartImport, TextTypes, SeqTypes, Text, SomeText, Reads, Backups
  <2>3. saves' \in Seq(Saves)
    BY <1>12 DEF FileSystemDidChange, NeedsImport, StartImport, TextTypes, SeqTypes, Saves, SomeText, Backups
  <2>4. imports' \in Seq(Imports)
    <3>1. UNCHANGED imports \/ StartImport
      BY <1>12 DEF FileSystemDidChange, NeedsImport
    <3> QED  BY <3>1, ImportStarts DEF SeqTypes
  <2>5. NumberTypes'
    BY <1>12 DEF FileSystemDidChange, NeedsImport, StartImport, NumberTypes, SeqTypes, TextTypes
  <2>6. FlagTypes'
    BY <1>12 DEF FileSystemDidChange, NeedsImport, StartImport, FlagTypes, TextTypes
  <2>7. OpensAreOwed' /\ ObservedIsOpen' /\ (saves' # <<>> \/ group' => loaded')
    BY <1>12 DEF FileSystemDidChange, NeedsImport, StartImport, OpensAreOwed, ObservedIsOpen, NumberTypes, SeqTypes, TextTypes, Text
  <2> QED  BY <2>1, <2>2, <2>3, <2>4, <2>5, <2>6, <2>7 DEF SeqTypes
<1>13. CASE Activate
  <2>1. TextTypes'
    BY <1>13 DEF Activate, StartImport, TextTypes, SeqTypes, NumberTypes, SomeText, Reads, Text, Saves, Backups
  <2>2. texts' \in Seq(Text) /\ (loaded' <=> texts' # <<>>)
    BY <1>13 DEF Activate, StartImport, TextTypes, SeqTypes, Text, SomeText, Reads, Backups
  <2>3. saves' \in Seq(Saves)
    BY <1>13 DEF Activate, StartImport, TextTypes, SeqTypes, Saves, SomeText, Backups
  <2>4. imports' \in Seq(Imports)
    <3>1. UNCHANGED imports \/ StartImport
      BY <1>13 DEF Activate
    <3> QED  BY <3>1, ImportStarts DEF SeqTypes
  <2>5. NumberTypes'
    BY <1>13 DEF Activate, StartImport, NumberTypes, SeqTypes, TextTypes
  <2>6. FlagTypes'
    BY <1>13 DEF Activate, StartImport, FlagTypes, TextTypes
  <2>7. OpensAreOwed' /\ ObservedIsOpen' /\ (saves' # <<>> \/ group' => loaded')
    BY <1>13 DEF Activate, StartImport, OpensAreOwed, ObservedIsOpen, NumberTypes, SeqTypes, TextTypes, Text
  <2> QED  BY <2>1, <2>2, <2>3, <2>4, <2>5, <2>6, <2>7 DEF SeqTypes
<1>14. CASE Deactivate
  <2>1. TextTypes'
    BY <1>14 DEF Deactivate, TextTypes, SeqTypes, NumberTypes, SomeText, Reads, Text, Saves, Backups
  <2>2. texts' \in Seq(Text) /\ (loaded' <=> texts' # <<>>)
    BY <1>14 DEF Deactivate, TextTypes, SeqTypes, Text, SomeText, Reads, Backups
  <2>3. saves' \in Seq(Saves)
    BY <1>14 DEF Deactivate, TextTypes, SeqTypes, Saves, SomeText, Backups
  <2>4. imports' \in Seq(Imports)
    BY <1>14 DEF Deactivate, TextTypes, SeqTypes, SomeText, Reads, Text
  <2>5. NumberTypes'
    BY <1>14 DEF Deactivate, NumberTypes, SeqTypes, TextTypes
  <2>6. FlagTypes'
    BY <1>14 DEF Deactivate, FlagTypes, TextTypes
  <2>7. OpensAreOwed' /\ ObservedIsOpen' /\ (saves' # <<>> \/ group' => loaded')
    BY <1>14 DEF Deactivate, OpensAreOwed, ObservedIsOpen, NumberTypes, SeqTypes, TextTypes, Text
  <2> QED  BY <2>1, <2>2, <2>3, <2>4, <2>5, <2>6, <2>7 DEF SeqTypes
<1>15. CASE \E i \in DOMAIN imports : ImportReads(i) \/ ImportNeverStops(i)
  <2>1. imports' \in Seq(Imports)
    BY <1>15, ImportChanges DEF SeqTypes, TextTypes
  <2>2. /\ UNCHANGED <<needsImport, deferred, fileVars, bufVars, savedVars, openVars, loadVars, saves,
                      backupVars, sessionVars, watchVars, active, countVars, expected>>
    BY <1>15 DEF ImportReads, ImportNeverStops
  <2> QED  BY <2>1, <2>2 DEF TextTypes, SeqTypes, NumberTypes, FlagTypes, OpensAreOwed, ObservedIsOpen
<1>16. CASE \E i \in DOMAIN imports : ImportReturns(i)
  <2>0. PICK i \in DOMAIN imports : ImportReturns(i)
    BY <1>16
  <2> DEFINE yours  == imports[i].read
             merged == Merge(snapshot, buf, yours)
  <2>1. yours \in Text /\ buf \in Text /\ snapshot \in SomeText /\ loaded /\ loaded'
    BY <2>0, ReadIsText DEF ImportReturns, SeqTypes, TextTypes, SomeText
  <2>2. snapshot # NoText => merged \in Text
    BY <2>1 DEF Merge, Text, SomeText
  <2> HIDE DEF yours, merged
  <2>3. /\ buf' \in Text /\ ours' \in SomeText /\ snapshot' \in SomeText
        /\ savedRevision' \in {savedRevision, revision', -1} /\ mixed' \in {mixed, FALSE}
        /\ needsImport' \in {needsImport, FALSE} /\ timer' \in {timer, TRUE}
        /\ revision' \in {revision, Len(texts')} /\ group' = group
        /\ UNCHANGED texts \/ \E t \in Text : texts' = Append(texts, t)
    <3> DEFINE Reloads == \E t \in Text : ReloadWith(t)
    <3>1. /\ Reloads \/ UNCHANGED <<bufVars, timer>>
          /\ needsImport' \in {needsImport, FALSE}
          /\ ours' \in {ours, yours} /\ snapshot' \in {snapshot, yours, buf'}
          /\ savedRevision' \in {savedRevision, revision', -1} /\ mixed' \in {mixed, FALSE}
      <4>1. CASE yours = buf
        BY <2>0, <4>1 DEF ImportReturns, MarkSaved, Stop, yours
      <4>2. CASE yours # buf /\ ~Edited
        <5>1. ReloadWith(yours) /\ ours' = yours
          BY <2>0, <4>2 DEF ImportReturns, yours
        <5>2. (RunAnother(i, "marks") /\ UNCHANGED snapshot) \/ (MarkSaved /\ Stop(i))
          BY <2>0, <4>2 DEF ImportReturns, yours
        <5> QED  BY <2>1, <5>1, <5>2 DEF MarkSaved, Stop, RunAnother
      <4>3. CASE yours # buf /\ Edited /\ snapshot # NoText
        <5>1. ReloadWith(merged) /\ ours' = yours /\ snapshot' = yours
          BY <2>0, <4>3 DEF ImportReturns, yours, merged
        <5>2. \/ RunAnother(i, IF merged = yours THEN "equals" ELSE "differs")
              \/ savedRevision' = (IF merged = yours THEN revision' ELSE -1) /\ mixed' = FALSE /\ Stop(i)
          BY <2>0, <4>3 DEF ImportReturns, yours, merged
        <5> QED  BY <2>2, <4>3, <5>1, <5>2 DEF Stop, RunAnother
      <4>4. CASE yours # buf /\ Edited /\ snapshot = NoText
        BY <2>0, <4>4 DEF ImportReturns, Stop, yours
      <4> QED  BY <4>1, <4>2, <4>3, <4>4, Booleans
    <3>2. /\ buf' \in Text /\ timer' \in {timer, TRUE}
          /\ revision' \in {revision, Len(texts')} /\ group' = group
          /\ UNCHANGED texts \/ \E t \in Text : texts' = Append(texts, t)
      <4>1. CASE Reloads
        <5>1. PICK t \in Text : ReloadWith(t)
          BY <4>1
        <5> QED  BY <5>1 DEF ReloadWith
      <4>2. CASE UNCHANGED <<bufVars, timer>>
        BY <2>1, <4>2 DEF bufVars
      <4> QED  BY <3>1, <4>1, <4>2
    <3> HIDE DEF Reloads, yours
    <3>3. ours' \in SomeText /\ snapshot' \in SomeText
      BY <2>1, <3>1, <3>2 DEF TextTypes, SomeText
    <3> QED  BY <3>1, <3>2, <3>3, Zenon
  <2>4. texts' \in Seq(Text) /\ texts' # <<>>
    <3>1. texts \in Seq(Text) /\ texts # <<>>
      BY <2>0, Zenon DEF SeqTypes, ImportReturns
    <3>2. ASSUME NEW t \in Text, texts' = Append(texts, t)
          PROVE  texts' \in Seq(Text) /\ texts' # <<>>
      BY <3>1, <3>2, AppendProperties
    <3>3. UNCHANGED texts \/ \E t \in Text : texts' = Append(texts, t)
      BY <2>3
    <3> QED  BY <3>1, <3>2, <3>3, Zenon
  <2>5. imports' \in Seq(Imports)
    BY <2>0, ImportChanges DEF SeqTypes, TextTypes
  <2>6. /\ sessionTimer' = TRUE /\ expected' = NoText
        /\ UNCHANGED <<disk, onDisk, session, openVars, loadVars, saves, backup, backupRevision, deferred,
                       watchVars, active, countVars>>
    BY <2>0 DEF ImportReturns
  <2>7. TextTypes'
    BY <2>1, <2>3, <2>6 DEF TextTypes, SomeText, Text
  <2>8. NumberTypes'
    BY <2>3, <2>4, <2>6, LenProperties DEF NumberTypes
  <2>9. FlagTypes'
    BY <2>3, <2>6 DEF FlagTypes
  <2> QED  BY <2>1, <2>3, <2>4, <2>5, <2>6, <2>7, <2>8, <2>9 DEF SeqTypes, OpensAreOwed, ObservedIsOpen
<1>17. CASE BackupTimerDidFire
  <2>1. TextTypes'
    <3>1. CASE UNCHANGED backup
      BY <3>1, <1>17 DEF BackupTimerDidFire, TextTypes
    <3>2. CASE backup' = NoBackup
      BY <3>2, <1>17 DEF BackupTimerDidFire, TextTypes
    <3>3. CASE backup' = [text |-> buf, modified |-> Edited, missing |-> ~onDisk] /\ loaded
      <4>1. buf \in Text
        BY <3>3 DEF TextTypes, SomeText
      <4>2. backup' \in Backups
        BY <3>3, <4>1, Booleans DEF Backups, FlagTypes
      <4> QED  BY <4>2, <1>17 DEF BackupTimerDidFire, TextTypes
    <3> QED  BY <3>1, <3>2, <3>3, <1>17 DEF BackupTimerDidFire, SaveBackup, NeedsBackup
  <2>2. texts' \in Seq(Text) /\ (loaded' <=> texts' # <<>>)
    BY <1>17 DEF BackupTimerDidFire, SaveBackup, TextTypes, SeqTypes, Text, SomeText, Reads, Backups
  <2>3. saves' \in Seq(Saves)
    BY <1>17 DEF BackupTimerDidFire, SaveBackup, TextTypes, SeqTypes, Saves, SomeText, Backups
  <2>4. imports' \in Seq(Imports)
    BY <1>17 DEF BackupTimerDidFire, SaveBackup, TextTypes, SeqTypes, SomeText, Reads, Text
  <2>5. NumberTypes'
    BY <1>17 DEF BackupTimerDidFire, SaveBackup, NumberTypes, SeqTypes, TextTypes
  <2>6. FlagTypes'
    BY <1>17 DEF BackupTimerDidFire, SaveBackup, FlagTypes, TextTypes
  <2>7. OpensAreOwed' /\ ObservedIsOpen' /\ (saves' # <<>> \/ group' => loaded')
    BY <1>17 DEF BackupTimerDidFire, SaveBackup, OpensAreOwed, ObservedIsOpen, NumberTypes, SeqTypes, TextTypes, Text
  <2> QED  BY <2>1, <2>2, <2>3, <2>4, <2>5, <2>6, <2>7 DEF SeqTypes
<1>18. CASE SaveSession
  <2>1. TextTypes'
    <3>1. CASE UNCHANGED backup
      BY <3>1, <1>18 DEF SaveSession, TextTypes
    <3>2. CASE backup' = NoBackup
      BY <3>2, <1>18 DEF SaveSession, TextTypes
    <3>3. CASE backup' = [text |-> buf, modified |-> Edited, missing |-> ~onDisk] /\ loaded
      <4>1. buf \in Text
        BY <3>3 DEF TextTypes, SomeText
      <4>2. backup' \in Backups
        BY <3>3, <4>1, Booleans DEF Backups, FlagTypes
      <4> QED  BY <4>2, <1>18 DEF SaveSession, TextTypes
    <3> QED  BY <3>1, <3>2, <3>3, <1>18 DEF SaveSession, SaveBackup
  <2>2. texts' \in Seq(Text) /\ (loaded' <=> texts' # <<>>)
    BY <1>18 DEF SaveSession, SaveBackup, TextTypes, SeqTypes, Text, SomeText, Reads, Backups
  <2>3. saves' \in Seq(Saves)
    BY <1>18 DEF SaveSession, SaveBackup, TextTypes, SeqTypes, Saves, SomeText, Backups
  <2>4. imports' \in Seq(Imports)
    BY <1>18 DEF SaveSession, SaveBackup, TextTypes, SeqTypes, SomeText, Reads, Text
  <2>5. NumberTypes'
    BY <1>18 DEF SaveSession, SaveBackup, NumberTypes, SeqTypes, TextTypes
  <2>6. FlagTypes'
    <3>1. session' \in BOOLEAN /\ timer' \in BOOLEAN
      BY <1>18, Booleans DEF SaveSession, FlagTypes
    <3> QED  BY <3>1, <1>18 DEF SaveSession, FlagTypes
  <2>7. OpensAreOwed' /\ ObservedIsOpen' /\ (saves' # <<>> \/ group' => loaded')
    BY <1>18 DEF SaveSession, SaveBackup, OpensAreOwed, ObservedIsOpen, NumberTypes, SeqTypes, TextTypes, Text
  <2> QED  BY <2>1, <2>2, <2>3, <2>4, <2>5, <2>6, <2>7 DEF SeqTypes
<1>19. CASE Crash
  <2>1. TextTypes'
    <3> DEFINE e == [text |-> buf, known |-> backup # NoBackup /\ ~backup.missing]
    <3>1. loaded => e \in Expected
      <4>1. (backup # NoBackup /\ ~backup.missing) \in BOOLEAN
        BY Zenon
      <4> QED  BY <4>1 DEF TextTypes, Expected, SomeText
    <3>2. expected' = NoText \/ (expected' = e /\ loaded)
      BY <1>19 DEF Crash
    <3> HIDE DEF e
    <3>3. expected' \in {NoText} \cup Expected
      BY <3>1, <3>2
    <3> QED
      BY <1>19, <3>3 DEF Crash, TextTypes, SeqTypes, NumberTypes, SomeText, Reads, Text, Saves, Backups
  <2>2. texts' \in Seq(Text) /\ (loaded' <=> texts' # <<>>)
    BY <1>19 DEF Crash, TextTypes, SeqTypes, Text, SomeText, Reads, Backups
  <2>3. saves' \in Seq(Saves)
    BY <1>19 DEF Crash, TextTypes, SeqTypes, Saves, SomeText, Backups
  <2>4. imports' \in Seq(Imports)
    BY <1>19 DEF Crash, TextTypes, SeqTypes, SomeText, Reads, Text
  <2>5. NumberTypes'
    BY <1>19 DEF Crash, NumberTypes, SeqTypes, TextTypes
  <2>6. FlagTypes'
    BY <1>19 DEF Crash, FlagTypes, TextTypes
  <2>7. OpensAreOwed' /\ ObservedIsOpen' /\ (saves' # <<>> \/ group' => loaded')
    BY <1>19 DEF Crash, OpensAreOwed, ObservedIsOpen, NumberTypes, SeqTypes, TextTypes, Text
  <2> QED  BY <2>1, <2>2, <2>3, <2>4, <2>5, <2>6, <2>7 DEF SeqTypes
<1>20. CASE Open
  BY <1>20 DEF Open, MayOpen, UserEvents, TextTypes, SeqTypes, NumberTypes, FlagTypes, TypeOK, OpensAreOwed, ObservedIsOpen, SomeText, Reads, Text
<1>21. CASE LoadAgain
  <2>1. TextTypes'
    BY <1>21 DEF LoadAgain, MayOpen, TextTypes, SomeText, Reads, NumberTypes
  <2>2. SeqTypes' /\ FlagTypes'
    BY <1>21 DEF LoadAgain, SeqTypes, FlagTypes
  <2>3. NumberTypes' /\ OpensAreOwed' /\ ObservedIsOpen'
    BY SMTT(30), <1>21, LenProperties DEF LoadAgain, NumberTypes, OpensAreOwed, ObservedIsOpen, SeqTypes
  <2> QED  BY <1>21, <2>1, <2>2, <2>3 DEF LoadAgain
<1>22. CASE LoadFromFile
  BY <1>22 DEF LoadFromFile, TextTypes, SeqTypes, NumberTypes, FlagTypes, TypeOK, OpensAreOwed, ObservedIsOpen, SomeText, Reads, Text
<1>23. CASE LoadReads
  <2>1. TextTypes'
    <3>1. Content \in Text
      BY DEF Content, TextTypes, SomeText, Text
    <3>2. reading' \in Reads /\ waiting # 0
      BY <1>23, <3>1 DEF LoadReads, TextTypes, Reads
    <3>3. reading' # NoText
      BY <3>2 DEF Reads, Text
    <3> QED  BY <1>23, <3>2, <3>3 DEF LoadReads, TextTypes
  <2>2. SeqTypes' /\ FlagTypes'
    BY <1>23 DEF LoadReads, SeqTypes, FlagTypes
  <2>3. NumberTypes' /\ OpensAreOwed' /\ ObservedIsOpen'
    BY <1>23, LenProperties DEF LoadReads, NumberTypes, OpensAreOwed, ObservedIsOpen, SeqTypes
  <2> QED  BY <1>23, <2>1, <2>2, <2>3 DEF LoadReads
<1>24. CASE \E ts \in SUBSET Theirs : ExternalChange((Content \ Theirs) \cup ts)
  BY <1>24 DEF ExternalChange, Content, TextTypes, SeqTypes, NumberTypes, FlagTypes, TypeOK, OpensAreOwed, ObservedIsOpen, SomeText, Reads, Text
<1>25. CASE ExternalChange(NoText)
  BY <1>25 DEF ExternalChange, TextTypes, SeqTypes, NumberTypes, FlagTypes, TypeOK, OpensAreOwed, ObservedIsOpen, SomeText, Reads, Text
<1>26. CASE ImportStops
  <2>1. imports' \in Seq(Imports)
    BY <1>26, ImportChanges DEF SeqTypes, TextTypes
  <2>2. /\ savedRevision' \in {savedRevision, revision, -1} /\ snapshot' \in {snapshot, buf} /\ mixed' \in BOOLEAN
        /\ sessionTimer' \in {sessionTimer, TRUE}
    <3>1. CASE UNCHANGED <<savedRevision, snapshot, mixed, sessionTimer>>
      BY <3>1 DEF FlagTypes
    <3>2. CASE GoOn(Last(imports))
      <4>1. mixed' \in BOOLEAN
        BY <3>2, Zenon DEF GoOn
      <4> QED  BY <3>2, <4>1 DEF GoOn
    <3> QED  BY <1>26, <3>1, <3>2 DEF ImportStops
  <2>3. /\ expected' \in {expected, NoText}
        /\ UNCHANGED <<needsImport, deferred, onDisk, session, fileVars, bufVars, openVars, loadVars, saves,
                       backupVars, watchVars, active, countVars>>
    BY <1>26 DEF ImportStops, GoOn
  <2>4. TextTypes'
    BY <2>2, <2>3 DEF TextTypes, fileVars, bufVars, loadVars, backupVars
  <2>5. SeqTypes'
    BY <2>1, <2>3 DEF SeqTypes, bufVars, loadVars
  <2>6. NumberTypes'
    BY <2>2, <2>3 DEF NumberTypes, openVars, bufVars, loadVars, backupVars, countVars
  <2>7. FlagTypes'
    BY <2>2, <2>3 DEF FlagTypes, bufVars, loadVars, backupVars, watchVars
  <2>8. OpensAreOwed' /\ ObservedIsOpen' /\ (saves' # <<>> \/ group' => loaded')
    BY <2>3 DEF OpensAreOwed, ObservedIsOpen, openVars, bufVars, loadVars, watchVars
  <2> QED  BY <2>4, <2>5, <2>6, <2>7, <2>8
<1>27. CASE UNCHANGED vars
  BY <1>27 DEF vars, TextTypes, SeqTypes, NumberTypes, FlagTypes, TypeOK, OpensAreOwed, ObservedIsOpen, SomeText, Reads, Text
<1> QED  BY <1>1, <1>2, <1>3, <1>4, <1>5, <1>6, <1>7, <1>8, <1>9, <1>10, <1>11, <1>12, <1>13, <1>14, <1>15, <1>16, <1>17, <1>18, <1>19, <1>20, <1>21, <1>22, <1>23, <1>24, <1>25, <1>26, <1>27 DEF Next

-----------------------------------------------------------------------------
\* Type correctness: a document has a buffer exactly while it is loaded, and
\* file::open is at work exactly while somebody waits for it.
THEOREM TypeCorrect == Spec => []TypeOK
<1>1. IndInv => TypeOK
  BY DEF IndInv
<1> QED  BY <1>1, InitInd, StepInd, PTL DEF Spec

\* OakDocument's open count is the clients, waiting loads and saves under way,
\* and what failed loads left behind; it never drops a document in use.
THEOREM OpensOwed == Spec => []OpensAreOwed
<1>1. IndInv => OpensAreOwed
  BY DEF IndInv
<1> QED  BY <1>1, InitInd, StepInd, PTL DEF Spec

\* The assertion of fileSystemDidChangeToPath holds: KEventManager is observed
\* only for a document that is loaded and open.
THEOREM ObservedOpen == Spec => []ObservedIsOpen
<1>1. IndInv => ObservedIsOpen
  BY DEF IndInv
<1> QED  BY <1>1, InitInd, StepInd, PTL DEF Spec

-----------------------------------------------------------------------------
\* No save has written and not returned.
Settled == saves # <<>> => saves[1].state # "ok"

\* What show_content still has to do for imports that wait in endUndoGrouping
\* for another.
Pending(thens) == \E n \in DOMAIN imports : imports[n].then \in thens
Suspended      == Pending({"marks", "equals", "differs"})
MarksPending   == Pending({"marks"})

\* A save, and an import, have the document for themselves; the texts of the
\* current and of the saved revision are those of the buffer and the file; an
\* import merges with what the file had.  An import that replaced the buffer's
\* text and waits for another has not set the saved revision and the snapshot.
CleanInv ==
  /\ imports # <<>> => loaded /\ ~group
  /\ deferred => ~active /\ ~group
  /\ waiting > 0 => ~loaded /\ backup = NoBackup
  /\ saves # <<>> =>
       /\ Len(saves) = 1 /\ ~observing /\ imports = <<>> /\ ~group
       /\ saves[1].text = buf /\ (saves[1].state = "ok" => ours = buf)
  /\ loaded => revision \in DOMAIN texts /\ savedRevision <= Len(texts) /\ (~group => buf = texts[revision])
  /\ savedRevision \in DOMAIN texts /\ Settled /\ ~mixed /\ (Suspended => savedRevision = revision) =>
       texts[savedRevision] = ours
  /\ loaded /\ Settled /\ ~mixed => snapshot = ours \/ (buf = ours /\ MarksPending)

\* An import that goes on when run loop n ends would mark the buffer's text as
\* saved: it is the file's, or an import merged it, which is known by -1 or
\* will be when a run loop further in ends.
NestInv ==
  \A n \in DOMAIN imports :
    imports[n].then \in {"marks", "equals"} /\ savedRevision # -1 /\ ~mixed =>
      buf = ours \/ \E m \in DOMAIN imports : m > n /\ imports[m].then = "differs"

\* What the backup and the saved session have for a crash, and what is left of
\* it after.
CrashInv ==
  /\ group => expected = NoText
  /\ ~loaded => ~timer
  /\ backup # NoBackup => backup.modified \/ backup.missing
  /\ loaded => backupRevision \in DOMAIN texts
  /\ loaded /\ backup # NoBackup => backup.text = texts[backupRevision]
  /\ loaded /\ ~group /\ ~sessionTimer => session = Edited
  /\ loaded /\ ~group /\ ~timer /\ ~sessionTimer /\ Edited => backup # NoBackup /\ backupRevision = revision
  /\ expected # NoText /\ loaded => buf = expected.text /\ (expected.known => revision # savedRevision)
  /\ expected # NoText /\ ~loaded =>
       /\ backup # NoBackup /\ backup.text = expected.text
       /\ expected.known => revision # savedRevision

-----------------------------------------------------------------------------
\* Run loops that start, and the outcomes of imports that leave no other
\* suspended, do not change what is pending.
LEMMA ThensKept ==
  ASSUME imports \in Seq(Imports), NEW thens, "nothing" \notin thens,
         \/ UNCHANGED imports \/ StartImport \/ ImportIfNeeded
         \/ \E i \in DOMAIN imports : ImportReads(i) \/ ImportNeverStops(i) \/ Stop(i)
  PROVE  /\ \A n \in DOMAIN imports : n \in DOMAIN imports' /\ imports'[n].then = imports[n].then
         /\ \A n \in DOMAIN imports' : n \notin DOMAIN imports => imports'[n].then = "nothing"
         /\ Pending(thens)' <=> Pending(thens)
<1>0. DOMAIN imports = 1..Len(imports) /\ Len(imports) \in Nat /\ \A n \in DOMAIN imports : imports[n] \in Imports
  BY LenProperties, ElementOfSeq
<1>1. ASSUME /\ \A n \in DOMAIN imports : n \in DOMAIN imports' /\ imports'[n].then = imports[n].then
             /\ \A n \in DOMAIN imports' : n \notin DOMAIN imports => imports'[n].then = "nothing"
      PROVE  Pending(thens)' <=> Pending(thens)
  BY <1>1, Zenon DEF Pending
<1>2. CASE StartImport
  <2>1. imports' = Append(imports, NewImport(0, "nothing"))
    BY <1>2 DEF StartImport
  <2>2. /\ DOMAIN imports' = 1..(Len(imports) + 1)
        /\ \A n \in 1..Len(imports) : imports'[n] = imports[n]
        /\ imports'[Len(imports) + 1] = NewImport(0, "nothing")
    <3> DEFINE e == NewImport(0, "nothing")
    <3>1. e \in Imports
      BY NewIsImport
    <3> HIDE DEF e
    <3>2. /\ Append(imports, e) \in Seq(Imports) /\ Len(Append(imports, e)) = Len(imports) + 1
          /\ \A n \in 1..Len(imports) : Append(imports, e)[n] = imports[n]
          /\ Append(imports, e)[Len(imports) + 1] = e
      BY <3>1, AppendProperties
    <3>3. DOMAIN Append(imports, e) = 1..(Len(imports) + 1)
      BY <3>2, LenProperties
    <3> QED  BY <2>1, <3>2, <3>3 DEF e
  <2> QED  BY <1>0, <1>1, <2>2 DEF NewImport
<1>3. CASE UNCHANGED imports
  BY <1>1, <1>3
<1>4. ASSUME NEW i \in DOMAIN imports, NEW e, e.then = imports[i].then, imports' = [imports EXCEPT ![i] = e]
      PROVE  /\ \A n \in DOMAIN imports : n \in DOMAIN imports' /\ imports'[n].then = imports[n].then
             /\ \A n \in DOMAIN imports' : n \in DOMAIN imports
  BY <1>4
<1>5. ASSUME NEW i \in DOMAIN imports, ImportReads(i) \/ ImportNeverStops(i) \/ Stop(i)
      PROVE  \E e : e.then = imports[i].then /\ imports' = [imports EXCEPT ![i] = e]
  <2>0. imports[i] \in Imports
    BY <1>0
  <2>1. CASE ImportReads(i)
    <3>1. PICK t : imports' = [imports EXCEPT ![i] = [imports[i] EXCEPT !.read = t]]
      BY <2>1 DEF ImportReads
    <3>2. [imports[i] EXCEPT !.read = t].then = imports[i].then
      BY <2>0 DEF Imports
    <3> QED  BY <3>1, <3>2
  <2>2. ASSUME NEW st PROVE Leaves(i, st).then = imports[i].then
    BY <2>0 DEF Imports, Leaves
  <2>3. CASE ImportNeverStops(i) \/ Stop(i)
    BY <2>2, <2>3 DEF ImportNeverStops, Stop
  <2> QED  BY <1>5, <2>1, <2>3
<1>6. CASE \E i \in DOMAIN imports : ImportReads(i) \/ ImportNeverStops(i) \/ Stop(i)
  <2>1. PICK i \in DOMAIN imports : ImportReads(i) \/ ImportNeverStops(i) \/ Stop(i)
    BY <1>6
  <2>2. PICK e : e.then = imports[i].then /\ imports' = [imports EXCEPT ![i] = e]
    BY <1>5, <2>1
  <2> QED  BY <1>1, <1>4, <2>2
<1> QED  BY <1>2, <1>3, <1>6 DEF ImportIfNeeded

\* An import whose endUndoGrouping runs another becomes pending.
LEMMA AnotherRuns ==
  ASSUME imports \in Seq(Imports), NEW i \in DOMAIN imports, NEW then \in {"marks", "equals", "differs"},
         RunAnother(i, then)
  PROVE  /\ Len(imports) \in Nat /\ DOMAIN imports = 1..Len(imports) /\ DOMAIN imports' = 1..(Len(imports) + 1)
         /\ \A n \in 1..Len(imports) : imports'[n].then = imports[n].then
         /\ imports'[Len(imports) + 1].then = then
         /\ Suspended' /\ (then = "marks" => MarksPending')
<1>0. DOMAIN imports = 1..Len(imports) /\ Len(imports) \in Nat /\ imports[i] \in Imports
  BY LenProperties, ElementOfSeq
<1> DEFINE left == [imports EXCEPT ![i] = Leaves(i, "suspended")]
<1>1. Leaves(i, "suspended") \in Imports /\ Leaves(i, "suspended").then = imports[i].then
  BY <1>0 DEF Leaves, Imports, Reads
<1>2. left \in Seq(Imports) /\ Len(left) = Len(imports) /\ \A n \in 1..Len(imports) : left[n].then = imports[n].then
  BY <1>0, <1>1, ExceptSeq
<1>3. NewImport(i, then) \in Imports /\ NewImport(i, then).then = then
  <2>1. i \in Nat
    BY <1>0
  <2> QED  BY <2>1, NewIsImport DEF NewImport
<1>4. imports' = Append(left, NewImport(i, then))
  BY DEF RunAnother
<1> HIDE DEF left
<1>5. /\ DOMAIN imports' = 1..(Len(imports) + 1)
      /\ \A n \in 1..Len(imports) : imports'[n] = left[n]
      /\ imports'[Len(imports) + 1] = NewImport(i, then)
  BY <1>0, <1>2, <1>3, <1>4, AppendProperties
<1>6. Len(imports) + 1 \in DOMAIN imports'
  BY <1>0, <1>5
<1> QED  BY <1>0, <1>2, <1>3, <1>5, <1>6 DEF Suspended, MarksPending, Pending

\* The end of the innermost run loop leaves what the others are for.
LEMMA InnermostEnds ==
  ASSUME imports \in Seq(Imports), ImportStops
  PROVE  LET last == Len(imports) IN
         /\ last \in DOMAIN imports /\ Last(imports) = imports[last] /\ imports[last] \in Imports
         /\ last \in Nat /\ DOMAIN imports = 1..last /\ DOMAIN imports' = 1..(last - 1)
         /\ \A n \in 1..(last - 1) : imports'[n].then = imports[n].then
         /\ Suspended' => Suspended
         /\ imports[last].then = "nothing" => (Suspended' <=> Suspended)
         /\ imports[last].then # "marks" => (MarksPending' <=> MarksPending)
<1> DEFINE last == Len(imports)
           f    == Front(imports)
           o    == Last(imports).outer
<1>1. /\ f \in Seq(Imports) /\ Len(f) = last - 1 /\ \A n \in 1..(last - 1) : f[n] = imports[n]
      /\ last \in Nat \ {0} /\ Last(imports) = imports[last] /\ DOMAIN imports = 1..last
  BY FrontOf, LenProperties DEF ImportStops
<1>2. imports[last] \in Imports /\ DOMAIN f = 1..(last - 1) /\ \A n \in 1..(last - 1) : f[n] \in Imports
  BY <1>1, ElementOfSeq, LenProperties
<1>3. imports' = f \/ imports' = [f EXCEPT ![o].state = "stopped"]
  BY DEF ImportStops
<1> HIDE DEF f, o
<1>4. DOMAIN imports' = 1..(last - 1) /\ \A n \in 1..(last - 1) : imports'[n].then = imports[n].then
  <2>1. CASE imports' = f
    BY <1>1, <1>2, <2>1
  <2>2. CASE imports' = [f EXCEPT ![o].state = "stopped"]
    BY <1>1, <1>2, <2>2 DEF Imports
  <2> QED  BY <1>3, <2>1, <2>2
<1>5. ASSUME NEW thens, imports[last].then \notin thens
      PROVE  Pending(thens)' <=> Pending(thens)
  BY <1>1, <1>4, <1>5 DEF Pending
<1>6. Suspended' => Suspended
  BY <1>1, <1>4 DEF Suspended, Pending
<1> HIDE DEF last
<1> QED  BY <1>1, <1>2, <1>4, <1>5, <1>6 DEF last, Suspended, MarksPending

\* What an import that returns has done, in a document outside undo groups.
LEMMA Returned ==
  ASSUME IndInv, CleanInv, NEW i \in DOMAIN imports, ImportReturns(i)
  PROVE  LET yours == imports[i].read IN
         \/ /\ buf = yours /\ ours' = yours /\ snapshot' = yours /\ savedRevision' = revision /\ ~mixed'
            /\ UNCHANGED bufVars /\ Stop(i)
         \/ /\ ~Edited /\ ReloadWith(yours) /\ ours' = yours /\ UNCHANGED snapshot
            /\ RunAnother(i, "marks")
         \/ \E t \in Text :
              /\ (t = yours /\ ~Edited) \/ (Edited /\ snapshot # NoText /\ t = Merge(snapshot, buf, yours))
              /\ ReloadWith(t) /\ ours' = yours /\ snapshot' = yours
              /\ \/ Edited /\ RunAnother(i, IF t = yours THEN "equals" ELSE "differs")
                 \/ savedRevision' = (IF t = yours THEN revision' ELSE -1) /\ ~mixed' /\ Stop(i)
         \/ UNCHANGED <<bufVars, savedRevision, snapshot, mixed, ours>> /\ Stop(i)
<1> DEFINE yours  == imports[i].read
           merged == Merge(snapshot, buf, yours)
<1>1. yours \in Text /\ loaded /\ buf \in Text /\ snapshot \in SomeText
  BY ReadIsText DEF ImportReturns, IndInv, TypeOK, SeqTypes, TextTypes, SomeText
<1>2. snapshot # NoText => merged \in Text
  BY <1>1 DEF Merge, Text, SomeText
<1> HIDE DEF merged
<1>3. CASE yours = buf
  BY <1>3 DEF ImportReturns, MarkSaved, bufVars
<1>4. CASE yours # buf /\ ~Edited
  <2>1. ReloadWith(yours) /\ ours' = yours
    BY <1>4 DEF ImportReturns
  <2>2. buf' = yours
    BY <2>1 DEF ReloadWith
  <2>3. CASE RunAnother(i, "marks") /\ UNCHANGED snapshot
    BY <1>4, <2>1, <2>3
  <2>4. CASE MarkSaved /\ Stop(i)
    BY <1>1, <1>4, <2>1, <2>2, <2>4 DEF MarkSaved
  <2> QED  BY <1>4, <2>3, <2>4 DEF ImportReturns
<1>5. CASE yours # buf /\ Edited /\ snapshot # NoText
  <2>1. ReloadWith(merged) /\ ours' = yours /\ snapshot' = yours
    BY <1>5 DEF ImportReturns, merged
  <2>2. \/ RunAnother(i, IF merged = yours THEN "equals" ELSE "differs")
        \/ savedRevision' = (IF merged = yours THEN revision' ELSE -1) /\ ~mixed' /\ Stop(i)
    BY <1>5 DEF ImportReturns, merged
  <2> QED  BY <1>2, <1>5, <2>1, <2>2 DEF merged
<1>6. CASE yours # buf /\ Edited /\ snapshot = NoText
  BY <1>6 DEF ImportReturns
<1> QED  BY <1>3, <1>4, <1>5, <1>6, Booleans

LEMMA CleanStep ==
  ASSUME ~BusyWhileSaving, IndInv, CleanInv, NestInv, [Next]_vars
  PROVE  CleanInv'
<1> USE ConstAssumption DEF fileVars, bufVars, savedVars, openVars, loadVars, backupVars, sessionVars,
     importVars, watchVars, countVars
<1>0. /\ texts \in Seq(Text) /\ saves \in Seq(Saves) /\ imports \in Seq(Imports)
      /\ Len(texts) \in Nat /\ DOMAIN texts = 1..Len(texts) /\ DOMAIN saves = 1..Len(saves)
      /\ Len(saves) \in Nat /\ (saves = <<>> <=> Len(saves) = 0)
      /\ (saves # <<>> \/ group => loaded) /\ revision \in Int /\ savedRevision \in Int
  BY LenProperties DEF IndInv, TypeOK, SeqTypes, NumberTypes
<1>a. imports = <<>> => ~Suspended /\ ~MarksPending
  BY DEF Suspended, MarksPending, Pending
<1>b. imports' = <<>> => ~Suspended' /\ ~MarksPending'
  BY DEF Suspended, MarksPending, Pending
<1>c. ASSUME \/ UNCHANGED imports \/ StartImport \/ ImportIfNeeded
             \/ \E i \in DOMAIN imports : ImportReads(i) \/ ImportNeverStops(i) \/ Stop(i)
      PROVE  (Suspended' <=> Suspended) /\ (MarksPending' <=> MarksPending)
  BY <1>0, <1>c, ThensKept DEF Suspended, MarksPending
<1>1. CASE Open \/ LoadAgain \/ LoadFromFile \/ LoadReads \/ Deactivate \/ \E t \in SomeText : ExternalChange(t)
  <2>1. CASE Open \/ LoadReads \/ \E t \in SomeText : ExternalChange(t)
    BY <1>c, <2>1 DEF CleanInv, Settled, Open, LoadReads, ExternalChange
  <2>2. CASE LoadAgain \/ LoadFromFile
    BY <1>c, <2>2 DEF CleanInv, Settled, LoadAgain, LoadFromFile, UserEvents
  <2>3. CASE Deactivate
    BY <1>c, <2>3 DEF CleanInv, Settled, Deactivate
  <2> QED  BY <1>1, <2>1, <2>2, <2>3
<1>2. CASE LoadFromBackup
  <2>1. saves = <<>> /\ saves' = <<>> /\ imports' = <<>> /\ ~group' /\ waiting' = 0 /\ loaded'
        /\ UNCHANGED <<deferred, active>>
    BY <1>0, <1>2 DEF LoadFromBackup, LoadBackup, DidLoad, UserEvents
  <2> DEFINE t == backup.text
  <2>2. /\ texts' = <<t>> /\ buf' = t /\ revision' = 1
        /\ \/ savedRevision' = 1 /\ snapshot' = t /\ ours' = t
           \/ savedRevision' = 0 /\ snapshot' = NoText /\ ours' = NoText
    <3>1. LoadBackup
      BY <1>2 DEF LoadFromBackup
    <3> QED  BY <3>1 DEF LoadBackup, DidLoad
  <2> HIDE DEF t
  <2>3. DOMAIN texts' = {1} /\ texts'[1] = t /\ Len(texts') = 1
    BY <2>2
  <2> QED  BY <1>b, <2>1, <2>2, <2>3 DEF CleanInv, Settled
<1>3. CASE LoadReturns
  <2>1. reading # NoText /\ waiting > 0 /\ ~loaded
    BY <1>3 DEF LoadReturns, IsText, CleanInv, IndInv, TypeOK, TextTypes, NumberTypes
  <2>2. saves = <<>> /\ saves' = <<>> /\ ~group' /\ ~group /\ waiting' = 0 /\ loaded' /\ UNCHANGED <<deferred, active>>
        /\ imports' = <<>>
    BY <1>0, <1>3, <2>1 DEF LoadReturns, DidLoad, CleanInv
  <2>3. texts' = <<reading>> /\ buf' = reading /\ revision' = 1 /\ savedRevision' = 1 /\ snapshot' = reading /\ ours' = reading
    BY <1>3 DEF LoadReturns, DidLoad
  <2>4. DOMAIN texts' = {1} /\ texts'[1] = reading /\ Len(texts') = 1
    BY <2>3
  <2> QED  BY <1>b, <2>2, <2>3, <2>4 DEF CleanInv, Settled
<1>4. CASE LoadFails \/ Close
  <2>1. UNCHANGED <<saves, ours, imports, deferred, active>> /\ (waiting' > 0 => waiting > 0) /\ imports = <<>>
    BY <1>4 DEF LoadFails, Close, UserEvents, IndInv, TypeOK, TextTypes, NumberTypes, CleanInv
  <2>2. CASE openCount = 1
    <3>1. saves = <<>>
      BY <1>0, <1>4, <2>2 DEF LoadFails, Close, CleanInv, IndInv, TypeOK, TextTypes, NumberTypes, OpensAreOwed
    <3>2. ~group' /\ ~loaded' /\ backup' = NoBackup /\ texts' = <<>>
      BY <1>4, <2>2 DEF LoadFails, Close, TearDown
    <3>3. DOMAIN texts' = {}
      BY <3>2
    <3> QED  BY <2>1, <3>1, <3>2, <3>3 DEF CleanInv, Settled
  <2>3. CASE openCount # 1
    <3>1. UNCHANGED <<bufVars, savedRevision, snapshot, mixed, loaded, backup, observing>>
      BY <1>4, <2>3 DEF LoadFails, Close
    <3> QED  BY <1>c, <2>1, <3>1 DEF CleanInv, Settled
  <2> QED  BY <2>2, <2>3
<1>5. CASE \E l \in Mine : Edit(l)
  <2>1. /\ imports = <<>> /\ imports' = <<>> /\ saves = <<>> /\ saves' = <<>> /\ loaded /\ group' /\ active
        /\ UNCHANGED <<active, deferred, waiting, loaded, backup, texts, revision, savedVars, ours>>
    BY <1>5 DEF Edit, MayAct
  <2>2. ~Suspended /\ ~Suspended' /\ ~MarksPending /\ ~MarksPending'
    BY <1>a, <1>b, <2>1
  <2> QED  BY <2>1, <2>2 DEF CleanInv, Settled
<1>6. CASE EndGroup
  <2>1. ImportIfNeeded /\ loaded /\ loaded' /\ ~group' /\ saves = <<>>
    BY <1>0, <1>6 DEF EndGroup, CleanInv
  <2>2. (Suspended' <=> Suspended) /\ (MarksPending' <=> MarksPending)
    BY <1>c, <2>1
  <2> QED  BY <1>0, <1>6, <2>1, <2>2 DEF CleanInv, Settled, EndGroup
<1>7. CASE \E r \in DOMAIN texts : Undo(r)
  <2>1. ImportIfNeeded /\ loaded /\ loaded' /\ ~group' /\ ~group /\ saves = <<>> /\ imports = <<>>
    BY <1>0, <1>7 DEF Undo, UserEvents, MayAct
  <2>2. ~Suspended' /\ ~Suspended /\ ~MarksPending
    BY <1>a, <1>c, <2>1
  <2> QED  BY <1>0, <1>7, <2>1, <2>2 DEF CleanInv, Settled, Undo
<1>8. CASE SaveStart
  BY <1>0, <1>c, <1>8 DEF CleanInv, Settled, SaveStart, UserEvents, MayAct
<1>9. CASE SaveRestored
  BY <1>0, <1>b, <1>9 DEF CleanInv, Settled, SaveRestored, LoadBackup, DidLoad, UserEvents
<1>10. CASE \E i \in DOMAIN saves : SaveWrites(i)
  <2>1. PICK i \in DOMAIN saves : SaveWrites(i)
    BY <1>10
  <2>2. i = 1 /\ Len(saves) = 1 /\ saves # <<>> /\ DOMAIN saves = {1}
    BY <1>0, <2>1 DEF CleanInv
  <2>3. saves[1] \in Saves
    BY <1>0, <2>2
  <2>4. PICK st \in {"ok", "failed"} :
          saves' = [saves EXCEPT ![1].state = st] /\ (st = "ok" => ours' = saves[1].text) /\ (st = "failed" => ours' = ours)
    BY <2>1, <2>2 DEF SaveWrites
  <2>5. saves'[1].text = saves[1].text /\ saves'[1].state = st /\ Len(saves') = 1 /\ saves' # <<>>
    BY <1>0, <2>2, <2>3, <2>4 DEF Saves
  <2>6. saves[1].state = "writing" /\ UNCHANGED <<observing, bufVars, savedVars, loadVars, backupVars, importVars, active>>
    BY <2>1, <2>2 DEF SaveWrites
  <2> QED  BY <1>c, <2>2, <2>4, <2>5, <2>6 DEF CleanInv, Settled
<1>11. CASE \E i \in DOMAIN saves : SaveReturns(i)
  <2>1. PICK i \in DOMAIN saves : SaveReturns(i)
    BY <1>11
  <2>2. i = 1 /\ Len(saves) = 1 /\ saves # <<>> /\ loaded /\ waiting = 0 /\ ~group /\ imports = <<>>
    BY <1>0, <2>1 DEF CleanInv, IndInv, TypeOK, NumberTypes
  <2>3. saves' = <<>>
    <3>1. saves' = RemoveAt(saves, 1) /\ 1 \in 1..Len(saves)
      BY <2>1, <2>2 DEF SaveReturns
    <3>2. saves' \in Seq(Saves) /\ Len(saves') = 0
      BY SMTT(30), <1>0, <2>2, <3>1, Removed
    <3> QED  BY <3>2, EmptySeq
  <2>4. UNCHANGED <<waiting, ours, imports, deferred, active>>
    BY <2>1 DEF SaveReturns
  <2>5. CASE openCount = 1
    <3>1. ~group' /\ ~loaded' /\ backup' = NoBackup /\ texts' = <<>>
      BY <2>1, <2>5 DEF SaveReturns, TearDown
    <3>2. DOMAIN texts' = {}
      BY <3>1
    <3> QED  BY <2>2, <2>3, <2>4, <3>1, <3>2 DEF CleanInv, Settled
  <2>6. CASE openCount # 1 /\ saves[1].state = "ok"
    <3>1. UNCHANGED <<bufVars, loaded>> /\ savedRevision' = revision /\ snapshot' = buf
      BY <2>1, <2>2, <2>6 DEF SaveReturns, SaveSucceeds
    <3>2. ours = buf /\ texts[revision] = buf /\ revision \in DOMAIN texts
      BY <2>2, <2>6 DEF CleanInv
    <3> QED  BY <1>0, <1>c, <2>2, <2>3, <2>4, <3>1, <3>2 DEF CleanInv, Settled
  <2>7. CASE openCount # 1 /\ saves[1].state # "ok"
    <3>1. UNCHANGED <<bufVars, savedVars, loaded>>
      BY <2>1, <2>2, <2>7 DEF SaveReturns
    <3> QED  BY <1>c, <2>2, <2>3, <2>4, <2>7, <3>1 DEF CleanInv, Settled
  <2> QED  BY <2>5, <2>6, <2>7
<1>12. CASE FileSystemDidChange
  <2>1. UNCHANGED imports \/ StartImport
    BY <1>12 DEF FileSystemDidChange, NeedsImport
  <2>2. /\ imports' # <<>> /\ imports = <<>> => ~group
        /\ deferred' => deferred \/ (~active /\ ~group)
    BY <1>12 DEF FileSystemDidChange, NeedsImport, StartImport
  <2>3. /\ loaded /\ observing
        /\ UNCHANGED <<observing, waiting, active, saves, ours, bufVars, savedRevision, snapshot, mixed, loaded, backup>>
    BY <1>12 DEF FileSystemDidChange, IndInv, ObservedIsOpen
  <2> QED  BY <1>c, <2>1, <2>2, <2>3 DEF CleanInv, Settled
<1>13. CASE Activate
  <2>1. UNCHANGED imports \/ StartImport
    BY <1>13 DEF Activate
  <2>2. /\ saves = <<>> /\ deferred' = FALSE /\ (imports' # <<>> /\ imports = <<>> => loaded /\ ~group)
    BY <1>13 DEF Activate, MayAct, CleanInv
  <2>3. UNCHANGED <<observing, waiting, saves, ours, bufVars, savedVars, loaded, backup>>
    BY <1>13 DEF Activate
  <2> QED  BY <1>c, <2>1, <2>2, <2>3 DEF CleanInv, Settled
<1>14. CASE \E i \in DOMAIN imports : ImportReads(i) \/ ImportNeverStops(i)
  <2>1. /\ imports # <<>>
        /\ UNCHANGED <<observing, waiting, active, deferred, saves, ours, bufVars, savedVars, loaded, backup>>
    BY <1>14 DEF ImportReads, ImportNeverStops
  <2> QED  BY <1>c, <1>14, <2>1 DEF CleanInv, Settled
<1>15. CASE \E i \in DOMAIN imports : ImportReturns(i)
  <2>0. PICK i \in DOMAIN imports : ImportReturns(i)
    BY <1>15
  <2> DEFINE yours == imports[i].read
  <2>1. ~group /\ saves = <<>> /\ loaded /\ imports # <<>> /\ waiting = 0 /\ yours \in Text
    BY <1>0, <2>0, ReadIsText DEF ImportReturns, CleanInv, IndInv, TypeOK, NumberTypes
  <2>2. UNCHANGED <<saves, waiting, loaded, backup, deferred, active, group, observing>>
    BY <2>0 DEF ImportReturns, ReloadWith
  <2>3. ASSUME NEW t \in Text, ReloadWith(t),
               \/ snapshot' = ours' \/ (t = ours' /\ MarksPending'),
               \/ savedRevision' = -1 \/ (savedRevision' = revision' /\ ours' = t)
               \/ UNCHANGED savedRevision /\ Suspended'
        PROVE  CleanInv'
    <3>1. texts' = Append(texts, t) /\ buf' = t /\ revision' = Len(texts')
      BY <2>1, <2>3 DEF ReloadWith
    <3>2. texts' \in Seq(Text) /\ Len(texts') = Len(texts) + 1 /\ DOMAIN texts' = 1..(Len(texts) + 1)
          /\ texts'[Len(texts) + 1] = t
      BY <1>0, <3>1, AppendProperties
    <3>3. revision' = Len(texts) + 1 /\ savedRevision <= Len(texts)
      BY <2>1, <3>1, <3>2 DEF CleanInv
    <3>4. savedRevision' \in DOMAIN texts' /\ (Suspended' => savedRevision' = revision') => texts'[savedRevision'] = ours'
      BY <1>0, <2>3, <3>2, <3>3
    <3>5. savedRevision' <= Len(texts')
      BY <1>0, <2>3, <3>2, <3>3
    <3> QED  BY <1>0, <2>1, <2>2, <2>3, <3>1, <3>2, <3>3, <3>4, <3>5 DEF CleanInv, Settled
  <2>4. CASE /\ buf = yours /\ ours' = yours /\ snapshot' = yours /\ savedRevision' = revision
             /\ UNCHANGED bufVars /\ Stop(i)
    BY <1>0, <2>1, <2>2, <2>4 DEF CleanInv, Settled
  <2>5. CASE ReloadWith(yours) /\ ours' = yours /\ UNCHANGED snapshot /\ RunAnother(i, "marks")
    <3>1. Suspended' /\ MarksPending' /\ UNCHANGED savedRevision
      BY <1>0, <2>5, AnotherRuns DEF RunAnother
    <3> QED  BY <2>1, <2>3, <2>5, <3>1
  <2>6. ASSUME NEW t \in Text, ReloadWith(t), ours' = yours, snapshot' = yours,
               \/ RunAnother(i, IF t = yours THEN "equals" ELSE "differs")
               \/ savedRevision' = (IF t = yours THEN revision' ELSE -1)
        PROVE  CleanInv'
    <3>1. CASE RunAnother(i, IF t = yours THEN "equals" ELSE "differs")
      <4>1. Suspended' /\ UNCHANGED savedRevision
        BY <1>0, <3>1, AnotherRuns DEF RunAnother
      <4> QED  BY <2>3, <2>6, <4>1
    <3>2. CASE savedRevision' = IF t = yours THEN revision' ELSE -1
      BY <2>3, <2>6, <3>2
    <3> QED  BY <2>6, <3>1, <3>2
  <2>7. CASE UNCHANGED <<bufVars, savedRevision, snapshot, mixed, ours>> /\ Stop(i)
    BY <1>c, <2>1, <2>2, <2>7 DEF CleanInv, Settled
  <2> QED  BY <2>0, <2>4, <2>5, <2>6, <2>7, Returned
<1>20. CASE ImportStops
  <2> DEFINE last == Len(imports)
             then == imports[last].then
  <2>1. /\ imports # <<>> /\ ~group /\ saves = <<>> /\ loaded /\ buf = texts[revision]
        /\ UNCHANGED <<saves, waiting, loaded, backup, deferred, active, observing, bufVars, ours>>
    BY <1>20 DEF ImportStops, CleanInv
  <2>2. last \in DOMAIN imports /\ Last(imports) = imports[last] /\ imports[last] \in Imports
        /\ DOMAIN imports = 1..last /\ last \in Nat
    BY <1>0, <1>20, InnermostEnds
  <2>3. (then = "nothing" => (Suspended' <=> Suspended)) /\ (then # "marks" => (MarksPending' <=> MarksPending))
    BY <1>0, <1>20, InnermostEnds
  <2> HIDE DEF last
  <2>4. CASE then = "nothing"
    <3>1. UNCHANGED <<savedRevision, snapshot, mixed>>
      BY <1>20, <2>2, <2>4 DEF ImportStops
    <3> QED  BY <2>1, <2>3, <2>4, <3>1 DEF CleanInv, Settled
  <2>5. CASE then # "nothing"
    <3>1. GoOn(imports[last])
      BY <1>20, <2>2, <2>5 DEF ImportStops
    <3>2. then \in {"marks", "equals"} /\ ~mixed /\ savedRevision # -1 => buf = ours
      BY <2>2 DEF NestInv
    <3>3. then # "differs" /\ ~mixed' => buf = ours
      BY <2>2, <2>5, <3>1, <3>2 DEF GoOn, Imports
    <3>4. /\ savedRevision' \in {-1, revision} /\ (savedRevision' = revision => then # "differs")
          /\ (mixed => mixed') /\ snapshot' = IF then = "marks" THEN buf ELSE snapshot
      <4>1. revision # -1
        BY <1>0, <2>1 DEF CleanInv
      <4> QED  BY <3>1, <4>1 DEF GoOn
    <3>5. ~mixed' => snapshot' = ours \/ (buf = ours /\ MarksPending')
      BY <2>1, <2>3, <3>3, <3>4 DEF CleanInv, Settled
    <3>6. savedRevision' \in DOMAIN texts /\ ~mixed' => texts[savedRevision'] = ours
      BY <1>0, <2>1, <3>3, <3>4
    <3>7. savedRevision' <= Len(texts)
      BY <1>0, <2>1, <3>4 DEF CleanInv
    <3> QED  BY <2>1, <3>5, <3>6, <3>7 DEF CleanInv, Settled
  <2> QED  BY <2>4, <2>5
<1>16. CASE BackupTimerDidFire \/ SaveSession
  <2>1. UNCHANGED <<imports, group, deferred, active, waiting, loaded, saves, observing, buf, ours, revision, texts,
                    savedRevision, snapshot, mixed>>
    BY <1>16 DEF BackupTimerDidFire, SaveSession
  <2>2. waiting > 0 => backup' = NoBackup
    BY <1>16 DEF BackupTimerDidFire, SaveSession, SaveBackup, NeedsBackup, CleanInv
  <2> QED  BY <1>c, <2>1, <2>2 DEF CleanInv, Settled
<1>17. CASE Crash
  BY <1>0, <1>17 DEF CleanInv, Settled, Crash
<1>18. CASE UNCHANGED vars
  BY <1>0, <1>c, <1>18 DEF CleanInv, Settled, vars
<1>19. (\E ts \in SUBSET Theirs : ExternalChange((Content \ Theirs) \cup ts)) \/ ExternalChange(NoText)
         => \E t \in SomeText : ExternalChange(t)
  BY DEF SomeText, Text, Content, IndInv, TypeOK, TextTypes
<1> QED
  BY <1>1, <1>2, <1>3, <1>4, <1>5, <1>6, <1>7, <1>8, <1>9, <1>10, <1>11, <1>12, <1>13, <1>14, <1>15, <1>16,
     <1>17, <1>18, <1>19, <1>20 DEF Next

LEMMA NestStep ==
  ASSUME ~BusyWhileSaving, IndInv, CleanInv, NestInv, [Next]_vars
  PROVE  NestInv'
<1> USE DEF fileVars, bufVars, savedVars, openVars, loadVars, backupVars, sessionVars, importVars, watchVars, countVars
<1>0. imports \in Seq(Imports) /\ DOMAIN imports = 1..Len(imports) /\ Len(imports) \in Nat
      /\ \A n \in DOMAIN imports : imports[n] \in Imports
  BY LenProperties, ElementOfSeq DEF IndInv, TypeOK, SeqTypes
<1>1. ASSUME imports' = <<>> PROVE NestInv'
  BY <1>1 DEF NestInv
<1>2. ASSUME \/ UNCHANGED imports \/ StartImport \/ ImportIfNeeded
             \/ \E i \in DOMAIN imports : ImportReads(i) \/ ImportNeverStops(i) \/ Stop(i),
             UNCHANGED <<buf, ours, savedRevision, mixed>> \/ imports = <<>> \/ buf' = ours' \/ savedRevision' = -1
      PROVE  NestInv'
  <2>0. "nothing" \notin {"marks"}
    OBVIOUS
  <2>1. /\ \A n \in DOMAIN imports : n \in DOMAIN imports' /\ imports'[n].then = imports[n].then
        /\ \A n \in DOMAIN imports' : n \notin DOMAIN imports => imports'[n].then = "nothing"
    BY <1>0, <1>2, <2>0, ThensKept
  <2>2. CASE buf' = ours' \/ savedRevision' = -1
    BY <2>2 DEF NestInv
  <2>3. CASE imports = <<>>
    BY <2>1, <2>3 DEF NestInv
  <2>4. CASE UNCHANGED <<buf, ours, savedRevision, mixed>>
    BY <2>1, <2>4 DEF NestInv
  <2> QED  BY <1>2, <2>2, <2>3, <2>4
<1>3. CASE Open \/ LoadAgain \/ LoadFromBackup \/ LoadFromFile \/ LoadReturns \/ LoadFails \/ Close \/ SaveStart
           \/ SaveRestored \/ Crash \/ (\E l \in Mine : Edit(l))
           \/ (\E i \in DOMAIN saves : SaveWrites(i) \/ SaveReturns(i))
  <2>1. CASE \/ Open \/ LoadAgain \/ LoadFromBackup \/ LoadFromFile \/ Close \/ SaveStart \/ SaveRestored
             \/ Crash \/ \E l \in Mine : Edit(l)
    BY <1>1, <2>1 DEF Open, LoadAgain, LoadFromBackup, LoadFromFile, Close, SaveStart, SaveRestored, Crash, Edit, UserEvents
  <2>2. CASE LoadReturns \/ LoadFails
    <3>1. waiting > 0 /\ UNCHANGED imports
      BY ConstAssumption, <2>2 DEF LoadReturns, LoadFails, IsText, IndInv, TypeOK, TextTypes, NumberTypes
    <3> QED  BY <1>1, <3>1 DEF CleanInv
  <2>3. CASE \E i \in DOMAIN saves : SaveWrites(i) \/ SaveReturns(i)
    <3>1. saves # <<>> /\ UNCHANGED imports
      BY <2>3 DEF SaveWrites, SaveReturns
    <3> QED  BY <1>1, <3>1 DEF CleanInv
  <2> QED  BY <1>3, <2>1, <2>2, <2>3
<1>4. CASE LoadReads \/ Deactivate \/ (\E t : ExternalChange(t)) \/ BackupTimerDidFire \/ SaveSession \/ UNCHANGED vars
  BY <1>2, <1>4 DEF LoadReads, Deactivate, ExternalChange, BackupTimerDidFire, SaveSession, vars
<1>5. CASE EndGroup \/ (\E r \in DOMAIN texts : Undo(r)) \/ FileSystemDidChange \/ Activate
  <2>1. CASE EndGroup \/ \E r \in DOMAIN texts : Undo(r)
    BY <1>2, <2>1 DEF EndGroup, Undo, UserEvents
  <2>2. CASE FileSystemDidChange \/ Activate
    BY <1>2, <2>2 DEF FileSystemDidChange, Activate, NeedsImport
  <2> QED  BY <1>5, <2>1, <2>2
<1>6. CASE \E i \in DOMAIN imports : ImportReads(i) \/ ImportNeverStops(i)
  BY <1>2, <1>6 DEF ImportReads, ImportNeverStops
<1>7. CASE \E i \in DOMAIN imports : ImportReturns(i)
  <2>0. PICK i \in DOMAIN imports : ImportReturns(i)
    BY <1>7
  <2> DEFINE yours == imports[i].read
  <2>1. ASSUME NEW then \in {"marks", "equals", "differs"}, RunAnother(i, then), buf' = ours' \/ then = "differs"
        PROVE  NestInv'
    <3>1. CASE buf' = ours'
      BY <3>1 DEF NestInv
    <3>2. CASE then = "differs"
      <4>1. /\ DOMAIN imports' = 1..(Len(imports) + 1) /\ imports'[Len(imports) + 1].then = "differs"
        BY <1>0, <2>1, <3>2, AnotherRuns
      <4>2. \A n \in DOMAIN imports' : imports'[n].then \in {"marks", "equals"} =>
              \E m \in DOMAIN imports' : m > n /\ imports'[m].then = "differs"
        BY <1>0, <4>1
      <4> QED  BY <4>2 DEF NestInv
    <3> QED  BY <2>1, <3>1, <3>2
  <2>2. CASE buf = yours /\ ours' = yours /\ UNCHANGED bufVars /\ Stop(i)
    BY <1>2, <2>2
  <2>3. CASE ReloadWith(yours) /\ ours' = yours /\ RunAnother(i, "marks")
    BY <2>1, <2>3 DEF ReloadWith
  <2>4. ASSUME NEW t \in Text, ReloadWith(t), ours' = yours,
               \/ RunAnother(i, IF t = yours THEN "equals" ELSE "differs")
               \/ savedRevision' = (IF t = yours THEN revision' ELSE -1) /\ Stop(i)
        PROVE  NestInv'
    <3>0. buf' = t
      BY <2>4 DEF ReloadWith
    <3>1. CASE RunAnother(i, IF t = yours THEN "equals" ELSE "differs")
      BY <2>1, <2>4, <3>0, <3>1
    <3>2. CASE savedRevision' = (IF t = yours THEN revision' ELSE -1) /\ Stop(i)
      BY <1>2, <2>4, <3>0, <3>2
    <3> QED  BY <2>4, <3>1, <3>2
  <2>5. CASE UNCHANGED <<bufVars, savedRevision, snapshot, mixed, ours>> /\ Stop(i)
    BY <1>2, <2>5
  <2> QED  BY <2>0, <2>2, <2>3, <2>4, <2>5, Returned
<1>8. CASE ImportStops
  <2> DEFINE last == Len(imports)
             then == imports[last].then
  <2>1. /\ last \in DOMAIN imports /\ Last(imports) = imports[last] /\ DOMAIN imports = 1..last /\ last \in Nat
        /\ DOMAIN imports' = 1..(last - 1)
        /\ \A n \in 1..(last - 1) : imports'[n].then = imports[n].then
    BY <1>0, <1>8, InnermostEnds
  <2>2. UNCHANGED <<buf, ours>>
    BY <1>8 DEF ImportStops
  <2> HIDE DEF last
  <2>3. CASE then = "nothing"
    <3>1. UNCHANGED <<savedRevision, mixed>>
      BY <1>8, <2>1, <2>3 DEF ImportStops
    <3> QED  BY <2>1, <2>2, <2>3, <3>1 DEF NestInv
  <2>4. CASE then # "nothing"
    <3>1. GoOn(imports[last])
      BY <1>8, <2>1, <2>4 DEF ImportStops
    <3>2. then \in {"marks", "equals"} /\ ~mixed /\ savedRevision # -1 => buf = ours
      BY <2>1 DEF NestInv
    <3>3. then \in {"marks", "equals", "differs"}
      BY <1>0, <2>1, <2>4 DEF Imports
    <3>4. savedRevision' = -1 \/ (~mixed' => buf = ours)
      BY <3>1, <3>2, <3>3 DEF GoOn
    <3> QED  BY <2>2, <3>4 DEF NestInv
  <2> QED  BY <2>3, <2>4
<1> QED  BY <1>3, <1>4, <1>5, <1>6, <1>7, <1>8 DEF Next

LEMMA InitClean == Init => CleanInv /\ NestInv /\ CrashInv
<1> SUFFICES ASSUME Init PROVE CleanInv /\ NestInv /\ CrashInv
  OBVIOUS
<1>1. DOMAIN texts = {} /\ imports = <<>>
  BY DEF Init
<1>2. NestInv
  BY <1>1 DEF NestInv
<1> QED  BY <1>1, <1>2 DEF Init, CleanInv, CrashInv

LEMMA CleanIsSaved == CleanInv => CleanMeansSaved
<1> SUFFICES ASSUME CleanInv, loaded, onDisk, ~group, saves = <<>>, ~Edited, ~mixed
             PROVE  buf = ours
  BY DEF CleanMeansSaved
<1>1. revision = savedRevision /\ revision \in DOMAIN texts /\ buf = texts[revision]
  BY DEF CleanInv, Edited
<1> QED  BY <1>1 DEF CleanInv, Settled

\* If nothing happens while a save is under way, a document that says it is not
\* edited has the text of its file: the revision it has is the one it was saved
\* or read as (but for a mixture that show_content marked as saved, `mixed').
THEOREM CleanIsOurs ==
  ASSUME ~BusyWhileSaving
  PROVE  Spec => []CleanMeansSaved
<1>1. Init => IndInv /\ CleanInv /\ NestInv
  BY InitInd, InitClean
<1>2. (IndInv /\ CleanInv /\ NestInv) /\ [Next]_vars => (IndInv /\ CleanInv /\ NestInv)'
  BY StepInd, CleanStep, NestStep
<1> QED  BY <1>1, <1>2, CleanIsSaved, PTL DEF Spec

-----------------------------------------------------------------------------
LEMMA ImportKeeps ==
  ASSUME IndInv, CleanInv
  PROVE  ImportKeepsMine
<1> SUFFICES ASSUME ~mixed, NEW i \in DOMAIN imports, ImportReturns(i), ours # NoText, onDisk \/ buf # {}
             PROVE  buf \ ours \subseteq buf' /\ (ours \ buf) \cap buf' = {}
  BY DEF ImportKeepsMine
<1>1. ~group /\ saves = <<>> /\ loaded /\ (snapshot = ours \/ buf = ours)
  BY DEF ImportReturns, CleanInv, Settled
<1>2. ~Edited => buf = ours
  <2>1. SUFFICES ASSUME ~Edited PROVE buf = ours
    OBVIOUS
  <2>2. revision = savedRevision /\ revision \in DOMAIN texts /\ buf = texts[revision]
    BY <1>1, <2>1 DEF CleanInv, Edited
  <2> QED  BY <1>1, <2>2 DEF CleanInv, Settled
<1>3. CASE buf = ours
  <2>1. buf \ ours = {} /\ ours \ buf = {}
    BY <1>3
  <2> QED  BY <2>1
<1>4. CASE Edited /\ snapshot = ours
  <2>1. UNCHANGED buf \/ buf' = Merge(ours, buf, imports[i].read)
    BY <1>4, Returned DEF ReloadWith, bufVars
  <2>2. CASE UNCHANGED buf
    BY <2>2
  <2>3. CASE buf' = Merge(ours, buf, imports[i].read)
    BY <2>3 DEF Merge
  <2> QED  BY <2>1, <2>2, <2>3
<1> QED  BY <1>1, <1>2, <1>3, <1>4, Booleans

\* An import never costs the user's own changes: the text it merges with is the
\* one the file had, and the buffer's if the document is not edited.  That holds
\* for imports inside others too, until one marks a mixture as saved (`mixed').
THEOREM ImportKeepsTheUsers ==
  ASSUME ~BusyWhileSaving
  PROVE  Spec => [][ImportKeepsMine]_vars
<1>1. Init => IndInv /\ CleanInv /\ NestInv
  BY InitInd, InitClean
<1>2. (IndInv /\ CleanInv /\ NestInv) /\ [Next]_vars => (IndInv /\ CleanInv /\ NestInv)' /\ [ImportKeepsMine]_vars
  BY StepInd, CleanStep, NestStep, ImportKeeps
<1> QED  BY <1>1, <1>2, PTL DEF Spec

-----------------------------------------------------------------------------
LEMMA CrashStep ==
  ASSUME ~BusyWhileSaving, ~RunLoopInGroups, IndInv, CleanInv, CrashInv, [Next]_vars
  PROVE  CrashInv'
<1> USE ConstAssumption DEF fileVars, bufVars, savedVars, openVars, loadVars, backupVars, sessionVars,
     importVars, watchVars, countVars
<1>0. /\ texts \in Seq(Text) /\ Len(texts) \in Nat /\ DOMAIN texts = 1..Len(texts)
      /\ (loaded <=> texts # <<>>) /\ revision \in Int /\ savedRevision \in Int /\ backupRevision \in Int
      /\ loaded \in BOOLEAN /\ session \in BOOLEAN /\ group \in BOOLEAN /\ waiting \in Nat
      /\ (saves # <<>> \/ group => loaded)
  BY LenProperties DEF IndInv, TypeOK, SeqTypes, NumberTypes, FlagTypes
<1>1. ASSUME UNCHANGED <<bufVars, savedVars, loaded, backupVars, sessionVars, expected>>
      PROVE  CrashInv'
  BY <1>1 DEF CrashInv, Edited
<1>2. ASSUME ~loaded', backup' = NoBackup, ~timer', expected' = NoText, ~group'
      PROVE  CrashInv'
  BY <1>2 DEF CrashInv
<1>3. CASE Open \/ LoadAgain \/ LoadFromFile \/ LoadReads \/ Deactivate \/ SaveStart \/ Activate
           \/ (\E i \in DOMAIN imports : ImportReads(i) \/ ImportNeverStops(i)) \/ (\E t \in SomeText : ExternalChange(t))
           \/ (\E i \in DOMAIN saves : SaveWrites(i)) \/ UNCHANGED vars
  BY <1>1, <1>3 DEF Open, LoadAgain, LoadFromFile, LoadReads, Deactivate, ImportNeverStops, SaveStart, Activate,
     ImportReads, ExternalChange, SaveWrites, vars
<1>4. CASE LoadFromBackup \/ SaveRestored
  <2> DEFINE t == backup.text
  <2>1. LoadBackup /\ ~loaded /\ backup # NoBackup /\ UNCHANGED <<expected, backup>>
    BY <1>4 DEF LoadFromBackup, SaveRestored, LoadBackup
  <2>2. /\ texts' = <<t>> /\ buf' = t /\ revision' = 1 /\ backupRevision' = 1 /\ loaded' /\ sessionTimer' /\ ~group'
        /\ (revision # savedRevision => savedRevision' = 0)
    BY <2>1 DEF LoadBackup, DidLoad, Edited
  <2> HIDE DEF t
  <2>3. DOMAIN texts' = {1} /\ texts'[1] = t
    BY <2>2
  <2>4. expected # NoText => t = expected.text /\ (expected.known => revision # savedRevision)
    BY <2>1 DEF CrashInv, t
  <2> QED  BY <2>1, <2>2, <2>3, <2>4 DEF CrashInv, t
<1>5. CASE LoadReturns
  <2>1. reading # NoText /\ waiting > 0 /\ ~loaded
    BY <1>5 DEF LoadReturns, IsText, CleanInv, IndInv, TypeOK, TextTypes, NumberTypes
  <2>2. backup = NoBackup /\ expected = NoText /\ UNCHANGED <<expected, backup>>
    BY <1>5, <2>1 DEF LoadReturns, CleanInv, CrashInv
  <2>3. texts' = <<reading>> /\ revision' = 1 /\ backupRevision' = 1 /\ loaded' /\ sessionTimer' /\ ~group'
    BY <1>5 DEF LoadReturns, DidLoad
  <2>4. DOMAIN texts' = {1}
    BY <2>3
  <2> QED  BY <2>2, <2>3, <2>4 DEF CrashInv
<1>6. CASE LoadFails \/ Close
  <2>1. CASE openCount = 1
    BY <1>2, <1>6, <2>1 DEF LoadFails, Close, TearDown
  <2>2. CASE openCount # 1
    BY <1>1, <1>6, <2>2 DEF LoadFails, Close
  <2> QED  BY <2>1, <2>2
<1>7. CASE \E l \in Mine : Edit(l)
  BY <1>0, <1>7 DEF CrashInv, Edit
<1>8. ASSUME NEW t \in Text, texts' = texts \/ texts' = Append(texts, t), loaded, loaded', ~group', sessionTimer',
             UNCHANGED <<backup, backupRevision>>, expected' = NoText
      PROVE  CrashInv'
  <2>1. \A r \in DOMAIN texts : r \in DOMAIN texts' /\ texts'[r] = texts[r]
    BY <1>0, <1>8, AppendProperties
  <2> QED  BY <1>8, <2>1 DEF CrashInv
<1>9. CASE EndGroup
  <2>1. group /\ loaded /\ buf \in Text
    BY <1>0, <1>9 DEF EndGroup, IndInv, TypeOK, TextTypes, SomeText
  <2>2. texts' = Append(texts, buf) /\ loaded' /\ ~group' /\ sessionTimer' /\ UNCHANGED <<backup, backupRevision>>
    BY <1>9, <2>1 DEF EndGroup
  <2>3. expected' = NoText
    BY <1>9, <2>1 DEF EndGroup, CrashInv
  <2> QED  BY <1>8, <2>1, <2>2, <2>3
<1>10. CASE \E r \in DOMAIN texts : Undo(r)
  <2>1. buf \in Text /\ texts' = texts /\ loaded /\ loaded' /\ ~group' /\ sessionTimer'
        /\ UNCHANGED <<backup, backupRevision>> /\ expected' = NoText
    BY <1>0, <1>10 DEF Undo, UserEvents, IndInv, TypeOK, TextTypes, SomeText
  <2> QED  BY <1>8, <2>1
<1>11. CASE \E i \in DOMAIN saves : SaveReturns(i)
  <2>1. PICK i \in DOMAIN saves : SaveReturns(i)
    BY <1>11
  <2>2. ~group /\ loaded /\ buf \in Text
    BY <1>0, <2>1 DEF SaveReturns, CleanInv, IndInv, TypeOK, TextTypes, SomeText
  <2>3. CASE openCount = 1
    BY <1>2, <2>1, <2>3 DEF SaveReturns, TearDown
  <2>4. CASE openCount # 1 /\ saves[i].state = "ok"
    <3>1. /\ backup' = NoBackup /\ expected' = NoText /\ sessionTimer'
          /\ UNCHANGED <<bufVars, loaded, backupRevision>>
      BY <2>1, <2>4 DEF SaveReturns, SaveSucceeds
    <3> QED  BY <2>2, <3>1 DEF CrashInv
  <2>5. CASE openCount # 1 /\ saves[i].state # "ok"
    BY <1>1, <2>1, <2>5 DEF SaveReturns
  <2> QED  BY <2>3, <2>4, <2>5
<1>12. CASE FileSystemDidChange
  <2>1. sessionTimer' /\ UNCHANGED <<bufVars, savedRevision, loaded, backupVars, expected>>
    BY <1>12 DEF FileSystemDidChange
  <2> QED  BY <2>1 DEF CrashInv
<1>13. CASE \E i \in DOMAIN imports : ImportReturns(i)
  <2>0. PICK i \in DOMAIN imports : ImportReturns(i)
    BY <1>13
  <2>1. loaded /\ loaded' /\ sessionTimer' /\ expected' = NoText /\ ~group' /\ UNCHANGED <<backup, backupRevision>>
    BY <2>0 DEF ImportReturns, ReloadWith, CleanInv
  <2>2. \E t \in Text : texts' = texts \/ texts' = Append(texts, t)
    <3>1. imports[i].read \in Text /\ ~group
      BY <2>0, ReadIsText DEF ImportReturns, IndInv, TypeOK, SeqTypes, CleanInv
    <3> QED  BY <2>0, <3>1, Returned DEF ReloadWith
  <2> QED  BY <1>8, <2>1, <2>2
<1>19. CASE ImportStops
  <2>1. UNCHANGED <<bufVars, onDisk, loaded, backupVars, session>> /\ loaded /\ ~group
    BY <1>19 DEF ImportStops, CleanInv
  <2>2. CASE UNCHANGED <<savedVars, sessionTimer, expected>>
    BY <1>1, <2>1, <2>2
  <2>3. CASE sessionTimer' /\ expected' = NoText
    BY <1>0, <2>1, <2>3 DEF CrashInv
  <2> QED  BY <1>19, <2>1, <2>2, <2>3 DEF ImportStops, GoOn
<1>14. ASSUME ~group, loaded, SaveBackup, UNCHANGED <<bufVars, savedVars, loaded, expected>>,
              ~sessionTimer' => session' = Edited
       PROVE  CrashInv'
  <2>1. revision \in DOMAIN texts /\ buf = texts[revision]
    BY <1>14 DEF CleanInv
  <2>2. Edited' = Edited /\ (Edited => NeedsBackup)
    BY <1>14 DEF Edited, NeedsBackup
  <2>3. CASE ~NeedsBackup
    BY <1>0, <1>14, <2>2, <2>3 DEF SaveBackup, CrashInv
  <2>4. CASE NeedsBackup /\ BackupIsCurrent
    BY <1>0, <1>14, <2>2, <2>4 DEF SaveBackup, BackupIsCurrent, CrashInv
  <2>5. CASE NeedsBackup /\ ~BackupIsCurrent
    <3>1. backup' = [text |-> buf, modified |-> Edited, missing |-> ~onDisk] /\ backupRevision' = revision
      BY <1>14, <2>5 DEF SaveBackup
    <3>2. backup'.text = buf /\ (backup'.modified \/ backup'.missing)
      BY <2>5, <3>1 DEF NeedsBackup, Edited
    <3>3. backup' # NoBackup
      <4>1. buf \in SUBSET Lines /\ Edited \in BOOLEAN /\ (~onDisk) \in BOOLEAN
        BY <1>14, Booleans DEF IndInv, TypeOK, TextTypes, SomeText, Text
      <4>2. backup' \in [text : SUBSET Lines, modified : BOOLEAN, missing : BOOLEAN]
        BY <3>1, <4>1
      <4> QED  BY <4>2
    <3> QED  BY <1>0, <1>14, <2>1, <2>2, <3>1, <3>2, <3>3 DEF CrashInv
  <2> QED  BY <2>3, <2>4, <2>5
<1>15. CASE BackupTimerDidFire
  <2>1. ~group /\ loaded /\ SaveBackup /\ UNCHANGED <<bufVars, savedVars, loaded, expected, sessionVars>>
    BY <1>15 DEF BackupTimerDidFire, RunLoopEvents, CrashInv
  <2> QED  BY <1>14, <2>1 DEF CrashInv
<1>16. CASE SaveSession
  <2>1. ~group /\ ~sessionTimer' /\ session' = Edited /\ UNCHANGED <<bufVars, savedVars, loaded, expected>>
    BY <1>16 DEF SaveSession, RunLoopEvents
  <2>2. CASE loaded /\ Edited
    BY <1>14, <1>16, <2>1, <2>2 DEF SaveSession
  <2>3. CASE ~(loaded /\ Edited)
    <3>1. UNCHANGED backupVars
      BY <1>16, <2>3 DEF SaveSession
    <3>2. Edited' = Edited
      BY <2>1 DEF Edited
    <3> QED  BY <2>1, <2>3, <3>1, <3>2 DEF CrashInv
  <2> QED  BY <2>2, <2>3
<1>17. CASE Crash
  <2>1. ~loaded' /\ ~timer' /\ ~group' /\ revision' = 0
    BY <1>17 DEF Crash
  <2>2. backup' \in {NoBackup, backup}
    BY <1>17 DEF Crash
  <2>3. CASE expected' = NoText
    BY <2>1, <2>2, <2>3 DEF CrashInv
  <2>4. CASE expected' # NoText
    <3>1. loaded /\ ~group /\ ~timer /\ ~sessionTimer /\ buf # ours /\ ~mixed /\ (onDisk \/ buf # {})
      BY <1>17, <2>4 DEF Crash
    <3>2. revision \in DOMAIN texts /\ buf = texts[revision] /\ revision # savedRevision
      BY <3>1 DEF CleanInv, Settled
    <3>3. Edited
      BY <3>1, <3>2 DEF Edited
    <3>4. session /\ backup # NoBackup /\ backup.text = buf
      BY <3>1, <3>2, <3>3 DEF CrashInv
    <3>5. /\ backup' = backup /\ expected'.text = buf /\ expected'.known = ~backup.missing
          /\ savedRevision' = IF backup.modified THEN -1 ELSE 0
      BY <1>17, <3>1, <3>4 DEF Crash
    <3> QED  BY <2>1, <3>4, <3>5 DEF CrashInv
  <2> QED  BY <2>3, <2>4
<1>18. (\E ts \in SUBSET Theirs : ExternalChange((Content \ Theirs) \cup ts)) \/ ExternalChange(NoText)
         => \E t \in SomeText : ExternalChange(t)
  BY DEF SomeText, Text, Content, IndInv, TypeOK, TextTypes
<1> QED
  BY <1>3, <1>4, <1>5, <1>6, <1>7, <1>9, <1>10, <1>11, <1>12, <1>13, <1>15, <1>16, <1>17, <1>18, <1>19 DEF Next

LEMMA CrashIsRestored == CrashInv => RestoredAfterCrash
<1> SUFFICES ASSUME CrashInv, loaded, expected # NoText
             PROVE  buf = expected.text /\ (expected.known => Edited \/ (buf = {} /\ ~onDisk))
  BY DEF RestoredAfterCrash
<1> QED  BY DEF CrashInv, Edited

\* After a crash the session brings back unsaved text, marked as such: if
\* neither timer runs there is a backup of the revision that the buffer has, and
\* the saved session says that the document is edited (unless it is `mixed').
THEOREM CrashRestores ==
  ASSUME ~BusyWhileSaving, ~RunLoopInGroups
  PROVE  Spec => []RestoredAfterCrash
<1> DEFINE Inv == IndInv /\ CleanInv /\ NestInv /\ CrashInv
<1>1. Init => Inv
  BY InitInd, InitClean
<1>2. Inv /\ [Next]_vars => Inv'
  BY StepInd, CleanStep, NestStep, CrashStep
<1>3. Inv => RestoredAfterCrash
  BY CrashIsRestored
<1> QED  BY <1>1, <1>2, <1>3, PTL DEF Spec

-----------------------------------------------------------------------------
\* The same of the document that MCDocument checks under the name "given".
IsGiven == instance = "given"

LEMMA GivenInit == MCInit /\ IsGiven => Init
BY DEF MCInit, IsGiven

LEMMA GivenStep == IsGiven' /\ [MCNext]_<<vars, instance>> => IsGiven /\ [Next]_vars
BY DEF MCNext, IsGiven

\* A document that the user leaves alone while it is saved, and that says it is
\* not edited, has the text of its file (isDocumentEdited, didLoadContent, save
\* and import), unless an import marked a mixture as saved.
THEOREM CleanIsSavedHere ==
  ASSUME ~BusyWhileSaving
  PROVE  MCSpec => []CleanSaved
<1> DEFINE Inv == IsGiven => IndInv /\ CleanInv /\ NestInv
<1>1. MCInit => Inv
  BY GivenInit, InitInd, InitClean
<1>2. Inv /\ [MCNext]_<<vars, instance>> => Inv'
  <2> SUFFICES ASSUME Inv, [MCNext]_<<vars, instance>>, IsGiven' PROVE (IndInv /\ CleanInv /\ NestInv)'
    OBVIOUS
  <2>1. IsGiven /\ [Next]_vars
    BY GivenStep
  <2>2. IndInv /\ CleanInv /\ NestInv
    BY <2>1
  <2> QED  BY <2>1, <2>2, StepInd, CleanStep, NestStep
<1>3. Inv => CleanSaved
  BY CleanIsSaved DEF CleanSaved, IsGiven
<1> QED  BY <1>1, <1>2, <1>3, PTL DEF MCSpec

\* If moreover no run loop runs inside an undo group, the backup and the session
\* bring unsaved text back after a crash, marked as unsaved (saveBackup,
\* tryLoadBackup and saveSessionIncludingUntitledDocuments), but for a mixture
\* that an import marked as saved.
THEOREM CrashRestoresHere ==
  ASSUME ~BusyWhileSaving, ~RunLoopInGroups
  PROVE  MCSpec => []Restored
<1> DEFINE Inv == IsGiven => IndInv /\ CleanInv /\ NestInv /\ CrashInv
<1>1. MCInit => Inv
  BY GivenInit, InitInd, InitClean
<1>2. Inv /\ [MCNext]_<<vars, instance>> => Inv'
  <2> SUFFICES ASSUME Inv, [MCNext]_<<vars, instance>>, IsGiven' PROVE (IndInv /\ CleanInv /\ NestInv /\ CrashInv)'
    OBVIOUS
  <2>1. IsGiven /\ [Next]_vars
    BY GivenStep
  <2>2. IndInv /\ CleanInv /\ NestInv /\ CrashInv
    BY <2>1
  <2> QED  BY <2>1, <2>2, StepInd, CleanStep, NestStep, CrashStep
<1>3. Inv => Restored
  BY CrashIsRestored DEF Restored, IsGiven
<1> QED  BY <1>1, <1>2, <1>3, PTL DEF MCSpec
=============================================================================
