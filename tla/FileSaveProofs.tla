---------------------------- MODULE FileSaveProofs ----------------------------
(***************************************************************************)
(* Every save, whatever its encodings, hooks, answers and failures, is     *)
(* reported exactly once, and file::save implements SaveContract.          *)
(***************************************************************************)
EXTENDS FileSave, DataLemmas

\* Who can have the context in which state, and what has happened by then.
Ownership ==
  /\ holder = "filter" =>
       \/ state = "ExecuteTextExportFilter" /\ textDone # <<>>
       \/ state = "ExecuteBinaryExportFilter" /\ binaryDone # <<>>
  /\ holder \in {"writer", "posted"} => state = "NotifyCallback"
  /\ state = "NotifyCallback" => holder \in {"writer", "posted", "loop"}
  /\ state = "Done" => holder \in {"none", "gone"}
  /\ disk # <<>> => state \in {"NotifyCallback", "Done"} /\ holder # "writer"
  /\ saved => state \in {"NotifyCallback", "Done"}
  /\ cancel => disk = <<>> /\ holder \in {"none", "gone"}

IndInv == TypeOK /\ ReportedOnce /\ Ownership

-----------------------------------------------------------------------------
LEMMA Appended ==
  ASSUME NEW S, NEW s \in Seq(S), NEW e \in S
  PROVE  Append(s, e) \in Seq(S) /\ Append(s, e) # <<>> /\ Len(Append(s, e)) = Len(s) + 1
BY AppendProperties

LEMMA InitInd == Init => IndInv
<1> SUFFICES ASSUME Init PROVE IndInv
  OBVIOUS
<1>1. /\ charset \in Charsets \cup {NoCharset} /\ docCharset \in Charsets \cup {NoCharset}
      /\ chosen \in Charsets \cup {NoCharset}
  BY DEF Init
<1>2. /\ content \in Contents /\ disk \in Seq(Contents) /\ Len(disk) <= 1 /\ reports \in Seq(Reports)
      /\ textDone \in Seq(TextFilters) /\ binaryDone \in Seq(BinaryFilters)
  BY DEF Init, Contents
<1>3. TypeOK
  BY <1>1, <1>2 DEF Init, TypeOK, States
<1>4. ReportedOnce /\ Ownership
  BY DEF Init, ReportedOnce, Ownership, Unreported
<1> QED  BY <1>3, <1>4 DEF IndInv

\* A step of the context, its callback, a filter or the background thread.
LEMMA StepInd == IndInv /\ [Next]_vars => IndInv'
<1> SUFFICES ASSUME IndInv, [Next]_vars PROVE IndInv'
  OBVIOUS
<1> USE DEF IndInv
<1>1. CASE Start \/ SelectPath
  BY <1>1 DEF TypeOK, ReportedOnce, Ownership, Unreported, States, Start, SelectPath, At, Asked,
     fsVars, askVars, hookVars, ctxVars, cbVars
<1>2. CASE MakeParent \/ MakeWritable \/ ObtainAuthorization
  BY <1>2 DEF TypeOK, ReportedOnce, Ownership, Unreported, States, Status, MakeParent, MakeWritable,
     ObtainAuthorization, At, Asked, fsVars, askVars, hookVars, ctxVars, cbVars
<1>3. CASE ExecuteTextExportFilter
  <2>1. textDone' \in Seq(TextFilters) /\ (holder' = "filter" => textDone' # <<>>)
    <3>1. CASE UNCHANGED <<holder, textDone>>
      BY <3>1, <1>3 DEF TypeOK, ExecuteTextExportFilter, At
    <3>2. CASE \E f \in TextFilters : textDone' = Append(textDone, f)
      <4>1. textDone \in Seq(TextFilters)
        BY DEF TypeOK
      <4> QED  BY <3>2, <4>1, Appended
    <3> QED
      BY <1>3, <3>1, <3>2 DEF ExecuteTextExportFilter
  <2>2. TypeOK'
    BY <1>3, <2>1 DEF TypeOK, States, ExecuteTextExportFilter, At, fsVars, askVars, cbVars
  <2> QED
    BY <1>3, <2>1, <2>2 DEF ReportedOnce, Ownership, Unreported, ExecuteTextExportFilter,
       At, fsVars, cbVars
<1>4. CASE ExecuteBinaryExportFilter
  <2>1. binaryDone' \in Seq(BinaryFilters) /\ (holder' = "filter" => binaryDone' # <<>>)
    <3>1. CASE UNCHANGED <<holder, binaryDone>>
      BY <3>1, <1>4 DEF TypeOK, ExecuteBinaryExportFilter, At
    <3>2. CASE \E f \in BinaryFilters : binaryDone' = Append(binaryDone, f)
      <4>1. binaryDone \in Seq(BinaryFilters)
        BY DEF TypeOK
      <4> QED  BY <3>2, <4>1, Appended
    <3> QED
      BY <1>4, <3>1, <3>2 DEF ExecuteBinaryExportFilter
  <2>2. TypeOK'
    BY <1>4, <2>1 DEF TypeOK, States, ExecuteBinaryExportFilter, At, fsVars, askVars, cbVars
  <2> QED
    BY <1>4, <2>1, <2>2 DEF ReportedOnce, Ownership, Unreported, ExecuteBinaryExportFilter,
       At, fsVars, cbVars
<1>5. CASE ConvertLineFeeds \/ EncodeContent
  <2>1. content \in Contents
    BY DEF TypeOK
  <2>2. charset \in Encodable => charset \in Charsets
    BY ConstAssumption
  <2>3. content' \in Contents
    BY <1>5, <2>1, <2>2, Appended DEF Contents, ConvertLineFeeds, EncodeContent
  <2> QED
    BY <1>5, <2>3 DEF TypeOK, ReportedOnce, Ownership, Unreported, States, ConvertLineFeeds,
       EncodeContent, At, fsVars, askVars, hookVars, ctxVars, cbVars
<1>6. CASE SelectEncoding
  BY <1>6, ConstAssumption DEF TypeOK, ReportedOnce, Ownership, Unreported, States, SelectEncoding,
     AfterSelectEncoding, At, Asked, fsVars, askVars, hookVars, ctxVars, cbVars
<1>7. CASE SaveContent
  BY <1>7 DEF TypeOK, ReportedOnce, Ownership, Unreported, States, SaveContent, At, fsVars, askVars,
     hookVars, ctxVars, cbVars
<1>8. CASE FilterReturns
  <2>1. Running \in TextFilters \cup BinaryFilters
    BY <1>8 DEF TypeOK, Ownership, FilterReturns, Running
  <2>2. content' \in Contents
    BY <1>8, <2>1 DEF TypeOK, Contents, FilterReturns
  <2> QED
    BY <1>8, <2>2 DEF TypeOK, ReportedOnce, Ownership, Unreported, FilterReturns, fsVars, askVars,
       hookVars, ctxVars, cbVars
<1>9. CASE FilterFails
  BY <1>9 DEF TypeOK, ReportedOnce, Ownership, Unreported, FilterFails, fsVars, askVars, hookVars,
     ctxVars, cbVars
<1>10. CASE WriteToPath
  <2>1. disk' \in Seq(Contents) /\ Len(disk') <= 1
    BY <1>10, EmptySeq DEF TypeOK, Ownership, WriteToPath
  <2>2. /\ error' \in BOOLEAN /\ overLocked' \in BOOLEAN /\ status' \in Status
        /\ holder = "writer" /\ holder' = "posted" /\ state = "NotifyCallback"
    BY <1>10 DEF TypeOK, Ownership, WriteToPath, Status
  <2>3. /\ UNCHANGED <<state, changes, askVars, charset, content, hookVars, saved, cbVars>>
        /\ UNCHANGED <<reports, passed>>
    BY <1>10 DEF WriteToPath
  <2>4. TypeOK'
    BY <2>1, <2>2, <2>3 DEF TypeOK, askVars, hookVars, cbVars
  <2> QED
    BY <2>2, <2>3, <2>4 DEF ReportedOnce, Ownership, Unreported, cbVars
<1>11. CASE WriteReturns
  BY <1>11 DEF TypeOK, ReportedOnce, Ownership, Unreported, WriteReturns, fsVars, askVars, hookVars,
     ctxVars, cbVars
<1>12. CASE NotifyCallback \/ Destroy
  <2> DEFINE r == [result |-> IF saved THEN "success" ELSE IF cancel THEN "cancel" ELSE "failure",
                   charset |-> charset]
  <2>1. r \in Reports /\ reports \in Seq(Reports)
    BY DEF TypeOK, Reports
  <2>2. DidSave => reports' = Append(reports, r)
    BY DEF DidSave
  <2> HIDE DEF r
  <2>5. Append(reports, r) \in Seq(Reports) /\ Len(Append(reports, r)) = Len(reports) + 1
    BY <2>1, Appended
  <2>3. CASE NotifyCallback
    <3>1. DidSave /\ Len(reports) = 0
      BY <2>3 DEF NotifyCallback, At, ReportedOnce
    <3>2. reports' = Append(reports, r)
      BY <2>2, <3>1
    <3>3. reports' \in Seq(Reports) /\ Len(reports') = 1
      BY <2>5, <3>1, <3>2
    <3> QED
      BY <2>3, <3>3 DEF TypeOK, ReportedOnce, Ownership, Unreported, States, NotifyCallback, At,
         fsVars, askVars, hookVars, ctxVars, cbVars
  <2>4. CASE Destroy
    <3>1. ASSUME Unreported PROVE reports' \in Seq(Reports) /\ Len(reports') = 1
      <4>1. reports' = Append(reports, r)
        BY <2>2, <2>4, <3>1 DEF Destroy
      <4>2. Len(reports) = 0
        BY <2>4, <3>1 DEF Destroy, Unreported, ReportedOnce
      <4> QED  BY <2>5, <4>1, <4>2
    <3>2. ASSUME ~Unreported PROVE reports' \in Seq(Reports) /\ Len(reports') = 1
      BY <2>1, <2>4, <3>2 DEF Destroy, Unreported, ReportedOnce
    <3>3. reports' \in Seq(Reports) /\ Len(reports') = 1
      BY <3>1, <3>2
    <3> QED
      BY <2>4, <3>3 DEF TypeOK, ReportedOnce, Ownership, Unreported, Destroy, fsVars, askVars,
         hookVars, ctxVars, cbVars
  <2> QED  BY <1>12, <2>3, <2>4
<1>13. CASE Answer
  <2>1. CASE \E c \in Charsets : SetPath(c)
    BY <2>1 DEF SetPath, TypeOK, ReportedOnce, Ownership, Unreported, fsVars, askVars, hookVars,
       ctxVars, cbVars
  <2>2. CASE \E c \in Charsets : SetCharset(c)
    BY <2>2 DEF SetCharset, TypeOK, ReportedOnce, Ownership, Unreported, fsVars, askVars, hookVars,
       ctxVars, cbVars
  <2>3. CASE SetMakeWritable
    BY <2>3 DEF SetMakeWritable, TypeOK, ReportedOnce, Ownership, Unreported, fsVars, askVars, hookVars,
       ctxVars, cbVars
  <2>4. CASE SetCreateParent
    BY <2>4 DEF SetCreateParent, TypeOK, ReportedOnce, Ownership, Unreported, fsVars, askVars, hookVars,
       ctxVars, cbVars
  <2>5. CASE SetAuthorization
    BY <2>5 DEF SetAuthorization, TypeOK, ReportedOnce, Ownership, Unreported, fsVars, askVars, hookVars,
       ctxVars, cbVars
  <2>6. CASE Cancel
    BY <2>6 DEF Cancel, TypeOK, ReportedOnce, Ownership, Unreported, fsVars, askVars, hookVars,
       ctxVars, cbVars
  <2> QED
    BY <1>13, <2>1, <2>2, <2>3, <2>4, <2>5, <2>6 DEF Answer
<1>14. CASE ChangeStatus
  BY <1>14, ConstAssumption DEF ChangeStatus, TypeOK, ReportedOnce, Ownership, Unreported, fsVars,
     askVars, hookVars, ctxVars, cbVars
<1>15. CASE UNCHANGED vars
  BY <1>15 DEF TypeOK, ReportedOnce, Ownership, Unreported, vars, fsVars, askVars, hookVars,
     ctxVars, cbVars
<1> QED
  BY <1>1, <1>2, <1>3, <1>4, <1>5, <1>6, <1>7, <1>8, <1>9, <1>10, <1>11, <1>12, <1>13, <1>14, <1>15
     DEF Next, Loop, Filter
-----------------------------------------------------------------------------
\* Type correctness of the save context.
THEOREM TypeCorrect == Spec => []TypeOK
<1>1. IndInv => TypeOK
  BY DEF IndInv
<1> QED  BY <1>1, InitInd, StepInd, PTL DEF Spec

\* Every way a save can end reports it, and none reports it twice.
THEOREM OneReport == Spec => []ReportedOnce
<1>1. IndInv => ReportedOnce
  BY DEF IndInv
<1> QED  BY <1>1, InitInd, StepInd, PTL DEF Spec

-----------------------------------------------------------------------------
\* From the authorization step on the save has the user's consent for what that
\* step saw; before it, nothing has been accepted.
Early == {"Start", "SelectPath", "MakeWritable", "ObtainAuthorization"}

ConsentInv ==
  /\ LockedNeedsConsent
  /\ state \notin Early /\ holder \notin {"none", "gone"} => (passed \in Locked => makeWritable)
  /\ state \in Early => passed = "none" /\ ~overLocked

LEMMA ConsentStep == IndInv /\ ConsentInv /\ [Next]_vars => ConsentInv'
<1> SUFFICES ASSUME IndInv, ConsentInv, [Next]_vars PROVE ConsentInv'
  OBVIOUS
<1>1. CASE Start \/ SelectPath \/ MakeParent \/ MakeWritable
  BY <1>1 DEF ConsentInv, LockedNeedsConsent, Early, Locked, Start, SelectPath, MakeParent, MakeWritable,
     At, fsVars, ctxVars, askVars
<1>2. CASE ObtainAuthorization
  BY <1>2 DEF ConsentInv, LockedNeedsConsent, Early, Locked, IndInv, Ownership, TypeOK,
     ObtainAuthorization, MayWrite, MayAsRoot, At, Asked, fsVars, ctxVars, askVars
<1>3. CASE ExecuteTextExportFilter \/ ConvertLineFeeds \/ SelectEncoding \/ EncodeContent
  BY <1>3 DEF ConsentInv, LockedNeedsConsent, Early, Locked, ExecuteTextExportFilter, ConvertLineFeeds,
     SelectEncoding, AfterSelectEncoding, EncodeContent, At, Asked, fsVars, ctxVars, askVars
<1>4. CASE ExecuteBinaryExportFilter \/ SaveContent \/ WriteReturns \/ NotifyCallback \/ Destroy
  BY <1>4 DEF ConsentInv, LockedNeedsConsent, Early, Locked, IndInv, Ownership, TypeOK,
     ExecuteBinaryExportFilter, SaveContent, WriteReturns, NotifyCallback, Destroy, At,
     fsVars, ctxVars, askVars
<1>5. CASE Filter \/ ChangeStatus
  BY <1>5 DEF ConsentInv, LockedNeedsConsent, Early, Locked, IndInv, Ownership, TypeOK, Filter,
     FilterReturns, FilterFails, ChangeStatus, fsVars, ctxVars, askVars
<1>6. CASE WriteToPath
  BY <1>6 DEF ConsentInv, LockedNeedsConsent, Early, IndInv, Ownership, WriteToPath, askVars
<1>7. CASE Answer
  BY <1>7 DEF Answer, SetPath, SetCharset, SetMakeWritable, SetCreateParent, SetAuthorization, Cancel,
     ConsentInv, LockedNeedsConsent, Early, Locked, fsVars, ctxVars, askVars
<1>8. CASE UNCHANGED vars
  BY <1>8 DEF ConsentInv, LockedNeedsConsent, vars, fsVars, ctxVars, askVars
<1> QED
  BY <1>1, <1>2, <1>3, <1>4, <1>5, <1>6, <1>7, <1>8 DEF Next, Loop

\* A file that is locked when the save looks is not written without consent.
THEOREM Consent == Spec => []LockedNeedsConsent
<1>1. Init => ConsentInv
  BY DEF Init, ConsentInv, LockedNeedsConsent, Early
<1>2. ConsentInv => LockedNeedsConsent
  BY DEF ConsentInv
<1> QED  BY <1>1, <1>2, InitInd, StepInd, ConsentStep, PTL DEF Spec

-----------------------------------------------------------------------------
Steps == TextFilters \cup BinaryFilters \cup Charsets \cup {"newlines"}

Before == {"Start", "SelectPath", "MakeWritable", "ObtainAuthorization", "ExecuteTextExportFilter"}
Last == {"SaveContent", "NotifyCallback", "Done"}

\* The content the context has at the case `state', from what has run.
Made ==
  IF state \in Before \cup {"ConvertLineFeeds"} THEN textDone
  ELSE IF state \in {"EncodeContent", "SelectEncoding"} THEN Append(textDone, "newlines")
  ELSE Layers(textDone, "newlines", charset, binaryDone)

\* The lists of hooks and the content agree whenever somebody will go on, and
\* what was written and reported is what the context still has.
Hooked ==
  /\ Once(textDone) /\ Once(binaryDone)
  /\ state \notin Before => TextFilters \subseteq Range(textDone)
  /\ state \notin Last \cup {"ExecuteBinaryExportFilter"} => binaryDone = <<>>
  /\ state \in Last \cup {"ExecuteBinaryExportFilter"} => charset \in Charsets
  /\ state \in Last => BinaryFilters \subseteq Range(binaryDone)
  /\ holder \in {"loop", "user", "writer", "posted"} => content = Made
  /\ holder = "filter" => Append(content, Running) = Made
  /\ \A i \in DOMAIN disk : WellMade(disk[i], charset)
  /\ \A j \in DOMAIN reports : reports[j].charset = charset

\* Content made of layers of hooks that have all run is well made.
LEMMA LayersWellMade ==
  ASSUME NEW t \in Seq(TextFilters), NEW b \in Seq(BinaryFilters), NEW cs \in Charsets,
         Once(t), Once(b), TextFilters \subseteq Range(t), BinaryFilters \subseteq Range(b)
  PROVE  WellMade(Layers(t, "newlines", cs, b), cs)
<1> SUFFICES ASSUME NEW c, c = Layers(t, "newlines", cs, b) PROVE WellMade(c, cs)
  OBVIOUS
<1>1. b \in Seq(Steps) /\ t \in Seq(Steps) /\ cs \in Steps /\ "newlines" \in Steps
  <2>1. BinaryFilters \subseteq Steps /\ TextFilters \subseteq Steps
    BY DEF Steps
  <2> QED  BY <2>1, SeqMonotonic DEF Steps
<1>2. HasLayers(c, t, "newlines", cs, b)
  BY <1>1, LayersParts
<1>3. Len(t) = Cardinality(TextFilters) /\ Range(t) = TextFilters
  BY OnceEach, ConstAssumption
<1>4. Len(b) = Cardinality(BinaryFilters) /\ Range(b) = BinaryFilters
  BY OnceEach, ConstAssumption
<1> QED  BY <1>2, <1>3, <1>4 DEF WellMade, HasLayers

LEMMA HookedStep == IndInv /\ Hooked /\ [Next]_vars => Hooked'
<1> SUFFICES ASSUME IndInv, Hooked, [Next]_vars PROVE Hooked'
  OBVIOUS
<1>0. /\ binaryDone \in Seq(Steps) /\ textDone \in Seq(Steps)
      /\ binaryDone \in Seq(BinaryFilters) /\ textDone \in Seq(TextFilters)
      /\ "newlines" \in Steps
  <2>1. binaryDone \in Seq(BinaryFilters) /\ textDone \in Seq(TextFilters)
    BY DEF IndInv, TypeOK
  <2>2. BinaryFilters \subseteq Steps /\ TextFilters \subseteq Steps
    BY DEF Steps
  <2> QED  BY <2>1, <2>2, SeqMonotonic DEF Steps
<1>1. CASE Start \/ SelectPath \/ MakeParent \/ MakeWritable \/ ObtainAuthorization
  BY <1>1 DEF Hooked, Made, Before, Last, Start, SelectPath, MakeParent, MakeWritable, ObtainAuthorization,
     At, Asked, fsVars, askVars, hookVars, ctxVars, cbVars
<1>2. CASE ExecuteTextExportFilter
  <2>1. CASE TextFilters \subseteq Range(textDone) /\ state' = "ConvertLineFeeds" /\ UNCHANGED <<holder, textDone>>
    BY <1>2, <2>1 DEF Hooked, Made, Before, Last, ExecuteTextExportFilter, At, fsVars, cbVars
  <2>2. CASE \E f \in TextFilters \ Range(textDone) : textDone' = Append(textDone, f) /\ holder' = "filter"
             /\ UNCHANGED state
    <3>1. PICK f \in TextFilters : f \notin Range(textDone) /\ textDone' = Append(textDone, f)
      BY <2>2
    <3>2. Once(textDone') /\ textDone'[Len(textDone')] = f
      BY <1>0, <3>1, OnceMore, AppendProperties DEF Hooked
    <3>3. content = textDone
      BY <1>2, <2>2 DEF Hooked, Made, Before, ExecuteTextExportFilter, At
    <3> QED
      BY <1>2, <2>2, <3>1, <3>2, <3>3 DEF Hooked, Made, Before, Last, Running, ExecuteTextExportFilter, At,
         fsVars, cbVars
  <2> QED  BY <1>2, <2>1, <2>2 DEF ExecuteTextExportFilter
<1>3. CASE ConvertLineFeeds
  BY <1>3 DEF Hooked, Made, Before, Last, ConvertLineFeeds, At, fsVars, askVars, hookVars, cbVars
<1>4. CASE SelectEncoding \/ \E c \in Charsets : SetCharset(c)
  <2>1. disk = <<>> /\ reports = <<>>
    BY <1>4 DEF IndInv, TypeOK, Ownership, ReportedOnce, SelectEncoding, SetCharset, At
  <2>2. DOMAIN disk = {} /\ DOMAIN reports = {}
    BY <2>1
  <2> QED
    BY <1>4, <2>2 DEF Hooked, Made, Before, Last, SelectEncoding, AfterSelectEncoding, SetCharset, At, Asked,
       fsVars, askVars, hookVars, cbVars
<1>5. CASE EncodeContent
  <2>1. CASE charset \in Encodable
    <3>1. charset \in Charsets /\ charset \in Steps
      BY <2>1, ConstAssumption DEF Steps
    <3>2. content = Append(textDone, "newlines") /\ binaryDone = <<>>
      BY <1>5 DEF Hooked, Made, Before, Last, EncodeContent, At
    <3>3. Layers(textDone, "newlines", charset, <<>>) = Append(Append(textDone, "newlines"), charset)
      BY <1>0, <3>1, LayersStart
    <3> QED
      BY <1>5, <2>1, <3>1, <3>2, <3>3 DEF Hooked, Made, Before, Last, EncodeContent, At, fsVars, askVars,
         hookVars, cbVars
  <2>2. CASE charset \notin Encodable
    BY <1>5, <2>2 DEF Hooked, Made, Before, Last, EncodeContent, At, fsVars, askVars, hookVars, cbVars
  <2> QED  BY <2>1, <2>2
<1>6. CASE ExecuteBinaryExportFilter
  <2>1. CASE BinaryFilters \subseteq Range(binaryDone) /\ state' = "SaveContent" /\ UNCHANGED <<holder, binaryDone>>
    BY <1>6, <2>1 DEF Hooked, Made, Before, Last, ExecuteBinaryExportFilter, At, fsVars, cbVars
  <2>2. CASE \E f \in BinaryFilters \ Range(binaryDone) : binaryDone' = Append(binaryDone, f)
             /\ holder' = "filter" /\ UNCHANGED state
    <3>1. PICK f \in BinaryFilters : f \notin Range(binaryDone) /\ binaryDone' = Append(binaryDone, f)
      BY <2>2
    <3>2. Once(binaryDone') /\ binaryDone'[Len(binaryDone')] = f
      BY <1>0, <3>1, OnceMore, AppendProperties DEF Hooked
    <3>3. content = Layers(textDone, "newlines", charset, binaryDone) /\ charset \in Charsets
      BY <1>6, <2>2 DEF Hooked, Made, Before, Last, ExecuteBinaryExportFilter, At
    <3>4. Append(content, f) = Layers(textDone, "newlines", charset, Append(binaryDone, f))
      <4>1. charset \in Steps /\ f \in Steps
        BY <3>3 DEF Steps
      <4> QED  BY <1>0, <3>3, <4>1, LayersGrow
    <3> QED
      BY <1>6, <2>2, <3>1, <3>2, <3>3, <3>4 DEF Hooked, Made, Before, Last, Running,
         ExecuteBinaryExportFilter, At, fsVars, cbVars
  <2> QED  BY <1>6, <2>1, <2>2 DEF ExecuteBinaryExportFilter
<1>7. CASE FilterReturns
  <2>1. content' = Made /\ UNCHANGED <<Made, state, charset, textDone, binaryDone, disk, reports>> /\ holder' = "loop"
    BY <1>7 DEF Hooked, Made, FilterReturns, fsVars, hookVars
  <2> QED  BY <1>7, <2>1 DEF Hooked, FilterReturns
<1>8. CASE FilterFails \/ Cancel
  BY <1>8 DEF Hooked, FilterFails, Cancel, fsVars, askVars, hookVars, ctxVars, cbVars
<1>9. CASE SaveContent
  BY <1>9 DEF Hooked, Made, Before, Last, SaveContent, At, fsVars, askVars, hookVars, ctxVars, cbVars
<1>10. CASE WriteToPath
  <2>1. disk = <<>> /\ state = "NotifyCallback" /\ content = Layers(textDone, "newlines", charset, binaryDone)
    BY <1>10 DEF IndInv, Ownership, Hooked, Made, Before, WriteToPath
  <2>2. WellMade(content, charset)
    BY <2>1, LayersWellMade DEF IndInv, TypeOK, Hooked, Before, Last
  <2>3. disk' = <<>> \/ disk' = <<content>>
    BY <1>10, <2>1 DEF WriteToPath
  <2>4. \A i \in DOMAIN disk' : WellMade(disk'[i], charset)
    BY <2>2, <2>3
  <2>5. UNCHANGED <<state, charset, content, textDone, binaryDone, reports, Made>> /\ holder = "writer" /\ holder' = "posted"
    BY <1>10 DEF Made, WriteToPath, hookVars
  <2> QED  BY <2>4, <2>5 DEF Hooked
<1>11. CASE WriteReturns
  BY <1>11 DEF Hooked, Made, WriteReturns, fsVars, askVars, hookVars, cbVars
<1>12. CASE NotifyCallback \/ Destroy
  <2> DEFINE r == [result |-> IF saved THEN "success" ELSE IF cancel THEN "cancel" ELSE "failure",
                   charset |-> charset]
  <2>1. reports' = reports \/ (reports = <<>> /\ reports' = <<r>>)
    <3>1. DidSave => reports' = Append(reports, r)
      BY DEF DidSave
    <3> HIDE DEF r
    <3>2. CASE UNCHANGED reports
      BY <3>2
    <3>3. CASE DidSave /\ state # "Done" /\ holder # "gone"
      <4>1. reports = <<>>
        BY <3>3 DEF IndInv, TypeOK, ReportedOnce
      <4> QED  BY <3>1, <3>3, <4>1
    <3> QED  BY <1>12, <3>2, <3>3 DEF NotifyCallback, Destroy, Unreported, At
  <2>2. \A j \in DOMAIN reports' : reports'[j].charset = charset
    BY <2>1 DEF Hooked
  <2>3. /\ UNCHANGED <<charset, content, textDone, binaryDone, disk>> /\ holder' \in {"none", "gone"}
        /\ state' = state \/ (state = "NotifyCallback" /\ state' = "Done")
    BY <1>12 DEF NotifyCallback, Destroy, At, fsVars, askVars, hookVars, ctxVars
  <2> QED  BY <2>2, <2>3 DEF Hooked, Before, Last
<1>13. CASE SetMakeWritable \/ SetCreateParent \/ SetAuthorization \/ \E c \in Charsets : SetPath(c)
  BY <1>13 DEF Hooked, Made, SetMakeWritable, SetCreateParent, SetAuthorization, SetPath, fsVars, hookVars,
     ctxVars, cbVars
<1>14. CASE ChangeStatus
  BY <1>14 DEF Hooked, Made, Running, ChangeStatus, askVars, hookVars, ctxVars, cbVars
<1>15. CASE UNCHANGED vars
  BY <1>15 DEF Hooked, Made, Running, vars, fsVars, askVars, hookVars, ctxVars, cbVars
<1> QED
  BY <1>1, <1>2, <1>3, <1>4, <1>5, <1>6, <1>7, <1>8, <1>9, <1>10, <1>11, <1>12, <1>13, <1>14, <1>15
     DEF Next, Loop, Answer, Filter

\* Whatever encodings were tried in vain, and whatever the user, the hooks
\* and other programs did, what reaches the disk went once through each hook,
\* had its line feeds converted once and is in the encoding that is reported.
THEOREM WrittenWell == Spec => []WrittenAsReported
<1>1. Init => Hooked
  BY OnceEmpty DEF Init, Hooked, Made, Before, Last
<1>2. Hooked => WrittenAsReported
  BY DEF Hooked, WrittenAsReported
<1> QED  BY <1>1, <1>2, InitInd, StepInd, HookedStep, PTL DEF Spec

-----------------------------------------------------------------------------
\* A step of the save is a step of its contract, or changes nothing it sees.
LEMMA RefinesStep == IndInv /\ [Next]_vars => [Contract!Next]_(Contract!vars)
<1> SUFFICES ASSUME IndInv, [Next]_vars PROVE [Contract!Next]_(Contract!vars)
  OBVIOUS
<1>1. CASE WriteToPath
  <2>1. disk = <<>> /\ reports = <<>> /\ UNCHANGED reports
    BY <1>1 DEF IndInv, TypeOK, ReportedOnce, Ownership, WriteToPath
  <2>2. disk' = disk \/ disk' # <<>>
    BY <1>1 DEF WriteToPath, IndInv, TypeOK
  <2> QED
    BY <2>1, <2>2 DEF Contract!Next, Contract!Write, Contract!vars
<1>2. CASE NotifyCallback \/ (Destroy /\ Unreported)
  <2> DEFINE r == [result |-> IF saved THEN "success" ELSE IF cancel THEN "cancel" ELSE "failure",
                   charset |-> charset]
  <2>1. reports = <<>>
    BY <1>2 DEF IndInv, TypeOK, ReportedOnce, NotifyCallback, Destroy, Unreported, At
  <2>2. reports' = <<r>>
    BY <2>1, <1>2 DEF NotifyCallback, Destroy, DidSave
  <2>3. r.result \in {"success", "failure"} \cup (IF disk # <<>> THEN {} ELSE {"cancel"})
    BY DEF IndInv, Ownership
  <2>4. UNCHANGED disk
    BY <1>2 DEF NotifyCallback, Destroy, fsVars
  <2> QED
    BY <2>1, <2>2, <2>3, <2>4 DEF Contract!Next, Contract!Report
<1>3. CASE UNCHANGED <<disk, reports>>
  BY <1>3 DEF Contract!vars
<1> QED
  BY <1>1, <1>2, <1>3 DEF Next, Loop, Answer, Filter, Start, SelectPath, MakeParent, MakeWritable,
     ObtainAuthorization, ExecuteTextExportFilter, ConvertLineFeeds, SelectEncoding, EncodeContent,
     ExecuteBinaryExportFilter, SaveContent, WriteReturns, NotifyCallback, Destroy, SetPath, SetCharset,
     SetMakeWritable, SetCreateParent, SetAuthorization, Cancel, FilterReturns, FilterFails,
     ChangeStatus, vars, fsVars

\* file::save implements SaveContract.
THEOREM Refines == Spec => KeepsContract
<1>1. Init => Contract!Init
  BY DEF Init, Contract!Init
<1> QED  BY <1>1, InitInd, StepInd, RefinesStep, PTL DEF Spec, KeepsContract, Contract!Spec
=============================================================================
