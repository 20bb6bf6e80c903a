---------------------------- MODULE FileOpenProofs ----------------------------
(***************************************************************************)
(* Every open, whatever its encodings, hooks, answers and failures, is     *)
(* answered exactly once, asks for an encoding only when the guesses have  *)
(* failed, and implements OpenContract.                                    *)
(***************************************************************************)
EXTENDS FileOpen, DataLemmas

Early == {"Start", "ObtainAuthorization", "LoadContent", "ExecuteBinaryImportFilter"}

\* Who can have the context in which state, and whether there is content then.
Ownership ==
  /\ holder = "filter" =>
       \/ state = "ExecuteTextImportFilter" /\ textDone # <<>>
       \/ state = "ExecuteBinaryImportFilter" /\ binaryDone # <<>>
  /\ holder \in {"reader", "posted"} => state = "ExecuteBinaryImportFilter"
  /\ holder = "reader" \/ state \in {"ObtainAuthorization", "LoadContent"} => content = NoContent
  /\ holder = "filter" \/ (holder = "loop" /\ state \notin Early) => content # NoContent
  /\ holder \in {"user", "aborted"} => state = "DecodeContent" /\ content # NoContent
  /\ state = "Done" => holder \in {"none", "gone"}

IndInv == TypeOK /\ AnsweredOnce /\ Ownership

AllCharsets == Charsets \cup {NoCharset}
Steps == TextFilters \cup BinaryFilters \cup Charsets \cup {NoCharset, "newlines"}

-----------------------------------------------------------------------------
LEMMA Appended ==
  ASSUME NEW S, NEW s \in Seq(S), NEW e \in S
  PROVE  Append(s, e) \in Seq(S) /\ Append(s, e) # <<>> /\ Len(Append(s, e)) = Len(s) + 1
BY AppendProperties

\* A conversion of some content is content, and not the absence of it.
LEMMA Converted ==
  ASSUME NEW c, c \in Contents \cup {NoContent}, c # NoContent, NEW e \in Steps
  PROVE  Append(c, e) \in Contents /\ Append(c, e) # NoContent
<1>1. Append(c, e) \in Contents
  BY Appended DEF Contents, Steps
<1> QED  BY <1>1, ConstAssumption DEF Contents

LEMMA EmptyContent == <<>> \in Contents /\ <<>> # NoContent
<1>1. <<>> \in Contents
  BY EmptySeq DEF Contents
<1> QED  BY <1>1, ConstAssumption DEF Contents

LEMMA BytesTypes ==
  /\ Empty \in Bytes
  /\ \A b \in Bytes : b.decodes \in SUBSET AllCharsets /\ b.bom \in AllCharsets
  /\ UTF8 \in Charsets /\ Windows1252 \in Charsets
BY ConstAssumption DEF Bytes, Empty, AllCharsets

LEMMA InitInd == Init => IndInv
<1> SUFFICES ASSUME Init PROVE IndInv
  OBVIOUS
<1>1. content \in Contents \cup {NoContent} /\ bytes \in Bytes
  BY EmptyContent, BytesTypes DEF Init
<1>2. {charset, attr, setting, diskCharset} \subseteq Names
  BY DEF Init, Names
<1>6. window \in BOOLEAN
  BY DEF Init
<1>3. answers \in Seq(Answers) /\ textDone \in Seq(TextFilters)
      /\ binaryDone \in Seq(BinaryFilters)
  BY DEF Init
<1>4. TypeOK
  BY <1>1, <1>2, <1>3, <1>6 DEF Init, TypeOK, States, AskUser, Estimates
<1>5. AnsweredOnce /\ Ownership
  BY DEF Init, AnsweredOnce, Ownership, Early
<1> QED  BY <1>4, <1>5 DEF IndInv

LEMMA StepInd == IndInv /\ [Next]_vars => IndInv'
<1> SUFFICES ASSUME IndInv, [Next]_vars PROVE IndInv'
  OBVIOUS
<1> USE DEF IndInv
<1>1. CASE Start \/ ObtainAuthorization \/ LoadContent \/ HandleReply
  BY <1>1 DEF TypeOK, AnsweredOnce, Ownership, Early, States, Start, ObtainAuthorization, LoadContent,
     HandleReply, At, dataVars, guessVars, hookVars
<1>2. CASE HandleRequest
  BY <1>2, EmptyContent DEF TypeOK, AnsweredOnce, Ownership, Early, HandleRequest, dataVars, guessVars,
     hookVars
<1>3. CASE ExecuteBinaryImportFilter
  <2>1. binaryDone' \in Seq(BinaryFilters) /\ (holder' = "filter" => binaryDone' # <<>>)
    <3>1. CASE UNCHANGED binaryDone
      BY <3>1, <1>3 DEF TypeOK, ExecuteBinaryImportFilter, At
    <3>2. CASE \E f \in BinaryFilters : binaryDone' = Append(binaryDone, f)
      <4>1. binaryDone \in Seq(BinaryFilters)
        BY DEF TypeOK
      <4> QED  BY <3>2, <4>1, Appended
    <3> QED  BY <1>3, <3>1, <3>2 DEF ExecuteBinaryImportFilter
  <2> QED
    BY <1>3, <2>1 DEF TypeOK, AnsweredOnce, Ownership, Early, States, ExecuteBinaryImportFilter, At,
       dataVars, guessVars
<1>4. CASE EstimateEncoding
  <2>1. estimate \in 1..6 /\ estimate' \in 1..6
    BY <1>4 DEF TypeOK, EstimateEncoding, NextEstimate, AskUser, Estimates
  <2>2. charset' \in Names
    <3>1. Estimates[estimate] \in {"BOM", "ExtendedAttribute", "ASCII", "UTF8", "PathSettings", "AskUser"}
      BY <2>1 DEF Estimates
    <3>2. \A e \in {"BOM", "ExtendedAttribute", "ASCII", "UTF8", "PathSettings", "AskUser"} :
            Guess[e] \in Names
      BY BytesTypes DEF Guess, Names, TypeOK, AllCharsets
    <3> QED  BY <1>4, <3>1, <3>2 DEF EstimateEncoding
  <2> QED
    BY <1>4, <2>1, <2>2 DEF TypeOK, AnsweredOnce, Ownership, Early, States, EstimateEncoding, At,
       AskUser, Estimates, dataVars, guessVars, hookVars
<1>5. CASE SelectEncoding
  BY <1>5 DEF TypeOK, AnsweredOnce, Ownership, Early, States, SelectEncoding, At, dataVars, guessVars,
     hookVars
<1>6. CASE SelectFallback
  BY <1>6, BytesTypes DEF TypeOK, AnsweredOnce, Ownership, Early, States, Names, SelectFallback, At,
     dataVars, guessVars, hookVars
<1>7. CASE DecodeContent \/ ConvertLineFeeds
  <2>1. charset \in bytes.decodes => charset \in Steps
    BY BytesTypes DEF TypeOK, AllCharsets, Steps
  <2>2. "newlines" \in Steps
    BY DEF Steps
  <2>3. content # NoContent /\ content \in Contents \cup {NoContent}
    BY <1>7 DEF TypeOK, Ownership, Early, DecodeContent, ConvertLineFeeds, At
  <2>4. content' \in Contents /\ content' # NoContent
    BY <1>7, <2>1, <2>2, <2>3, Converted DEF DecodeContent, ConvertLineFeeds
  <2> QED
    BY <1>7, <2>4 DEF TypeOK, AnsweredOnce, Ownership, Early, States, DecodeContent, ConvertLineFeeds,
       At, guessVars, hookVars
<1>8. CASE ExecuteTextImportFilter
  <2>1. textDone' \in Seq(TextFilters) /\ (holder' = "filter" => textDone' # <<>>)
    <3>1. CASE UNCHANGED <<holder, textDone>>
      BY <3>1, <1>8 DEF TypeOK, ExecuteTextImportFilter, At
    <3>2. CASE \E f \in TextFilters : textDone' = Append(textDone, f)
      <4>1. textDone \in Seq(TextFilters)
        BY DEF TypeOK
      <4> QED  BY <3>2, <4>1, Appended
    <3> QED  BY <1>8, <3>1, <3>2 DEF ExecuteTextImportFilter
  <2> QED
    BY <1>8, <2>1 DEF TypeOK, AnsweredOnce, Ownership, Early, States, ExecuteTextImportFilter, At,
       dataVars, guessVars
<1>9. CASE FilterReturns
  <2>1. Running \in Steps
    BY <1>9 DEF TypeOK, Ownership, FilterReturns, Running, InBinaryFilter, Steps
  <2>2. content' \in Contents /\ content' # NoContent
    BY <1>9, <2>1, Converted DEF TypeOK, Ownership, FilterReturns
  <2> QED
    BY <1>9, <2>2 DEF TypeOK, AnsweredOnce, Ownership, Early, FilterReturns, guessVars, hookVars
<1>10. CASE FilterFails \/ Cancel
  BY <1>10 DEF TypeOK, AnsweredOnce, Ownership, Early, FilterFails, Cancel, dataVars, guessVars, hookVars
<1>11. CASE \E c \in Charsets : SetCharset(c)
  BY <1>11 DEF TypeOK, AnsweredOnce, Ownership, Early, Names, SetCharset, dataVars, guessVars, hookVars
<1>12. CASE ShowContent
  <2> DEFINE a == [kind |-> "content", charset |-> charset, content |-> content]
  <2>1. a \in Answers /\ answers \in Seq(Answers) /\ Len(answers) = 0
    BY <1>12 DEF TypeOK, AnsweredOnce, Ownership, Early, ShowContent, At, Answers
  <2>2. answers' = Append(answers, a)
    BY <1>12 DEF ShowContent
  <2> HIDE DEF a
  <2>3. answers' \in Seq(Answers) /\ Len(answers') = 1
    BY <2>1, <2>2, Appended
  <2> QED
    BY <1>12, <2>3 DEF TypeOK, AnsweredOnce, Ownership, Early, States, ShowContent, At, dataVars,
       guessVars, hookVars
<1>13. CASE Destroy
  <2> DEFINE a == [kind |-> "error", charset |-> Unknown, content |-> <<>>]
  <2>1. a \in Answers /\ answers \in Seq(Answers)
    BY EmptyContent DEF TypeOK, Answers, Names
  <2>2. ShowError => answers' = Append(answers, a)
    BY DEF ShowError
  <2> HIDE DEF a
  <2>3. answers' \in Seq(Answers) /\ Len(answers') = 1
    <3>1. CASE Unanswered
      <4>1. ShowError /\ Len(answers) = 0
        BY <1>13, <3>1 DEF Destroy, Unanswered, AnsweredOnce
      <4>2. Append(answers, a) \in Seq(Answers) /\ Len(Append(answers, a)) = Len(answers) + 1
        BY <2>1, Appended
      <4>3. answers' = Append(answers, a)
        BY <2>2, <4>1
      <4> QED  BY <4>1, <4>2, <4>3
    <3>2. CASE ~Unanswered
      BY <1>13, <2>1, <3>2 DEF Destroy, Unanswered, AnsweredOnce
    <3> QED  BY <3>1, <3>2
  <2> QED
    BY <1>13, <2>3 DEF TypeOK, AnsweredOnce, Ownership, Early, Destroy, dataVars, guessVars, hookVars
<1>14. CASE UNCHANGED vars
  BY <1>14 DEF TypeOK, AnsweredOnce, Ownership, vars, dataVars, guessVars, hookVars
<1> QED
  BY <1>1, <1>2, <1>3, <1>4, <1>5, <1>6, <1>7, <1>8, <1>9, <1>10, <1>11, <1>12, <1>13, <1>14
     DEF Next, Loop, Answer, Filter

\* Type correctness of the open context.
THEOREM TypeCorrect == Spec => []TypeOK
<1>1. IndInv => TypeOK
  BY DEF IndInv
<1> QED  BY <1>1, InitInd, StepInd, PTL DEF Spec

\* Every way an open can end answers it, and none answers it twice.
THEOREM OneAnswer == Spec => []AnsweredOnce
<1>1. IndInv => AnsweredOnce
  BY DEF IndInv
<1> QED  BY <1>1, InitInd, StepInd, PTL DEF Spec
-----------------------------------------------------------------------------
\* The guesses before estimate e have been made, and do not decode the bytes.
Failed(e) ==
  /\ e > 1 => bytes.bom \notin bytes.decodes
  /\ e > 2 => attr \notin bytes.decodes
  /\ e > 3 => NoCharset \notin bytes.decodes
  /\ e > 4 => UTF8 \notin bytes.decodes
  /\ e > 5 => setting \notin bytes.decodes

\* Nor do the import's fallbacks before the one numbered t.
FallbackFailed(t) ==
  /\ t > 0 => diskCharset \notin bytes.decodes
  /\ t > 2 => Windows1252 \notin bytes.decodes

\* What has been tried in vain in each state.
Tried ==
  /\ state \in Early => estimate = 1 /\ charset = NoCharset
  /\ estimate = 1 => charset = NoCharset
  /\ state \in Early \cup {"EstimateEncoding", "SelectEncoding"} => Failed(estimate) /\ FallbackFailed(tries)
  /\ state = "DecodeContent" /\ charset \notin bytes.decodes => Failed(estimate) /\ FallbackFailed(tries)
  /\ state = "SelectEncoding" \/ holder \in {"user", "aborted"} => Failed(AskUser) /\ estimate = AskUser
  /\ holder = "aborted" => FallbackFailed(3)
  /\ tries > 0 => estimate = AskUser /\ caller = "import"
  /\ holder = "user" => caller = "load"

LEMMA TriedStep == IndInv /\ Tried /\ [Next]_vars => Tried'
<1> SUFFICES ASSUME IndInv, Tried, [Next]_vars PROVE Tried'
  OBVIOUS
<1>0. estimate \in 1..6 /\ tries \in 0..3 /\ AskUser = 6
  BY DEF IndInv, TypeOK, AskUser, Estimates
<1>1. CASE Start \/ ObtainAuthorization \/ LoadContent \/ HandleReply
  BY <1>0, <1>1 DEF Tried, Failed, FallbackFailed, Early, Start, ObtainAuthorization, LoadContent,
     HandleReply, At, dataVars, guessVars
<1>2. CASE HandleRequest \/ FilterReturns
  BY <1>0, <1>2 DEF Tried, Failed, FallbackFailed, Early, IndInv, Ownership, HandleRequest, FilterReturns,
     InBinaryFilter, dataVars, guessVars
<1>3. CASE ExecuteBinaryImportFilter \/ ExecuteTextImportFilter \/ ConvertLineFeeds \/ ShowContent
  BY <1>0, <1>3 DEF Tried, Failed, FallbackFailed, Early, ExecuteBinaryImportFilter,
     ExecuteTextImportFilter, ConvertLineFeeds, ShowContent, At, dataVars, guessVars
<1>4. CASE EstimateEncoding
  BY <1>0, <1>4 DEF Tried, Failed, FallbackFailed, Early, EstimateEncoding, At, Guess, Estimates,
     NextEstimate, dataVars, guessVars
<1>5. CASE SelectEncoding \/ SelectFallback
  BY <1>0, <1>5 DEF Tried, Failed, FallbackFailed, Early, SelectEncoding, SelectFallback, At, dataVars,
     guessVars
<1>6. CASE DecodeContent
  BY <1>0, <1>6 DEF Tried, Failed, FallbackFailed, Early, DecodeContent, At, dataVars, guessVars
<1>7. CASE Cancel \/ FilterFails \/ Destroy
  BY <1>0, <1>7 DEF Tried, Failed, FallbackFailed, Early, Cancel, FilterFails, Destroy, dataVars, guessVars
<1>9. CASE \E c \in Charsets : SetCharset(c)
  <2>1. Failed(AskUser) /\ estimate = AskUser /\ tries = 0 /\ state = "DecodeContent"
    BY <1>0, <1>9 DEF Tried, SetCharset, IndInv, Ownership
  <2>2. FallbackFailed(0)
    BY DEF FallbackFailed
  <2>3. UNCHANGED <<state, caller, estimate, bytes, attr, setting, diskCharset, tries>> /\ holder' = "loop"
    BY <1>9 DEF SetCharset, dataVars, guessVars
  <2> QED
    BY <1>0, <2>1, <2>2, <2>3 DEF Tried, Failed, FallbackFailed, Early
<1>8. CASE UNCHANGED vars
  BY <1>8 DEF Tried, Failed, FallbackFailed, vars, dataVars, guessVars
<1> QED
  BY <1>1, <1>2, <1>3, <1>4, <1>5, <1>6, <1>7, <1>8, <1>9 DEF Next, Loop, Answer, Filter

\* An encoding is only asked for when everything the file itself says, and its
\* path's setting, have failed.
THEOREM AskedInTheEnd == Spec => []AskedLast
<1>1. Init => Tried
  BY DEF Init, Tried, Failed, FallbackFailed, Early, AskUser, Estimates
<1>2. Tried => AskedLast
  BY DEF Tried, Failed, FallbackFailed, AskedLast, At, AskUser, Estimates
<1> QED  BY <1>1, <1>2, InitInd, StepInd, TriedStep, PTL DEF Spec

-----------------------------------------------------------------------------
\* The content the context has at the case `state', from what has run.
Made ==
  IF state \in {"ExecuteTextImportFilter", "ShowContent"} THEN Layers(binaryDone, charset, "newlines", textDone)
  ELSE IF state = "EstimateLineFeeds" THEN Append(binaryDone, charset)
  ELSE binaryDone

\* The list of hooks and the content agree whenever somebody will go on.
Hooked ==
  /\ Once(binaryDone) /\ Once(textDone)
  /\ content = NoContent => binaryDone = <<>>
  /\ state \notin {"ExecuteTextImportFilter", "ShowContent", "Done"} => textDone = <<>>
  /\ state = "EstimateLineFeeds" \/ state \in {"ExecuteTextImportFilter", "ShowContent"} => charset \in AllCharsets
  /\ holder \in {"loop", "user", "posted"} /\ content # NoContent => content = Made
  /\ holder = "filter" => Append(content, Running) = Made
  /\ state = "ShowContent" => TextFilters \subseteq Range(textDone)

LEMMA HookedStep == IndInv /\ Hooked /\ [Next]_vars => Hooked'
<1> SUFFICES ASSUME IndInv, Hooked, [Next]_vars PROVE Hooked'
  OBVIOUS
<1>0. /\ binaryDone \in Seq(Steps) /\ textDone \in Seq(Steps)
      /\ binaryDone \in Seq(BinaryFilters) /\ textDone \in Seq(TextFilters)
  <2>1. binaryDone \in Seq(BinaryFilters) /\ textDone \in Seq(TextFilters)
    BY DEF IndInv, TypeOK
  <2>2. BinaryFilters \subseteq Steps /\ TextFilters \subseteq Steps
    BY DEF Steps
  <2> QED  BY <2>1, <2>2, SeqMonotonic
<1>1. CASE Start \/ ObtainAuthorization \/ LoadContent \/ HandleReply
  BY <1>1 DEF Hooked, Made, Start, ObtainAuthorization, LoadContent, HandleReply, At, IndInv, Ownership,
     dataVars, guessVars, hookVars
<1>2. CASE HandleRequest
  BY <1>2, EmptyContent DEF Hooked, Made, HandleRequest, IndInv, Ownership, dataVars, guessVars, hookVars
<1>3. CASE ExecuteBinaryImportFilter
  <2>1. CASE UNCHANGED binaryDone
    BY <1>3, <2>1 DEF Hooked, Made, ExecuteBinaryImportFilter, At, IndInv, Ownership, dataVars, guessVars
  <2>2. CASE \E f \in BinaryFilters \ Range(binaryDone) : binaryDone' = Append(binaryDone, f) /\ holder' = "filter"
             /\ UNCHANGED state /\ content # NoContent
    <3>1. PICK f \in BinaryFilters : f \notin Range(binaryDone) /\ binaryDone' = Append(binaryDone, f)
      BY <2>2
    <3>2. Once(binaryDone') /\ binaryDone'[Len(binaryDone')] = f
      BY <1>0, <3>1, OnceMore, AppendProperties DEF Hooked
    <3>3. content = binaryDone /\ textDone = <<>>
      BY <1>3, <2>2 DEF Hooked, Made, ExecuteBinaryImportFilter, At
    <3> QED
      BY <1>3, <2>2, <3>1, <3>2, <3>3 DEF Hooked, Made, Running, InBinaryFilter,
         ExecuteBinaryImportFilter, At, dataVars, guessVars
  <2> QED  BY <1>3, <2>1, <2>2 DEF ExecuteBinaryImportFilter
<1>4. CASE EstimateEncoding \/ SelectEncoding \/ SelectFallback
  BY <1>4 DEF Hooked, Made, EstimateEncoding, SelectEncoding, SelectFallback, At, dataVars, guessVars, hookVars
<1>5. CASE DecodeContent
  <2>1. charset \in bytes.decodes => charset \in AllCharsets
    BY BytesTypes DEF IndInv, TypeOK
  <2>2. content # NoContent
    BY <1>5 DEF IndInv, Ownership, Early, DecodeContent, At
  <2>3. content' # NoContent
    <3>1. charset \in bytes.decodes => charset \in Steps
      BY <2>1 DEF AllCharsets, Steps
    <3> QED  BY <1>5, <2>2, <3>1, Converted DEF DecodeContent, IndInv, TypeOK
  <2> QED  BY <1>5, <2>1, <2>2, <2>3 DEF Hooked, Made, DecodeContent, At, guessVars, hookVars
<1>6. CASE ConvertLineFeeds
  <2>1. content = Append(binaryDone, charset) /\ charset \in AllCharsets /\ textDone = <<>>
    BY <1>6 DEF IndInv, Ownership, Early, Hooked, Made, ConvertLineFeeds, At
  <2>2. Layers(binaryDone, charset, "newlines", <<>>) = Append(Append(binaryDone, charset), "newlines")
    <3>1. charset \in Steps /\ "newlines" \in Steps
      BY <2>1 DEF AllCharsets, Steps
    <3> QED  BY <1>0, <3>1, LayersStart
  <2>3. content' # NoContent
    <3>1. "newlines" \in Steps /\ content # NoContent /\ content \in Contents \cup {NoContent}
      BY <1>6 DEF IndInv, TypeOK, Ownership, Early, ConvertLineFeeds, At, Steps
    <3> QED  BY <1>6, <3>1, Converted DEF ConvertLineFeeds
  <2> QED  BY <1>6, <2>1, <2>2, <2>3 DEF Hooked, Made, ConvertLineFeeds, At, guessVars, hookVars
<1>7. CASE ExecuteTextImportFilter
  <2>1. CASE TextFilters \subseteq Range(textDone) /\ state' = "ShowContent" /\ UNCHANGED <<holder, textDone>>
    BY <1>7, <2>1 DEF Hooked, Made, ExecuteTextImportFilter, At, dataVars, guessVars
  <2>2. CASE \E f \in TextFilters \ Range(textDone) : textDone' = Append(textDone, f) /\ holder' = "filter"
             /\ UNCHANGED state
    <3>1. PICK f \in TextFilters : f \notin Range(textDone) /\ textDone' = Append(textDone, f)
      BY <2>2
    <3>2. Once(textDone') /\ textDone'[Len(textDone')] = f
      BY <1>0, <3>1, OnceMore, AppendProperties DEF Hooked
    <3>3. content = Layers(binaryDone, charset, "newlines", textDone) /\ charset \in AllCharsets
      BY <1>7 DEF IndInv, Ownership, Early, Hooked, Made, ExecuteTextImportFilter, At
    <3>4. Append(content, f) = Layers(binaryDone, charset, "newlines", Append(textDone, f))
      <4>1. charset \in Steps /\ "newlines" \in Steps /\ f \in Steps
        BY <3>3 DEF AllCharsets, Steps
      <4> QED  BY <1>0, <3>3, <4>1, LayersGrow
    <3> QED
      BY <1>7, <2>2, <3>1, <3>2, <3>3, <3>4 DEF Hooked, Made, Running, InBinaryFilter,
         ExecuteTextImportFilter, At, dataVars, guessVars
  <2> QED  BY <1>7, <2>1, <2>2 DEF ExecuteTextImportFilter
<1>8. CASE FilterReturns
  <2>1. content' = Made /\ UNCHANGED Made
    BY <1>8 DEF Hooked, Made, FilterReturns, hookVars
  <2>2. content # NoContent /\ content' # NoContent
    <3>1. Running \in Steps /\ content \in Contents \cup {NoContent} /\ content # NoContent
      BY <1>8 DEF IndInv, TypeOK, Ownership, FilterReturns, Running, InBinaryFilter, Steps
    <3> QED  BY <1>8, <3>1, Converted DEF FilterReturns
  <2> QED  BY <1>8, <2>1, <2>2 DEF Hooked, FilterReturns, guessVars, hookVars
<1>9. CASE FilterFails \/ Cancel \/ ShowContent \/ Destroy
  BY <1>9 DEF Hooked, FilterFails, Cancel, ShowContent, Destroy, At, dataVars, guessVars, hookVars
<1>10. CASE \E c \in Charsets : SetCharset(c)
  BY <1>10 DEF Hooked, Made, IndInv, Ownership, SetCharset, dataVars, guessVars, hookVars
<1>11. CASE UNCHANGED vars
  BY <1>11 DEF Hooked, Made, Running, InBinaryFilter, vars, dataVars, guessVars, hookVars
<1> QED
  BY <1>1, <1>2, <1>3, <1>4, <1>5, <1>6, <1>7, <1>8, <1>9, <1>10, <1>11 DEF Next, Loop, Answer, Filter

\* Content made of layers of hooks that have all run is well read.
LEMMA LayersWellRead ==
  ASSUME NEW b \in Seq(BinaryFilters), NEW t \in Seq(TextFilters), NEW cs \in AllCharsets,
         Once(b), Once(t), TextFilters \subseteq Range(t)
  PROVE  WellRead(Layers(b, cs, "newlines", t), cs)
<1> SUFFICES ASSUME NEW c, c = Layers(b, cs, "newlines", t) PROVE WellRead(c, cs)
  OBVIOUS
<1>1. b \in Seq(Steps) /\ t \in Seq(Steps) /\ cs \in Steps /\ "newlines" \in Steps
  <2>1. BinaryFilters \subseteq Steps /\ TextFilters \subseteq Steps
    BY DEF Steps
  <2> QED  BY <2>1, SeqMonotonic DEF AllCharsets, Steps
<1>2. HasLayers(c, b, cs, "newlines", t)
  BY <1>1, LayersParts
<1>3. Len(b) \in 0..Cardinality(BinaryFilters) /\ Range(b) \subseteq BinaryFilters /\ IsInjective(b)
  BY OnceEach, RangeOfSeq, ConstAssumption DEF Once
<1>4. Len(t) = Cardinality(TextFilters) /\ Range(t) = TextFilters
  BY OnceEach, ConstAssumption
<1> QED  BY <1>2, <1>3, <1>4 DEF WellRead, HasLayers

LEMMA ShownStep == IndInv /\ Hooked /\ ShownAsReported /\ [Next]_vars => ShownAsReported'
<1> SUFFICES ASSUME IndInv, Hooked, ShownAsReported, [Next]_vars PROVE ShownAsReported'
  OBVIOUS
<1>1. CASE UNCHANGED answers
  BY <1>1 DEF ShownAsReported
<1>2. CASE ShowContent
  <2> DEFINE a == [kind |-> "content", charset |-> charset, content |-> content]
  <2>1. answers = <<>> /\ answers' = <<a>>
    BY <1>2 DEF IndInv, TypeOK, AnsweredOnce, Ownership, ShowContent, At
  <2>2. WellRead(content, charset)
    <3>1. /\ content = Layers(binaryDone, charset, "newlines", textDone) /\ charset \in AllCharsets
          /\ TextFilters \subseteq Range(textDone)
      BY <1>2 DEF IndInv, Ownership, Early, Hooked, Made, ShowContent, At
    <3> QED  BY <3>1, LayersWellRead DEF IndInv, TypeOK, Hooked
  <2>3. a.content = content /\ a.charset = charset
    OBVIOUS
  <2> HIDE DEF a
  <2> QED  BY <2>1, <2>2, <2>3 DEF ShownAsReported
<1>3. CASE Destroy /\ Unanswered
  <2>1. answers = <<>>
    BY <1>3 DEF IndInv, TypeOK, AnsweredOnce, Destroy, Unanswered
  <2>2. answers' = <<[kind |-> "error", charset |-> Unknown, content |-> <<>>]>>
    BY <1>3, <2>1 DEF Destroy, ShowError
  <2> QED  BY <2>2 DEF ShownAsReported
<1> QED
  BY <1>1, <1>2, <1>3 DEF Next, Loop, Answer, Filter, Start, ObtainAuthorization, LoadContent, HandleReply,
     ExecuteBinaryImportFilter, EstimateEncoding, SelectEncoding, SelectFallback, DecodeContent,
     ConvertLineFeeds, ExecuteTextImportFilter, Destroy, SetCharset, Cancel, FilterReturns, FilterFails,
     HandleRequest, vars

\* Whatever hooks ran, failed or were tried, and however many encodings were
\* chosen in vain, the text that is shown was decoded once, with the encoding
\* that is reported, had its line feeds converted once and went once through
\* each text hook.
THEOREM ShownWell == Spec => []ShownAsReported
<1>1. Init => Hooked /\ ShownAsReported
  BY OnceEmpty DEF Init, Hooked, Made, ShownAsReported
<1> QED  BY <1>1, InitInd, StepInd, HookedStep, ShownStep, PTL DEF Spec

-----------------------------------------------------------------------------
\* A step of the open is a step of its contract, or changes nothing it sees.
LEMMA RefinesStep == IndInv /\ IndInv' /\ [Next]_vars => [Contract!Next]_(Contract!vars)
<1> SUFFICES ASSUME IndInv, IndInv', [Next]_vars PROVE [Contract!Next]_(Contract!vars)
  OBVIOUS
<1>1. CASE HandleRequest
  <2>1. content = NoContent /\ answers = <<>> /\ UNCHANGED answers
    BY <1>1 DEF IndInv, TypeOK, AnsweredOnce, Ownership, HandleRequest
  <2> QED
    BY <2>1 DEF Contract!Next, Contract!Read, Contract!vars
<1>2. CASE ShowContent
  <2>1. answers = <<>> /\ content # NoContent /\ UNCHANGED content
    BY <1>2 DEF IndInv, TypeOK, AnsweredOnce, Ownership, Early, ShowContent, At, dataVars
  <2>2. answers' = <<[kind |-> "content", charset |-> charset, content |-> content]>>
    BY <1>2, <2>1 DEF ShowContent
  <2> QED
    BY <2>1, <2>2 DEF Contract!Next, Contract!Answer
<1>3. CASE Destroy /\ Unanswered
  <2>1. answers = <<>> /\ UNCHANGED content
    BY <1>3 DEF IndInv, TypeOK, AnsweredOnce, Destroy, Unanswered, dataVars
  <2>2. answers' = <<[kind |-> "error", charset |-> Unknown, content |-> <<>>]>>
    BY <1>3, <2>1 DEF Destroy, ShowError
  <2> QED
    BY <2>1, <2>2 DEF Contract!Next, Contract!Answer
<1>4. CASE DecodeContent \/ ConvertLineFeeds \/ FilterReturns
  <2>1. content # NoContent /\ UNCHANGED answers
    BY <1>4 DEF IndInv, Ownership, Early, DecodeContent, ConvertLineFeeds, FilterReturns, At
  <2>2. content' # NoContent
    <3>1. CASE DecodeContent \/ ConvertLineFeeds
      BY <1>4, <2>1, <3>1 DEF IndInv, Ownership, Early, DecodeContent, ConvertLineFeeds, At
    <3>2. CASE FilterReturns
      <4>1. Running \in Steps /\ content \in Contents \cup {NoContent}
        BY <3>2 DEF IndInv, TypeOK, Ownership, FilterReturns, Running, InBinaryFilter, Steps
      <4> QED  BY <2>1, <3>2, <4>1, Converted DEF FilterReturns
    <3> QED  BY <1>4, <3>1, <3>2
  <2> QED
    BY <2>1, <2>2 DEF Contract!vars
<1>5. CASE UNCHANGED <<content, answers>>
  BY <1>5 DEF Contract!vars
<1> QED
  BY <1>1, <1>2, <1>3, <1>4, <1>5 DEF Next, Loop, Answer, Filter, Start, ObtainAuthorization, LoadContent,
     HandleReply, ExecuteBinaryImportFilter, EstimateEncoding, SelectEncoding, SelectFallback,
     ExecuteTextImportFilter, Destroy, SetCharset, Cancel, FilterFails, vars, dataVars

\* file::open implements OpenContract.
THEOREM Refines == Spec => KeepsContract
<1>1. Init => Contract!Init
  BY DEF Init, Contract!Init
<1> QED  BY <1>1, InitInd, StepInd, RefinesStep, PTL DEF Spec, KeepsContract, Contract!Spec
=============================================================================
