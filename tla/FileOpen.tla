------------------------------- MODULE FileOpen -------------------------------
(***************************************************************************)
(* One call of file::open: the open_file_context_t it creates, the read on *)
(* a background thread, the import filters, the guesses of the encoding,   *)
(* and the callback of OakDocument that answers: that of a load, which     *)
(* shows a sheet, or that of importDocumentChanges, which has a list of    *)
(* fallbacks and aborts the program at its end.                            *)
(*                                                                         *)
(* The context is reference counted like the one of file::save: `holder'   *)
(* says who will call proceed(), `state' which case of the event loop runs *)
(* then; when nobody has it the destructor shows an error.                 *)
(*                                                                         *)
(* Content is the sequence of conversions it went through.  `bytes' is     *)
(* what the guesses see of it: which encodings decode it and the byte      *)
(* order mark it starts with.  NoCharset is decoded as ASCII.              *)
(***************************************************************************)
EXTENDS Naturals, Sequences, FiniteSets, Functions

CONSTANTS
  Charsets,       \* the encodings of the model
  NoCharset,      \* kCharsetNoEncoding
  Unknown,        \* kCharsetUnknown, or an encoding iconv does not know
  UTF8,           \* kCharsetUTF8
  Windows1252,    \* the last fallback of an import
  Total,          \* encodings that decode all bytes, like ISO-8859-1
  WithBOM,        \* encodings a byte order mark stands for
  TextFilters,    \* import hooks that match the path: callback.document.import
  BinaryFilters,  \* those that may match the content: callback.document.binary-import
  NoContent       \* _content is null

ASSUME ConstAssumption ==
  /\ {UTF8, Windows1252} \cup Total \cup WithBOM \subseteq Charsets
  /\ NoCharset \notin Charsets /\ Unknown \notin Charsets \cup {NoCharset}
  /\ IsFiniteSet(TextFilters) /\ IsFiniteSet(BinaryFilters)
  /\ \A f \in TextFilters \cup BinaryFilters \cup Charsets \cup {NoCharset} : f # "newlines"
  /\ NoContent \notin Seq(TextFilters \cup BinaryFilters \cup Charsets \cup {NoCharset, "newlines"})

VARIABLES
  state, holder,
  caller,          \* "load" or "import"
  window,          \* the load's _window is not nil
  estimate,        \* _estimate_encoding_state
  charset,         \* _encoding.charset()
  content, bytes,  \* _content
  attr, setting,   \* com.apple.TextEncoding of the file, the encoding setting of its path
  textDone, binaryDone,  \* _text_import_filters, _binary_import_filters
  tries,           \* the import callback's _encoding_state
  diskCharset,     \* the document's diskEncoding, the import's first try
  answers          \* the calls of show_content and show_error

guessVars == <<attr, setting, diskCharset>>
hookVars  == <<textDone, binaryDone>>
dataVars  == <<content, bytes>>
vars == <<state, holder, caller, window, estimate, charset, dataVars, guessVars, hookVars, tries, answers>>

\* The bytes the encodings tell apart.  A byte order mark is not ASCII, and
\* ASCII is UTF-8.
Bytes ==
  {b \in [decodes : SUBSET (Charsets \cup {NoCharset}), bom : WithBOM \cup {NoCharset}] :
     /\ Total \subseteq b.decodes
     /\ NoCharset \in b.decodes => UTF8 \in b.decodes /\ b.bom = NoCharset}

Empty == [decodes |-> Charsets \cup {NoCharset}, bom |-> NoCharset]

Estimates == <<"BOM", "ExtendedAttribute", "ASCII", "UTF8", "PathSettings", "AskUser">>
AskUser == Len(Estimates)

-----------------------------------------------------------------------------
\* file::open.  A load passes the content of a document that was made with
\* one and has no path, and so no attribute.
Init ==
  /\ state = "Start" /\ holder = "loop"
  /\ caller \in {"load", "import"}
  /\ window \in (IF caller = "load" THEN BOOLEAN ELSE {FALSE})
  /\ estimate = 1 /\ charset = NoCharset
  /\ content \in {NoContent} \cup (IF caller = "load" THEN {<<>>} ELSE {})
  /\ bytes \in (IF content = NoContent THEN {Empty} ELSE Bytes)
  /\ attr \in (IF content = NoContent THEN Charsets \cup {Unknown} ELSE {Unknown})
  /\ setting \in Charsets \cup {Unknown}
  /\ diskCharset \in Charsets \cup {NoCharset}
  /\ textDone = <<>> /\ binaryDone = <<>>
  /\ tries = 0 /\ answers = <<>>

\* The event loop is at the case s.
At(s) == holder = "loop" /\ state = s

Start ==
  /\ At("Start")
  /\ state' = IF content = NoContent THEN "ObtainAuthorization" ELSE "ExecuteBinaryImportFilter"
  /\ UNCHANGED <<holder, caller, window, estimate, charset, dataVars, guessVars, hookVars, tries, answers>>

\* The file may be readable or not; if not, both callbacks leave the question to
\* open_callback_t, which asks the user and drops the context if he refuses.
ObtainAuthorization ==
  /\ At("ObtainAuthorization")
  /\ state' = "LoadContent"
  /\ holder' \in {"loop", "none"}
  /\ UNCHANGED <<caller, window, estimate, charset, dataVars, guessVars, hookVars, tries, answers>>

LoadContent ==
  /\ At("LoadContent")
  /\ state' = "ExecuteBinaryImportFilter"
  /\ holder' = "reader"
  /\ UNCHANGED <<caller, window, estimate, charset, dataVars, guessVars, hookVars, tries, answers>>

\* read_t::handle_request on a background thread, and what handle_reply makes
\* of its result: the bytes, empty content for a file that does not exist, or none.
HandleRequest ==
  /\ holder = "reader"
  /\ holder' = "posted"
  /\ \/ content' = <<>> /\ bytes' \in Bytes
     \/ UNCHANGED dataVars
  /\ UNCHANGED <<state, caller, window, estimate, charset, guessVars, hookVars, tries, answers>>

HandleReply ==
  /\ holder = "posted"
  /\ holder' = "loop"
  /\ UNCHANGED <<state, caller, window, estimate, charset, dataVars, guessVars, hookVars, tries, answers>>

\* Without content the loop stops and the context goes with the read_t.  Else
\* the hook whose pattern matches the content best is run, unless it was before.
ExecuteBinaryImportFilter ==
  /\ At("ExecuteBinaryImportFilter")
  /\ \/ /\ content = NoContent
        /\ state' = "EstimateEncoding" /\ holder' = "none"
        /\ UNCHANGED binaryDone
     \/ /\ content # NoContent
        /\ state' = "EstimateEncoding"
        /\ UNCHANGED <<holder, binaryDone>>
     \/ /\ content # NoContent
        /\ \E f \in BinaryFilters \ Range(binaryDone) : binaryDone' = Append(binaryDone, f)
        /\ holder' = "filter"
        /\ UNCHANGED state
  /\ UNCHANGED <<caller, window, estimate, charset, dataVars, guessVars, textDone, tries, answers>>

-----------------------------------------------------------------------------
\* Mutant: UTF-8 is not looked for.
GuessNoUTF8 ==
  [ BOM               |-> IF bytes.bom = NoCharset THEN charset ELSE bytes.bom,
    ExtendedAttribute |-> attr,
    ASCII             |-> IF NoCharset \in bytes.decodes THEN NoCharset ELSE Unknown,
    UTF8              |-> Unknown,
    PathSettings      |-> setting,
    AskUser           |-> charset ]

\* The encoding each estimate sets.
Guess ==
  [ BOM               |-> IF bytes.bom = NoCharset THEN charset ELSE bytes.bom,
    ExtendedAttribute |-> attr,
    ASCII             |-> IF NoCharset \in bytes.decodes THEN NoCharset ELSE Unknown,
    UTF8              |-> IF UTF8 \in bytes.decodes THEN UTF8 ELSE Unknown,
    PathSettings      |-> setting,
    AskUser           |-> charset ]

\* Mutants: the estimate is not advanced, or past the last one.
NextEstimateSame == estimate
NextEstimateMore == estimate + 1
NextEstimate == IF estimate = AskUser THEN AskUser ELSE estimate + 1

EstimateEncoding ==
  /\ At("EstimateEncoding")
  /\ charset' = Guess[Estimates[estimate]]
  /\ state' = IF estimate = AskUser THEN "SelectEncoding" ELSE "DecodeContent"
  /\ estimate' = NextEstimate
  /\ UNCHANGED <<holder, caller, window, dataVars, guessVars, hookVars, tries, answers>>

\* The callback of a load: a sheet, which nobody sees without a window.
SelectEncoding ==
  /\ At("SelectEncoding") /\ caller = "load"
  /\ state' = "DecodeContent"
  /\ holder' = IF window THEN "user" ELSE "none"
  /\ UNCHANGED <<caller, window, estimate, charset, dataVars, guessVars, hookVars, tries, answers>>

\* The callback of an import: the encoding the document had, the most probable
\* one (any that was learned, or ISO-8859-1), Windows-1252, abort().
SelectFallback ==
  /\ At("SelectEncoding") /\ caller = "import"
  /\ state' = "DecodeContent"
  /\ \/ /\ tries < 3
        /\ charset' \in (IF tries = 0 THEN {diskCharset} ELSE IF tries = 1 THEN Charsets ELSE {Windows1252})
        /\ tries' = tries + 1
        /\ UNCHANGED holder
     \/ /\ tries = 3
        /\ holder' = "aborted"
        /\ UNCHANGED <<charset, tries>>
  /\ UNCHANGED <<caller, window, estimate, dataVars, guessVars, hookVars, answers>>

\* Mutant: bytes that do not decode are taken as they are.
DecodeContentAnyway ==
  /\ At("DecodeContent")
  /\ content' = IF charset \in bytes.decodes THEN Append(content, charset) ELSE content
  /\ state' = "EstimateLineFeeds"
  /\ UNCHANGED <<holder, caller, window, estimate, charset, bytes, guessVars, hookVars, tries, answers>>

DecodeContent ==
  /\ At("DecodeContent")
  /\ \/ /\ charset \in bytes.decodes
        /\ content' = Append(content, charset)
        /\ state' = "EstimateLineFeeds"
     \/ /\ charset \notin bytes.decodes
        /\ state' = "EstimateEncoding"
        /\ UNCHANGED content
  /\ UNCHANGED <<holder, caller, window, estimate, charset, bytes, guessVars, hookVars, tries, answers>>

\* kStateEstimateLineFeeds and kStateHarmonizeLineFeeds.
ConvertLineFeeds ==
  /\ At("EstimateLineFeeds")
  /\ content' = Append(content, "newlines")
  /\ state' = "ExecuteTextImportFilter"
  /\ UNCHANGED <<holder, caller, window, estimate, charset, bytes, guessVars, hookVars, tries, answers>>

\* One import hook is run at a time, each once.
ExecuteTextImportFilter ==
  /\ At("ExecuteTextImportFilter")
  /\ \/ /\ TextFilters \subseteq Range(textDone)
        /\ state' = "ShowContent"
        /\ UNCHANGED <<holder, textDone>>
     \/ \E f \in TextFilters \ Range(textDone) :
          /\ textDone' = Append(textDone, f)
          /\ holder' = "filter"
          /\ UNCHANGED state
  /\ UNCHANGED <<caller, window, estimate, charset, dataVars, guessVars, binaryDone, tries, answers>>

-----------------------------------------------------------------------------
InBinaryFilter == state = "ExecuteBinaryImportFilter"

\* The filter command that has the context.
Running == IF InBinaryFilter THEN binaryDone[Len(binaryDone)] ELSE textDone[Len(textDone)]

\* Its output is the content; the bytes a binary filter makes may be any.
FilterReturns ==
  /\ holder = "filter"
  /\ content' = Append(content, Running)
  /\ bytes' \in (IF InBinaryFilter THEN Bytes ELSE {bytes})
  /\ holder' = "loop"
  /\ UNCHANGED <<state, caller, window, estimate, charset, guessVars, hookVars, tries, answers>>

\* It fails, or its output is not a document: the context is dropped.
FilterFails ==
  /\ holder = "filter"
  /\ holder' = "none"
  /\ UNCHANGED <<state, caller, window, estimate, charset, dataVars, guessVars, hookVars, tries, answers>>

\* The user chooses an encoding in the sheet.
SetCharset(c) ==
  /\ holder = "user"
  /\ charset' = c /\ holder' = "loop"
  /\ UNCHANGED <<state, caller, window, estimate, dataVars, guessVars, hookVars, tries, answers>>

Cancel ==
  /\ holder = "user"
  /\ holder' = "none"
  /\ UNCHANGED <<state, caller, window, estimate, charset, dataVars, guessVars, hookVars, tries, answers>>

ShowContent ==
  /\ At("ShowContent")
  /\ state' = "Done" /\ holder' = "none"
  /\ answers' = Append(answers, [kind |-> "content", charset |-> charset, content |-> content])
  /\ UNCHANGED <<caller, window, estimate, charset, dataVars, guessVars, hookVars, tries>>

\* Mutant: the destructor always shows an error.
UnansweredAlways == TRUE
\* What the destructor asks.
Unanswered == state # "Done"

ShowError == answers' = Append(answers, [kind |-> "error", charset |-> Unknown, content |-> <<>>])

Destroy ==
  /\ holder = "none"
  /\ holder' = "gone"
  /\ IF Unanswered THEN ShowError ELSE UNCHANGED answers
  /\ UNCHANGED <<state, caller, window, estimate, charset, dataVars, guessVars, hookVars, tries>>

Loop ==
  \/ Start \/ ObtainAuthorization \/ LoadContent \/ HandleReply \/ ExecuteBinaryImportFilter
  \/ EstimateEncoding \/ SelectEncoding \/ SelectFallback \/ DecodeContent \/ ConvertLineFeeds
  \/ ExecuteTextImportFilter \/ ShowContent \/ Destroy

Answer == Cancel \/ \E c \in Charsets : SetCharset(c)

Filter == FilterReturns \/ FilterFails

Next == Loop \/ Answer \/ Filter \/ HandleRequest

Spec == Init /\ [][Next]_vars

\* The run loop runs, reads and commands end, and a sheet is answered.
FairSpec == Spec /\ WF_vars(Loop) /\ WF_vars(Answer) /\ WF_vars(Filter) /\ WF_vars(HandleRequest)

-----------------------------------------------------------------------------
Contents == Seq(TextFilters \cup BinaryFilters \cup Charsets \cup {NoCharset, "newlines"})

States == {"Start", "ObtainAuthorization", "LoadContent", "ExecuteBinaryImportFilter", "EstimateEncoding",
           "SelectEncoding", "DecodeContent", "EstimateLineFeeds", "ExecuteTextImportFilter",
           "ShowContent", "Done"}

Names == Charsets \cup {NoCharset, Unknown}

Answers == [kind : {"content", "error"}, charset : Names, content : Contents]

\* The type invariant.
TypeOK ==
  /\ state \in States
  /\ holder \in {"loop", "user", "filter", "reader", "posted", "none", "gone", "aborted"}
  /\ caller \in {"load", "import"} /\ window \in BOOLEAN
  /\ estimate \in 1..AskUser /\ tries \in 0..3
  /\ {charset, attr, setting, diskCharset} \subseteq Names
  /\ content \in Contents \cup {NoContent} /\ bytes \in Bytes
  /\ textDone \in Seq(TextFilters) /\ binaryDone \in Seq(BinaryFilters)
  /\ answers \in Seq(Answers)

\* The caller is told exactly once, with the text or with an error, whichever
\* way the context ends.
AnsweredOnce == Len(answers) = IF state = "Done" \/ holder = "gone" THEN 1 ELSE 0

\* Nobody is asked for an encoding, the user or the import's list, if one of
\* the guesses decodes the bytes; and the program is only aborted if
\* neither the document's encoding nor Windows-1252 does.
AskedLast ==
  /\ At("SelectEncoding") \/ holder \in {"user", "aborted"} =>
       {bytes.bom, attr, NoCharset, UTF8, setting} \cap bytes.decodes = {}
  /\ holder = "aborted" => {diskCharset, Windows1252} \cap bytes.decodes = {}

\* The text that is shown is the file's as the encoding decodes it that is
\* reported (and that a later save will use): it went through no binary hook
\* twice, was decoded once, had its line feeds converted once, and went once
\* through each text hook, however many encodings were tried.
WellRead(c, cs) ==
  \E b \in 0..Cardinality(BinaryFilters) :
    /\ Len(c) = b + 2 + Cardinality(TextFilters)
    /\ IsInjective(SubSeq(c, 1, b)) /\ Range(SubSeq(c, 1, b)) \subseteq BinaryFilters
    /\ c[b + 1] = cs /\ c[b + 2] = "newlines"
    /\ Range(SubSeq(c, b + 3, Len(c))) = TextFilters

ShownAsReported ==
  \A i \in DOMAIN answers :
    answers[i].kind = "content" => WellRead(answers[i].content, answers[i].charset)

\* Every open is answered in the end, unless the user keeps choosing
\* encodings that do not work or an import runs out of fallbacks.
EventuallyAnswered == <>(answers # <<>> \/ holder = "aborted") \/ []<>(holder = "user")

\* file::open keeps its contract.
Contract == INSTANCE OpenContract WITH
  read <- content # NoContent,
  answer <- IF answers = <<>> THEN "none" ELSE IF Len(answers) = 1 THEN answers[1].kind ELSE "twice"
KeepsContract == Contract!Spec
=============================================================================
