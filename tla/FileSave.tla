------------------------------- MODULE FileSave -------------------------------
(***************************************************************************)
(* One call of file::save: the file_context_t it creates, the callback_t   *)
(* of OakDocument that answers its questions, the export filters, the      *)
(* background write, and a file system that other programs change.         *)
(*                                                                         *)
(* The context is reference counted.  It runs its event loop, or somebody  *)
(* holds it who will call proceed(): a sheet shown to the user, a filter   *)
(* command, the background block.  When nobody does it is destroyed, and   *)
(* its destructor reports the save as failed.  `holder' says who has it,   *)
(* `state' which case of the event loop runs when proceed() is called      *)
(* (_state while the loop runs, _next_state while it is idle); the state   *)
(* also tells which question the user is looking at.                       *)
(*                                                                         *)
(* Content is the sequence of conversions it went through.                 *)
(***************************************************************************)
EXTENDS Naturals, Sequences, FiniteSets, Functions

CONSTANTS
  Charsets,       \* the encodings of the model
  NoCharset,      \* kCharsetNoEncoding
  UTF8,           \* kCharsetUTF8
  Encodable,      \* the encodings that can represent the text
  TextFilters,    \* export hooks that match the path: callback.document.export
  BinaryFilters,  \* and callback.document.binary-export
  MaxChanges      \* bound: how often other programs change the file's status

ASSUME ConstAssumption ==
  /\ UTF8 \in Encodable /\ Encodable \subseteq Charsets /\ NoCharset \notin Charsets
  /\ IsFiniteSet(TextFilters) /\ IsFiniteSet(BinaryFilters)
  /\ MaxChanges \in Nat

VARIABLES
  state, holder,
  window,         \* callback_t::_window is not nil: there is somebody to ask
  hasPath,        \* _path is set
  makeWritable, createParent,
  charset,        \* _encoding.charset()
  content,        \* _content
  textDone, binaryDone,  \* _text_export_filters, _binary_export_filters
  saved,          \* _saved
  error,          \* _error is set
  cancel,         \* callback_t::_cancel
  docCharset,     \* the document's diskEncoding
  status,         \* file::status(_path)
  changes,        \* how often other programs changed it
  disk,           \* what the save wrote to the file: a sequence of contents
  reports,        \* the calls of did_save
  passed,         \* history: the status the authorization step accepted
  overLocked,     \* history: a locked file was written
  chosen          \* history: the encoding chosen in the save panel, or NoCharset

fsVars   == <<status, changes, disk, overLocked>>
askVars  == <<hasPath, makeWritable, createParent>>
hookVars == <<textDone, binaryDone>>
ctxVars  == <<askVars, charset, content, hookVars, saved, error>>
cbVars   == <<window, cancel, docCharset, chosen>>
vars == <<state, holder, fsVars, ctxVars, cbVars, reports, passed>>

Locked  == {"NotWritable", "NotWritableButOwner"}
NoWrite == {"NoParent", "ReadOnly", "Unhandled"}
\* file_status_t
Status  == {"Writable", "WritableByRoot"} \cup Locked \cup NoWrite

-----------------------------------------------------------------------------
\* file::save: saveModalForWindow passes the encoding of the document, or the
\* setting's if the document has none; the function also takes none at all.
Init ==
  /\ state = "Start" /\ holder = "loop"
  /\ window \in BOOLEAN /\ hasPath \in BOOLEAN
  /\ makeWritable = FALSE /\ createParent = FALSE
  /\ docCharset \in Charsets \cup {NoCharset}
  /\ charset \in (IF docCharset = NoCharset THEN Charsets \cup {NoCharset} ELSE {docCharset})
  /\ content = <<>> /\ textDone = <<>> /\ binaryDone = <<>>
  /\ saved = FALSE /\ error = FALSE /\ cancel = FALSE
  /\ status \in Status /\ changes = 0
  /\ disk = <<>> /\ reports = <<>>
  /\ passed = "none" /\ overLocked = FALSE /\ chosen = NoCharset

\* The event loop is at the case s.
At(s) == holder = "loop" /\ state = s

\* The callback shows a sheet, or lets go of the context if it has no window.
Asked == IF window THEN "user" ELSE "none"

Start ==
  /\ At("Start")
  /\ state' = "SelectPath"
  /\ holder' = IF hasPath THEN "loop" ELSE Asked
  /\ UNCHANGED <<fsVars, ctxVars, cbVars, reports, passed>>

SelectPath ==
  /\ At("SelectPath")
  /\ state' = "MakeWritable"
  /\ holder' = IF hasPath THEN "loop" ELSE "none"
  /\ UNCHANGED <<fsVars, ctxVars, cbVars, reports, passed>>

\* The parent folder is missing: ask, or make it if the user agreed before.
MakeParent ==
  /\ At("MakeWritable") /\ status = "NoParent"
  /\ \/ /\ ~createParent
        /\ state' = "MakeWritable" /\ holder' = Asked
        /\ UNCHANGED status
     \/ /\ createParent
        /\ state' = "ObtainAuthorization"
        /\ \/ holder' = "loop" /\ status' = "Writable"
           \/ holder' = "none" /\ UNCHANGED status
  /\ UNCHANGED <<changes, disk, overLocked, ctxVars, cbVars, reports, passed>>

MakeWritable ==
  /\ At("MakeWritable") /\ status # "NoParent"
  /\ state' = "ObtainAuthorization"
  /\ holder' = IF status \in Locked THEN Asked
               ELSE IF status \in NoWrite THEN "none"
               ELSE "loop"
  /\ UNCHANGED <<fsVars, ctxVars, cbVars, reports, passed>>

\* Mutant: the answer about the locked file is not looked at.
MayWriteAnyway == status \in {"Writable", "NotWritableButOwner"}
\* The file may be written, and by whom.
MayWrite  == status = "Writable" \/ (status = "NotWritableButOwner" /\ makeWritable)
MayAsRoot == status = "WritableByRoot" \/ (status = "NotWritable" /\ makeWritable)

ObtainAuthorization ==
  /\ At("ObtainAuthorization")
  /\ state' = "ExecuteTextExportFilter"
  /\ holder' = IF MayWrite THEN "loop" ELSE IF MayAsRoot THEN Asked ELSE "none"
  /\ passed' = status
  /\ UNCHANGED <<fsVars, ctxVars, cbVars, reports>>

-----------------------------------------------------------------------------
\* One export hook is run at a time, each at most once; the filter command
\* gets hold of the context.
ExecuteTextExportFilter ==
  /\ At("ExecuteTextExportFilter")
  /\ \/ /\ TextFilters \subseteq Range(textDone)
        /\ state' = "ConvertLineFeeds"
        /\ UNCHANGED <<holder, textDone>>
     \/ \E f \in TextFilters \ Range(textDone) :
          /\ textDone' = Append(textDone, f)
          /\ holder' = "filter"
          /\ UNCHANGED state
  /\ UNCHANGED <<fsVars, askVars, charset, content, binaryDone, saved, error, cbVars,
                 reports, passed>>

ConvertLineFeeds ==
  /\ At("ConvertLineFeeds")
  /\ state' = "EncodeContent"
  /\ content' = Append(content, "newlines")
  /\ UNCHANGED <<holder, fsVars, askVars, charset, hookVars, saved, error, cbVars,
                 reports, passed>>

\* Mutant: back to where the line feeds are converted.
AfterSelectEncodingAgain == "ConvertLineFeeds"
AfterSelectEncoding == "EncodeContent"

\* A document without an encoding gets UTF-8; otherwise its encoding failed,
\* and the user is asked for another.
SelectEncoding ==
  /\ At("SelectEncoding")
  /\ state' = AfterSelectEncoding
  /\ \/ /\ charset = NoCharset
        /\ charset' = UTF8 /\ UNCHANGED holder
     \/ /\ charset # NoCharset
        /\ holder' = Asked /\ UNCHANGED charset
  /\ UNCHANGED <<fsVars, askVars, content, hookVars, saved, error, cbVars, reports,
                 passed>>

EncodeContent ==
  /\ At("EncodeContent")
  /\ \/ /\ charset \in Encodable
        /\ content' = Append(content, charset)
        /\ state' = "ExecuteBinaryExportFilter"
     \/ /\ charset \notin Encodable
        /\ state' = "SelectEncoding"
        /\ UNCHANGED content
  /\ UNCHANGED <<holder, fsVars, askVars, charset, hookVars, saved, error, cbVars,
                 reports, passed>>

ExecuteBinaryExportFilter ==
  /\ At("ExecuteBinaryExportFilter")
  /\ \/ /\ BinaryFilters \subseteq Range(binaryDone)
        /\ state' = "SaveContent"
        /\ UNCHANGED <<holder, binaryDone>>
     \/ \E f \in BinaryFilters \ Range(binaryDone) :
          /\ binaryDone' = Append(binaryDone, f)
          /\ holder' = "filter"
          /\ UNCHANGED state
  /\ UNCHANGED <<fsVars, askVars, charset, content, textDone, saved, error, cbVars,
                 reports, passed>>

\* The filter command that has the context.
Running ==
  IF state = "ExecuteTextExportFilter" THEN textDone[Len(textDone)] ELSE binaryDone[Len(binaryDone)]

FilterReturns ==
  /\ holder = "filter"
  /\ content' = Append(content, Running)
  /\ holder' = "loop"
  /\ UNCHANGED <<state, fsVars, askVars, charset, hookVars, saved, error, cbVars,
                 reports, passed>>

\* It fails, or its output is not a document: the context is dropped.
FilterFails ==
  /\ holder = "filter"
  /\ error' \in BOOLEAN
  /\ holder' = "none"
  /\ UNCHANGED <<state, fsVars, askVars, charset, content, hookVars, saved, cbVars,
                 reports, passed>>

-----------------------------------------------------------------------------
\* Mutant: _next_state is not set.
SaveContentAgain ==
  /\ At("SaveContent")
  /\ holder' = "writer"
  /\ UNCHANGED <<state, fsVars, ctxVars, cbVars, reports, passed>>

SaveContent ==
  /\ At("SaveContent")
  /\ state' = "NotifyCallback"
  /\ holder' = "writer"
  /\ UNCHANGED <<fsVars, ctxVars, cbVars, reports, passed>>

\* write_to_path, on a background thread; the error goes back to the main
\* thread.  The status is read anew.  A file the user owns is unlocked; others
\* are written by the privileged tool; in the remaining cases nothing happens.
WriteToPath ==
  /\ holder = "writer"
  /\ holder' = "posted"
  /\ \/ /\ status \in NoWrite
        /\ error' = FALSE
        /\ UNCHANGED <<disk, overLocked, status>>
     \/ /\ status \notin NoWrite
        /\ \/ disk' = Append(disk, content) /\ error' \in BOOLEAN
           \/ error' = TRUE /\ UNCHANGED disk
        /\ overLocked' = (status \in Locked /\ disk' # disk)
        /\ status' = IF status = "NotWritableButOwner" THEN "Writable" ELSE status
  /\ UNCHANGED <<state, changes, askVars, charset, content, hookVars, saved, cbVars,
                 reports, passed>>

\* The block the background thread performs on the main run loop.
WriteReturns ==
  /\ holder = "posted"
  /\ holder' = "loop"
  /\ saved' = ~error
  /\ UNCHANGED <<state, fsVars, askVars, charset, content, hookVars, error, cbVars,
                 reports, passed>>

\* callback_t::did_save.
DidSave ==
  reports' = Append(reports,
    [result |-> IF saved THEN "success" ELSE IF cancel THEN "cancel" ELSE "failure",
     charset |-> charset])

NotifyCallback ==
  /\ At("NotifyCallback")
  /\ DidSave
  /\ state' = "Done" /\ holder' = "none"
  /\ docCharset' = IF saved THEN charset ELSE docCharset
  /\ UNCHANGED <<fsVars, ctxVars, window, cancel, chosen, passed>>

\* Mutants: the destructor always reports, or only if there is an error to show.
UnreportedAlways == TRUE
UnreportedError == error
\* What the destructor asks.
Unreported == state # "Done"

Destroy ==
  /\ holder = "none"
  /\ holder' = "gone"
  /\ IF Unreported THEN DidSave ELSE UNCHANGED reports
  /\ UNCHANGED <<state, fsVars, ctxVars, cbVars, passed>>

-----------------------------------------------------------------------------
\* The user answers the sheet, which proceeds with the case in `state'.
SetPath(c) ==
  /\ holder = "user" /\ state = "SelectPath"
  /\ hasPath' = TRUE /\ docCharset' = c /\ chosen' = c /\ holder' = "loop"
  /\ UNCHANGED <<state, fsVars, makeWritable, createParent, charset, content,
                 hookVars, saved, error, window, cancel, reports, passed>>

SetMakeWritable ==
  /\ holder = "user" /\ state = "ObtainAuthorization"
  /\ makeWritable' = TRUE /\ holder' = "loop"
  /\ UNCHANGED <<state, fsVars, hasPath, createParent, charset, content, hookVars,
                 saved, error, cbVars, reports, passed>>

SetCreateParent ==
  /\ holder = "user" /\ state = "MakeWritable"
  /\ createParent' = TRUE /\ holder' = "loop"
  /\ UNCHANGED <<state, fsVars, hasPath, makeWritable, charset, content, hookVars,
                 saved, error, cbVars, reports, passed>>

SetAuthorization ==
  /\ holder = "user" /\ state = "ExecuteTextExportFilter"
  /\ holder' = "loop"
  /\ UNCHANGED <<state, fsVars, ctxVars, cbVars, reports, passed>>

SetCharset(c) ==
  /\ holder = "user" /\ state = "EncodeContent"
  /\ charset' = c /\ holder' = "loop"
  /\ UNCHANGED <<state, fsVars, askVars, content, hookVars, saved, error, cbVars,
                 reports, passed>>

\* Mutant: the answer is noted, and the save goes on.
CancelProceeds ==
  /\ holder = "user"
  /\ cancel' = TRUE /\ holder' = "loop"
  /\ UNCHANGED <<state, fsVars, ctxVars, window, docCharset, chosen, reports, passed>>

Cancel ==
  /\ holder = "user"
  /\ cancel' = TRUE /\ holder' = "none"
  /\ UNCHANGED <<state, fsVars, ctxVars, window, docCharset, chosen, reports, passed>>

\* Another program changes the file or its folder.
ChangeStatus ==
  /\ changes < MaxChanges /\ holder # "gone"
  /\ changes' = changes + 1
  /\ status' \in Status \ {status}
  /\ UNCHANGED <<state, holder, disk, overLocked, ctxVars, cbVars, reports, passed>>

Loop ==
  \/ Start \/ SelectPath \/ MakeParent \/ MakeWritable \/ ObtainAuthorization
  \/ ExecuteTextExportFilter \/ ConvertLineFeeds \/ SelectEncoding \/ EncodeContent
  \/ ExecuteBinaryExportFilter \/ SaveContent \/ WriteReturns \/ NotifyCallback \/ Destroy

Answer ==
  \/ \E c \in Charsets : SetPath(c) \/ SetCharset(c)
  \/ SetMakeWritable \/ SetCreateParent \/ SetAuthorization \/ Cancel

Filter == FilterReturns \/ FilterFails

Next == Loop \/ Answer \/ Filter \/ WriteToPath \/ ChangeStatus

Spec == Init /\ [][Next]_vars

\* The run loop runs, commands and writes end, and a modal sheet is answered.
FairSpec == Spec /\ WF_vars(Loop) /\ WF_vars(Answer) /\ WF_vars(Filter) /\ WF_vars(WriteToPath)

-----------------------------------------------------------------------------
Contents == Seq(TextFilters \cup BinaryFilters \cup Charsets \cup {"newlines"})

States == {"Start", "SelectPath", "MakeWritable", "ObtainAuthorization", "ExecuteTextExportFilter",
           "ConvertLineFeeds", "SelectEncoding", "EncodeContent", "ExecuteBinaryExportFilter",
           "SaveContent", "NotifyCallback", "Done"}

Reports == [result : {"success", "cancel", "failure"}, charset : Charsets \cup {NoCharset}]

\* The type invariant.
TypeOK ==
  /\ state \in States
  /\ holder \in {"loop", "user", "filter", "writer", "posted", "none", "gone"}
  /\ window \in BOOLEAN /\ hasPath \in BOOLEAN /\ makeWritable \in BOOLEAN /\ createParent \in BOOLEAN
  /\ saved \in BOOLEAN /\ error \in BOOLEAN /\ cancel \in BOOLEAN /\ overLocked \in BOOLEAN
  /\ charset \in Charsets \cup {NoCharset} /\ docCharset \in Charsets \cup {NoCharset}
  /\ chosen \in Charsets \cup {NoCharset}
  /\ content \in Contents
  /\ textDone \in Seq(TextFilters) /\ binaryDone \in Seq(BinaryFilters)
  /\ status \in Status /\ passed \in Status \cup {"none"}
  /\ changes \in Nat
  /\ disk \in Seq(Contents) /\ Len(disk) <= 1
  /\ reports \in Seq(Reports)

\* did_save is called exactly once in a context's life, whichever way it ends:
\* by the last case of the loop or by the destructor, which asserts that a
\* save it reports as failed did not succeed.
ReportedOnce ==
  /\ Len(reports) = IF state = "Done" \/ holder = "gone" THEN 1 ELSE 0
  /\ holder = "none" /\ Unreported => ~saved

\* A locked file is only written if the user agreed, or if it was not locked
\* when the save looked.
LockedNeedsConsent == overLocked => makeWritable \/ passed \notin Locked

\* What reaches the disk went once through each export hook, had its line
\* feeds converted once, and is in the encoding that did_save reports, which
\* becomes the document's: also when encodings were tried that failed.
WellMade(c, cs) ==
  LET t == Cardinality(TextFilters) IN
  /\ Len(c) = t + 2 + Cardinality(BinaryFilters)
  /\ Range(SubSeq(c, 1, t)) = TextFilters
  /\ c[t + 1] = "newlines" /\ c[t + 2] = cs
  /\ Range(SubSeq(c, t + 3, Len(c))) = BinaryFilters

WrittenAsReported ==
  \A i \in DOMAIN disk, j \in DOMAIN reports : WellMade(disk[i], reports[j].charset)

\* Every save is reported in the end, unless the user keeps choosing
\* encodings that do not work.
EventuallyReported == <>(reports # <<>>) \/ []<>(holder = "user" /\ state = "EncodeContent")

\* file::save keeps its contract.
Contract == INSTANCE SaveContract WITH
  written <- disk # <<>>,
  result <- IF reports = <<>> THEN "none" ELSE reports[1].result
KeepsContract == Contract!Spec

\* t_save.cc: after a save that reports success, the file has the content.
SuccessMeansWritten ==
  \A j \in DOMAIN reports : reports[j].result = "success" => disk # <<>>

\* Changes.md: the encoding is chosen in the save panel.  The document has it
\* after a save that nobody changed it in again.
PanelEncodingUsed ==
  \A j \in DOMAIN reports :
    reports[j].result = "success" /\ chosen \in Encodable => reports[j].charset = chosen
=============================================================================
