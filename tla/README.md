# TextMate in TLA+

Specifications of the parts of TextMate that decide whether a user's text is
kept, shown and changed as asked: the undo history, opening and saving a file,
the document between loading and closing, the buffer with what moves along with
its text, the editor's commands, and the services that work behind them.
Each module is written from the C++ and Objective-C++ sources; `PROJECT.json`
names, for every definition, the lines it stands for. TLC checks small
instances, TLAPS proves the central invariants for all of them.

Paths below are relative to `src/Frameworks` unless they say otherwise.

## 1. The system

TextMate is one AppKit process. Nearly all state lives on the main thread and
changes in handlers of its run loop. Three things make the order of events hard:

- **Background work with completions.** `file::open`, `file::save`, the parser,
  commands and version control status do their work on dispatch queues or in
  child processes, and post a block to the main run loop. What was true when the
  work was started may not be true any more when the block runs.
- **Nested run loops.** `cf::run_loop_t::start` (cf/src/run_loop.cc) runs the
  loop from inside a handler: timers, file system events and completions are
  served while the handler is half done, user events are not.
- **The file system and other programs**, which change files at any time and
  announce it late.

The rest is algorithms on data that moves: positions in a text that is edited,
offsets in balanced trees, nested fields, stacks of rules, cascades of settings.
There the hard part is the boundary, and the long sequence of legal calls.

### Components

| Component | State | Operations | Hard behaviour | What makes it correct |
|---|---|---|---|---|
| undo manager (undo) | records, index, nesting count, the buffer's revision | begin/end group, will_replace, undo, redo | nested groups, groups that merge when walked over, edits after an undo | a revision names one text; records replay the text; the walks end inside the records |
| document life cycle (document/OakDocument.mm) | buffer, revisions, saved revision, snapshot, backup, open count, load handlers | load, save, close, edit, import, backup, restore | background saves, nested run loop of an import, failed loads, crashes | no unsaved text lost; "not edited" means "in the file"; other programs' changes merge without costing the user's; opens and closes balance |
| saving a file (file/save.cc) | state of the context, its holder, content, encoding, filters, path status | fourteen states, five questions, filters, background write | answers that never come, status that changes meanwhile, encodings that fail | one report; consent; what is written is what is reported |
| opening a file (file/open.cc) | as for saving, with the guesses of the encoding | eleven states, questions, import filters | the same, and retries of the decoding | one answer; the text shown was decoded as reported |
| text buffer (buffer) | text in shared blocks, lines, marks, pairs, scopes, parser states, dirty positions | replace, parse in background, repair, copy | a parse of a text that changed; copies that share memory | reads as edited; marks stay at their text; scopes belong to the text; every line is parsed in the end |
| layout of the view (layout) | rows, their nodes, folded ranges, indent levels | edit, fold, unfold, toggle | edits across folds | rows show the text |
| document editor (editor, selection) | text, selections, clipboards | type, delete, kill, yank, cut, paste, move, transpose, find, replace | many carets, rectangles | replacements do not disturb each other; nothing taken out is lost |
| snippets (regexp/snippet.cc) | stack of snippets with fields and mirrors | insert, type, next and previous field | nested fields, mirrors that update mirrors | mirrors follow their fields |
| searching and format strings (regexp) | state of a search between pieces | match pieces, parse, expand, escape | matches across pieces | finds what is there; escaped text reads as itself |
| parsing and scopes (parse, scope) | stack of rules, scopes of a line | parse a line, match a selector | rules that match nothing, greedy walks | the parse ends and balances; a selector matches when some way to lay it does |
| settings (settings) | cache of files, the user's settings | read, watch, set | files that come and go | what is in force is in the files |
| version control status (scm) | status per working copy, pending flag, clients | changed, update, add and remove clients | events while an update runs | one update at a time; the status is current in the end |
| bundles (plist/fs_cache.cc, BundlesManager) | cache of a directory, index, copy on disk with an event | change, reload, save, install, launch | crashes, events replayed | the index has what is on the disk |
| replacing a file (io/intermediate.mm), document registry (OakDocumentController.mm), commands (command), file system events (KEventManager.mm), rmate, windows and tabs | | | | not modelled, see section 5 |

`PROJECT.json` lists every component with its sources and, where it is partly
or not modelled, what is missing and why.

### How they interact

- An editing command of the **editor** opens an **undo group**, edits the
  **buffer**, and closes it; the buffer announces each edit to the undo manager,
  which hands out **revisions**. OakDocument compares revisions to decide
  whether it is edited.
- The buffer moves its marks, pairs, scopes and dirty positions with each edit
  and starts the **parser**; the **layout** is told of both and keeps its rows.
- OakDocument calls **file::open** and **file::save** with a callback object
  that answers their questions with sheets, and gets a completion on the main
  thread. Both run bundle **commands** as filters.
- **KEventManager** tells OakDocument that its file changed; OakDocument reads
  the file in a nested run loop and merges. It stops observing while it saves.
- A timer writes a **backup**; the window controllers save the **session**,
  which names the documents that were edited, and restore both after a crash.
- **Scope selectors** decide which **bundle** items and **settings** apply.

## 2. The modules

| Module | Kind | What it is |
|---|---|---|
| `RevisionHistory` | abstract | a revision number names one text for ever |
| `UndoManager` | component | `ng::undo_manager_t` over the buffer; implements `RevisionHistory` |
| `SaveContract`, `OpenContract` | abstract | at most one write (read), one report (answer), and nothing after it |
| `FileSave`, `FileOpen` | components | `file::save`, `file::open`; implement the contracts |
| `Document` | composition | one `OakDocument` with its file, backup, session and clients; stands on the promises of `RevisionHistory`, `SaveContract` and `OpenContract` |
| `TextOps`, `TextTrim` | operators | substring and splice; what `buffer_t::replace` trims off an edit |
| `IndexedMap` | operators | `indexed_map_t`: keys that move with the text |
| `BufferParser` | component | the parser behind a buffer, its revisions and its hooks |
| `Storage` | component | the text in blocks of memory that pieces and copies share |
| `BufferMarks` | component | marks and pairs of brackets, and the commands that use pairs |
| `BasicTree` | component | the balanced tree of `storage_t`, `indexed_map_t` and the rows |
| `TextFolds`, `TextRows` | operators, component | what can be folded; the rows of a view |
| `Selections`, `Movements` | operators | selections, how carets move and ranges grow, brackets and words |
| `Editor` | component | the editor's commands |
| `Snippets` | component | the stack of snippets in a text |
| `FindStream` | component | the search for a string in pieces |
| `GrammarParse` | component | parsing the lines of a text by a grammar |
| `ScopeSelectors` | function | matching a scope against a selector |
| `Settings` | component | files, cascade, the user's settings, syntax |
| `FormatStrings`, `PathNames`, `Globs` | functions | parsing and expanding format strings; paths and links; globs |
| `ScmStatus` | component | the status of a working copy and its clients |
| `BundleCache` | component | the cache and the index of bundles over launches |
| `MCUndoManager`, `MCFileSave`, `MCFileOpen`, `MCDocument` | instances for TLC | of one component each |
| `MCBuffer`, `MCEditing`, `MCServices` (with `MCParsing`, `MCLookups`) | instances for TLC | of several, see below |
| `DataLemmas` | lemmas | about numbers, splices and lists of hooks |
| `UndoManagerProofs`, `FileSaveProofs`, `FileOpenProofs`, `DocumentProofs`, `StorageProofs`, `BufferMapsProofs` (of `BufferMarks` and `BufferParser`), `ServicesProofs` | proofs | of the component's theorems |

**Instances of several components.** `MCBuffer`, `MCEditing` and `MCServices`
check components that share no state. A behaviour begins with the choice of a
`part`, and only that part takes steps. The component that the module EXTENDS,
and whose own variables and properties a theorem speaks of (`Storage`,
`BufferMarks`, `ScmStatus`), stays in an initial state when another part is
chosen; the variables of the others are a model value. `MCDocument` does the
same with three instances of one component.

### UndoManager

State: `text`, `revision`, `nextRevision` are the buffer's; `records`, `index`,
`nesting`, `preSel`, `preRevision`, `changes` are the undo manager's members;
`mode`, `res`, `rev` the locals of an `undo()` or `redo()` under way. `hist` and
`content` are history variables. An action per operation: `BeginUndoGroup`,
`EndUndoGroupQuiet` and `EndUndoGroupBump` (the two ways `end_undo_group` goes),
`Replace` (with the `will_replace` it announces), `StartUndo`/`StartRedo` (the
calling handlers), one `UndoStep`/`RedoStep` per record, `FinishLoop`. Characters
are members of a small set of which some count as white space, since
`should_merge` looks at nothing else; a selection is a value compared for
equality.

### FileSave

`state` is the case of `event_loop` that runs next, `holder` who has the
reference counted context: the loop, the user (a sheet), a filter command, the
background block, its block on the main thread, nobody. When nobody has it
`Destroy` runs, which is `~file_context_t`. Each case of the switch is an
action; `SetPath` … `Cancel` are the answers of OakDocument's `callback_t`;
`WriteToPath` is the background write, which reads the path's status again.
`ChangeStatus` is the rest of the world. The content is the sequence of the
conversions it went through. A write that fails leaves the file alone; what a
failing write does to the file belongs to the component "replacing a file".

### FileOpen

`state` and `holder` are as in `FileSave`; the background block is `HandleRequest`,
which reads the file. What the guesses see of the bytes is `bytes`: the encodings
that decode them and the byte order mark. `estimate` counts the guesses
(`_estimate_encoding_state`) and `Guess` is the encoding each of them sets. The
last one asks the caller: a load shows a sheet (`SelectEncoding`, answered by
`SetCharset` or `Cancel`), an import has the list of `SelectFallback`, at whose
end the program calls `abort()` (document/src/OakDocument.mm:1728-1731), which is
`holder = "aborted"`. Every end of the context is `ShowContent` or `Destroy`, the
answer `Document` waits for in its loads and imports. A call that passes the
content along is a load of a document made with content and no path.

### Document

A text is a set of lines, which is what diff3 merges. `texts[r]` is the text of
revision `r` (`RevisionHistory`'s promise, so undo is a jump to a revision; a
revision of a discarded redo branch can be jumped to as well, which gives the
model more behaviours than the code). `saves` holds the calls of `file::save`
that have not reported. `imports` is the stack of nested run loops of
`importDocumentChanges`: each waits for its own read, the reads run on a
concurrent queue and are answered in any order (file/src/server.h:42-52), and only
the innermost loop can end (`ImportStops`). A reload ends an undo group, and
`endUndoGrouping` may run a waiting import to its end (OakDocument.mm:1204-1205)
before the reload goes on: `RunAnother` suspends the outer import, and `GoOn` is
what it does after its group, that is `markDocumentSaved` or the note of its
merge's outcome (1757-1759, 1775-1777). `mixed` is history for what can go wrong
then (section 3, Findings). `UserEvents` says when the top-level run loop serves
the user: not in an import, not in an undo group. `RunLoopEvents` says when
timers, events and completions are served: also in an import, and inside a
group if a command runs in it (`RunLoopInGroups`). `MayAct` says whether the user
does anything while a save is under way (`BusyWhileSaving`). A crash keeps the
file, the backup and the session file; the next start is part of the same action,
and the backup is loaded when a client loads the document. `expected` remembers
the text that should come back, unless one of the two timers was still running,
and whether the document should know that it is not saved: not if the backup was
made while the file was `missing` (section 3, Findings).

### The buffer

`BufferParser`: `buf` is the buffer with its text, revision, maps (`dirty`,
`states`, `scopes`) and the one `request` that may be under way: the line that was
captured, with the revision it has. `LineParsed` is the block on the main thread
(buffer/src/parsing.cc:56-72). `WaitForRepair` is what enumerating symbols does: it
forgets the request, and while `waiting` each `RepairLine` is one turn of the loop
that parses on the main thread, until `Repaired`. The grammar is one that tells
quoted text, so that a line's state depends on all before it. `seen` is what the
hooks were last told of each character.

`Storage`: `memory` is the blocks (bytes, and how many nodes share each), `nodes`
the pieces of the text, `snapshot` a copy that a save or an enumeration holds.
An insertion is appended in place if the piece before it ends where its block
does and there is room (storage.cc:68-71), else it gets a block of its own.

`BufferMarks`: `marks` and `pairs` are the indexed maps. To say where a mark
should be, a mark's value is the character it was set behind, and `typed`
remembers for which characters a pair was added; the code keeps neither.

`BasicTree` has the nodes with level, key and sum of keys; `TextRows` the rows
with their nodes (texts, unprintable characters, folds), which know lengths only;
`TextFolds` what is folded and the indent levels that are known.

### Editing

`Editor` has the text, the selection (a set of ranges, each with columns beyond
the end of a line and the flag of a rectangle), the two clipboards and whether
the next kill extends the yank. `Performed` is what every command does around
its own. `Snippets` has the stack of snippets with their fields and mirrors, a
position being an offset and a rank, as in the code. `FindStream` walks the
automaton a needle is made into, over pieces of the text.

### Services

`ScmStatus`: `shared` is the `shared_info_t` the cache has a weak pointer to,
`reader` the serial queue, `blocks` the main run loop's. Strong and weak pointers
decide who is there to answer (`Alive`, `Release`). A status is the count of changes
it was read at, so that "newer" can be said. `BundleCache` has the disk, the cache
with the event it is current for, the saved copy, and launches. The code does not
notice every change, and two history variables name the bundles concerned; whatever
happens, all others must still be right. `missed` are those that changed unnoticed:
between the reading of the saved cache and the start of the watch, when there is no
event to start from (BundlesManager.mm:388); by a replacement, for which the
system's event names only the bundles directory, if the application ends before the
save after it was read again; and by coming back while the cache still has something
of the bundle that was there before, since `cache_t::reload` forgets the directory's
entry (plist/src/fs_cache.cc:366-377) and not the file's, which only `cleanup`
drops. `stale` are those that a recursive reload found empty and did not report as
changed: it compares the entries of a directory with none (355-358), so nothing
makes the index again (BundlesManager.mm:408-412) until something else does. `Open`
of `ScmStatus` has the second search for a client whose status is that of a
directory above its path (scm.cc:377-399). `GrammarParse` steps through the matches
of a line. `ScopeSelectors`, `FormatStrings`, `PathNames`, `Globs` and two of the
machines of `Settings` are functions: their variable holds the case under test and
`MCParsing`, `MCLookups` list the cases.

## 3. What the runs check

| Run | Instance | Checks | Shows |
|---|---|---|---|
| `undo_groups` | two selections, two nested groups, three records, texts of two characters | `TypeOK`, `RevisionIdentifiesText`, `RecordsReplayHistory`, `LoopsStayInRecords`, `KeepsRevisionHistory` | whatever edits, undos and redos led to a text, its revision is the one it was given; merged walks end at a record with a selection; the refinement |
| `save_steps` | three encodings of which one fails, two text filters, a binary one, two status changes | `TypeOK`, `ReportedOnce`, `LockedNeedsConsent`, `WrittenAsReported`, `KeepsContract`, `EventuallyReported` | every way through one save, and no save is forgotten |
| `save_written` | one filter | `SuccessMeansWritten` | violated, see Findings |
| `save_panel` | one filter | `PanelEncodingUsed` | violated, see Findings |
| `open_steps` | two text and two binary filters, no encoding that decodes everything, so that both a sheet and the end of the fallbacks are reached | `TypeOK`, `AnsweredOnce`, `AskedLast`, `ShownAsReported`, `KeepsContract`, `EventuallyAnswered` | every way through one open, and no load waits for ever |
| `doc_instances` | *given*: two lines, two revisions, two changes by other programs, one save, one crash; *clients*: two clients, two saves, failing loads; *import*: both sides may change both lines, three texts, two changes by other programs, groups run run loops | `TypeOK`, `OpensAreOwed`, `ObservedIsOpen`, `CleanSaved`, `Restored`, `ImportsKeepMine` | a crash costs only what is newer than the timers, if the user waits for saves and groups run no run loop; importing costs none of the user's changes, also when an import waits for a group, or runs inside the reload of another with an older or a newer text; the open count is what the clients owe |
| `doc_busy` | edits while a save is under way | `RestoredAfterCrash` | violated, see Findings |
| `doc_groups` | run loops inside groups | `RestoredAfterCrash` | violated, see Findings |
| `buffer_parts` | a parser on texts of three characters, two edits and their undo; storage with four blocks that have room for one character more, and four edits; trees of up to eight nodes; rows of two texts, with folds and one edit | `ParsedPrefix`, `ReadsAsText`, `RowsShow`, `StepsKeep` | what is parsed is parsed as if the text had been parsed at once, and the parser gets on; pieces read as the text; rows show it |
| `buffer_hooks` | the same parser | `HooksSawScopes` | violated, see Findings |
| `editing` | texts of three characters with two ranges and two commands; one caret with four commands, and with snippets; four characters with two pairs and two kinds of marks | `SelectionSound`, `ReplacesTogether`, `ClipsKeep`, `SnippetsFollow`, `LookupsAgree`, `MarksStick`, `MarksKept` | commands with several carets act as if at once and lose nothing; mirrors, marks and pairs follow; find and brackets agree with their definitions |
| `services` | two clients of a working copy with two changes; two bundles, two launches, three writes and three file system events; tables of cases for the functions | `StatusReaches`, `BundlesCurrent`, `ScopesMatch`, `LinesParse`, `SettingsHold`, `TextsConvert` | the services' caches are current and their algorithms agree with reference definitions |

**Exceptions.** Some properties hold only with an exception, which their
definitions state; what lies in it does go wrong in the code (Findings).
`CleanSaved`, `Restored` and `ImportsKeepMine` do not speak of states after a
mixture was marked as saved (`mixed`). `LockedNeedsConsent` is about the status
that was looked at when the save was authorized: a file that is locked after
that is written without consent. `RowsShow` ends with folds that touch or an edit
that cuts a fold (`torn`). `ClientsTold`, a part of `StatusReaches`, speaks of
the time until the first client leaves, and `ScheduledIsRead` of drivers other
than hg and of the change an update was scheduled for, not of one that came while
it was pending. `BundlesCurrent` leaves out the bundles in `missed` and `stale`
and those that the cache has as missing (`Away`). `SettingsHold` assumes that no
file changes between being read and being watched (`ChangeWhileOpening` is off).
`ClipsKeep` leaves out ranges and carets that touch.

The properties of the last three runs are conjunctions, one conjunct for a part
or an aspect of it: `ParsedPrefix` says of the parser that what is before the
first dirty position has the scopes and states of a parse of the whole text, and
that a dirty line is never left without a request; `ReadsAsText` says of the
storage that text, copy and lines are those of the edits; `ClipsKeep` that
yanking, pasting, cutting, transposing and moving give back what was taken.

**Bounds.** Each is a constant whose name starts with `Max` and a guard of the
actions it stops. A fault of the undo manager needs a group, an undo and an edit
after it, or two neighbours that merge and a third that does not; the run has
these and no property looks further than a neighbouring record. (To keep it
small, `MCUndoManager` uses the second selection only up to the third revision.)
A save has no loop but the choice of another encoding, which the runs leave
unbounded (states repeat), and the filters, of which two give both orders; the
same holds of an open. For the document, two lines are one the user alone changes
and one in conflict; the loaded text and an edit of it, on either side of a save,
a change by another program or a crash, tell the revisions apart; two changes by
other programs let a file go and come back, and give an import two texts to read
in either order while another is inside it. For the bundles three events are
enough for a change, its undoing and one that comes between a launch and its
watch. For the parser, texts of three
characters have two quotes and a newline between, or three lines; an edit before,
in and after the line that is being parsed are all there. For the storage, four
blocks and four edits allow a piece to be split, half of it freed, and the rest
appended to while a copy still reads it. Trees of eight nodes have three levels, so
that a removal rebalances on more than one. What bounds leave out
for the safety invariants with proofs does not matter; for the others it is the
one thing the reader has to judge.

**Deadlock** is checked for the undo manager. A save or an open ends, and the
bounds of the others run out, so their configurations switch it off.

**Fairness.** `FileSave!FairSpec`: the main run loop goes on (`Loop`), a
filter command ends (`Filter`), the background write ends (`WriteToPath`), and a
sheet, which is modal for its window, is answered some day (`Answer`).
`FileOpen!FairSpec` assumes the same, with `HandleRequest` for the read. Nothing is
assumed of other programs. A user who keeps choosing encodings that cannot
represent the text, or do not decode the file, is excepted in the property itself,
and so is an import that aborts the program. The other modules state no
liveness: that the parser gets on is the action property `StepsKeep` together
with "no dirty line without a request", which need no fairness to be stated.

**Mutants.** Each property comes with a change of a mapped definition, of the kind
a slip in that code would be, under which TLC finds it violated
(`PROJECT.json`, "mutants"; the changed definitions stand beside the originals,
marked "Mutant").

### Findings

- `save_written`: `write_to_path` (file/src/save.cc:103-156) reads the status
  anew and does nothing, without an error, if the parent folder or the volume's
  writability went away since the check: the save reports success.
- `save_panel`: the encoding chosen in the save panel goes to the document
  (OakDocument.mm:934) but not to the context that encodes the text.
- `doc_busy`: the completion of a background save marks the buffer's current
  revision as saved and removes the backup (OakDocument.mm:1033-1034), whatever
  was typed since the content was captured.
- `doc_groups`: a backup made inside an undo group is filed under the revision
  the group started from (OakDocument.mm:619, 667), and taken for current after
  the group has been undone.
- `buffer_hooks`: `wait_for_repair` drops the request under way together with the
  begin of its batch (buffer/src/parsing.cc:121); lines that were parsed but not
  announced are never announced.

More is visible in the models and contradicts no statement of the repository; a
property that would fail for it says so where it is defined:

- An import that another runs inside its reload, at the end of the undo group
  (OakDocument.mm:1204-1205), may merge with the user's changes and note that the
  document is edited; the outer one then goes on (1757-1759, 1777) and marks this
  mixture as saved (`GoOn`, `mixed`). The document closes without asking, and a
  crash or another import treats the mixture as the file's text. Without the
  exception TLC finds both `CleanSaved` and `ImportsKeepMine` violated.
- An import whose file cannot be read leaves its nested run loop running
  (`ImportNeverStops`), and a load that fails with several waiting clients leaves
  opens that nobody closes (`leaked`).
- A backup made while the file is missing says "not modified" (OakDocument.mm:652).
  If another program brings the file back with a different text and the user
  undoes the reload within the backup's delay, the backup counts as current by its
  revision (619) and keeps that attribute; after a crash the document is restored
  as not edited. The attempt to prove `RestoredAfterCrash` found this; the property
  now asks for the flag only if the backup was made while there was a file.
- `set_grammar` does not give the text a new revision, so a line that was being
  parsed is taken for one of the new grammar (`GrammarWhileParsing`).
- A change of a working copy while its status is read is not read again until the
  next one (scm.cc:224); the first client of a status that others have left is
  not told it (152, 172).
- The bundles' cache compares whole seconds (fs_cache.cc:366), loses changes
  made before the first launch asks for its event (BundlesManager.mm:388), gives
  a bundle that returned its old file (372), and keeps in the index what a
  recursive reload found gone from a directory that became empty (355-358).
- Moving a selection loses text when two selected ranges touch
  (editor.cc:1281-1291), and transposing with two adjacent carets transposes one character twice
  (1059-1077); `MoveKeepsText` and `TransposeKeeps` leave these out.
- `normalize("/.")` is empty, `resolve_links` leaves a link unresolved that it
  meets twice (path.cc:331), `expand_braces` loses an empty alternative,
  `format_string::escape` does not escape a backslash before a case letter;
  `quote_string` does not quote titles (settings.cc:299-313).

## 4. What is proved

All theorems are of the form "for every behaviour of the specification", for all
values of the constants that satisfy the module's `ConstAssumption`
(`UndoManager`: white space is a subset of the characters, the initial strings
are strings, the empty selection is not a selection; `FileSave`: UTF-8 can
represent the text, the filter sets are finite; `FileOpen`: the named encodings are
encodings, "no encoding" and "unknown" are not, the filter sets are finite;
`Document`: the special values are no texts; `BufferParser`: the initial texts are
texts; `Storage`: there are finitely many
blocks, and the room in one is a natural number; `BufferMarks` and `ScmStatus`:
the value for "none" is not one of the others). TLC evaluates the assumptions in
every run of a module that extends them. None of the bounds `Max...` is assumed
to have any particular value. The two theorems about the parser also take as a
hypothesis that `NoRequest` is not one of the requests (`NoRequestIsNone`).

| Module | Theorem | Says |
|---|---|---|
| `UndoManagerProofs` | `TypeCorrect` | `TypeOK` |
| | `RecordsReplay` | `RecordsReplayHistory` |
| | `LoopsStay` | `LoopsStayInRecords` |
| | `RevisionIdentifies` | `RevisionIdentifiesText` |
| | `Refines` | `KeepsRevisionHistory` |
| `FileSaveProofs` | `TypeCorrect` | `TypeOK`, with at most one write |
| | `OneReport` | `ReportedOnce` |
| | `Consent` | `LockedNeedsConsent` |
| | `WrittenWell` | `WrittenAsReported` |
| | `Refines` | `KeepsContract` |
| `FileOpenProofs` | `TypeCorrect` | `TypeOK` |
| | `OneAnswer` | `AnsweredOnce` |
| | `AskedInTheEnd` | `AskedLast` |
| | `ShownWell` | `ShownAsReported` |
| | `Refines` | `KeepsContract` |
| `DocumentProofs` | `TypeCorrect` | `TypeOK` |
| | `OpensOwed` | `OpensAreOwed` |
| | `ObservedOpen` | `ObservedIsOpen` |
| | `CleanIsOurs`, `CleanIsSavedHere` | `CleanMeansSaved`, `CleanSaved` (both with the exception `mixed`), if `~BusyWhileSaving` |
| | `ImportKeepsTheUsers` | `ImportKeepsMine`, if `~BusyWhileSaving` |
| | `CrashRestores`, `CrashRestoresHere` | `RestoredAfterCrash`, `Restored`, if `~BusyWhileSaving` and `~RunLoopInGroups` |
| `StorageProofs` | `EditsAreRead` | `ReadsAsText` |
| `BufferMapsProofs` | `MarksStay` | `MarksStick` |
| | `NoEditLosesMarks` | `MarksKept` |
| | `TextParsed` | `ParsedPrefix`, if `~GrammarWhileParsing` |
| | `ParserAdvances` | `StepsKeep`, if `~GrammarWhileParsing` |
| `ServicesProofs` | `PendingServed`, `ScheduledRead`, `ClientsKnow` | the three parts of `StatusReaches` |
| | `StatusIsReached` | `StatusReaches` |
| | `BundlesStayCurrent` | `BundlesCurrent` |

**Undo manager.** The text is `hist[index + 1]` and each record
leads from one entry of `hist` to the next, both ways, by the lemmas of
`DataLemmas` on splicing (cutting out what was put in gives back what was there).
That alone gives no revisions; the strengthening says of each record which
revision the text before and after it has, that revisions are only recorded at
the borders of groups, that a record's selection is missing exactly inside a
group, and, for a walk under way, that `rev` names the text reached. Since the
last record of a group always has a selection, a walk ends there, which is
`LoopsStay`. `Refines` maps a state to its text, revision and `content`, with
"busy" for "a group is open or a walk is under way".

**Saving and opening.** `IndInv` ties `holder` and `state` together (who can have
the context in which state), and both to the number of writes and reports; with it
each action is one small step. `ConsentInv` adds that past the authorization
step, a path that was accepted as locked was agreed to. For the open, `Ownership`
does the same for its context and says when there is content; `Tried` says that
before an estimate every earlier guess has failed on the bytes, and before a
fallback every earlier fallback, so whoever is asked is asked in the end.
What the content is, is not inductive by itself: a case of the switch only
appends to it. `Made` is the content that a state must have, put together from
the lists of filters done so far and the encoding, and `Hooked` says that the
content is `Made` whenever somebody will go on, that each filter is in its list
once, and that a list that was left behind is complete. A retry with another
encoding starts from `Made` of an earlier state. `Layers` and its lemmas in
`DataLemmas` say how such a sequence comes apart again.

**Document.** `IndInv` is `TypeOK`, `OpensAreOwed`, `ObservedIsOpen`, and the fact
they need, that while a save is under way or a group is open the document is loaded
(else `TearDown` could happen under a save, and its completion would close once too
often). `CleanInv` makes "not edited means saved" inductive: the texts of the
current and of the saved revision are the buffer's and the file's, the snapshot is
the file's text between saves and unless a reload waits for another import in the
middle, and a save has the buffer for itself from start to return. `NestInv` is
about the stack of imports: one that goes on when the import inside it ends would
mark the buffer's text as saved, so that text must be the file's, unless a merge
made it, and then the saved revision is known to be none, or will be when a run loop
further in ends. That last case is where `mixed` is set. `CrashInv` says what a
crash finds: if neither timer runs and the document is edited, there is a backup, of
this revision, with this text, and the saved session says "edited"; and after the
crash, that what is expected is in the backup until it is loaded, and in the buffer
then. The hypotheses are the two cases that `doc_busy` and `doc_groups` show to be
violations in the program; without them the properties are false. `...Here` is the
same for the instance that the run checks.

**Storage.** `IndInv` says that each piece lies within its block,
and that the pieces' bytes, put one after the other, are the text, and the
copy's the copied text. It is not enough that each piece reads right: an
insertion overwrites free bytes of a block, and the proof has to show that no
piece, of the text or of a copy, reads beyond the block's end. The bytes are
joined by a fold, of which the lemmas say what it gives for a sequence that is
cut, joined or changed in one place.

**Marks and pairs.** `PairsIn` says that pairs are whole, in order, and nested
(the pair that an edit cuts into is removed whole, and the nesting is what keeps
`Counterpart` a function when pairs are typed within others); `TypedAt` that they
stand at the characters they were added for; `MarksIn` that a mark is at the
character it was set behind or that this character is gone. Of the indexed map
the lemmas say where a key goes and that two keys only meet if both were at the
replaced text.

**Parser.** `ParsedPrefix` speaks of what is before the first dirty position only,
and an edit or an undo moves that position back and forth over lines whose scopes
and states were computed for an earlier text. `ParserIInv` says three things.
First (`BufferRead`) that *every* line whose begin has a state, and in which no
position is dirty, has the scopes of its own parse from that state and passes the
state it ends with on to the next line, wherever the line is; following such
lines from the beginning of the text gives the parse of the whole text. Secondly,
that a revision names a text: `HistoryRight` has the texts that the undo records
lead back through, and their revisions increase. Thirdly, what the block of the
background parse may rely on when it finds the revision it started with:
`RequestRight` says that whenever the text gets back to that revision (perhaps
after edits and as many undos) the scopes are those of a parse of the line in
that text; and that, if the begin of the line has been traced through the edits
(`Traced`, by the same moves as the keys of the maps) and still has a state, it is
the state the parse began with. A begin that an edit removed is traced to no
position at all, so the state of a line is not confused with that of one put in
its place. The hypothesis `~GrammarWhileParsing` is
needed: `set_grammar` gives no new revision, and with it `ParsedPrefix` is false
(section 3, More is visible).

**Status of a working copy.** `Shape` says that at most one answer is in the run
loop's blocks, the status before the end of its update; `Owners` that the pending
flag is set exactly while the queue or a block will end the update, and that
nothing is under way for a status nobody has; `Newest` that a status as new as
the last scheduled change is there or under way; `Told` what each client knows.

**Index of the bundles.** That the index is current once all events are delivered
says nothing of the states before. `Right` does: what the cache has of a bundle is
what the disk has (`Fresh`), or an event after the one the cache is current for
(`Since`) names its directory, or it is among those just installed; the same for the
list of bundles; and no file is left in the cache for a bundle that exists
(`LeftGone`). All this is said of each bundle that was not `missed`: what is wrong
about one bundle never makes an entry of another wrong. `BundleInd` has this of the
cache, with the event delivered last, and of the saved copy, with its own; that the
cache has all the index needs, and for each bundle that is not `stale` the index
what the cache shows of it, unless one is to be made. `LeftGone` is what the
invariant needs of `reload`, and what a bundle that returns breaks: that is why
`Missed` looks at the cache and at the saved copy.

Numbers and sequences are argued about by the least counterexample (`HasMin`,
`HasMax` in `DataLemmas`), since the induction theorems of the library cannot be
instantiated here.

**Only model-checked.** `EventuallyReported` and `EventuallyAnswered` are
liveness, out of the prover's reach. `ImportsKeepMine` is about an instance of
`Document` with other constants than the module's own; `ImportKeepsTheUsers` is the
theorem for the module. `RowsShow`, `LookupsAgree`,
`ScopesMatch`, `LinesParse`, `SettingsHold` and `TextsConvert` are about modules
whose code is recursive (trees, automata, parsers): they use
RECURSIVE operators, about which nothing can be proved here. `SelectionSound`,
`ReplacesTogether`, `ClipsKeep` and `SnippetsFollow` have no proof yet (section 6).

## 5. What is not modelled

- *Document*: documents without a path and changes of the path;
  `performReplacements` and `setContent`; attributes; a backup that cannot be
  written, `keepBackupFile=NO`; a merge when diff3 cannot run; edits that commands
  make while the application is inactive; a session that was switched off.
- *Saves and opens*: the bytes. Of opens: a change of the file's attributes or the
  path's settings between two guesses, and the attributes that go with the text.
- *Buffer*: what symbols and spelling make of the scopes; grammars other than one
  with two states (`GrammarParse` has those, without a buffer).
- *Editor*: subword movements, movements by column and page, selecting a scope,
  soft tabs and soft wrap, regular expressions, changing case, reformatting,
  indenting, completion, the output of commands. Snippets have one caret, and no
  indent, choices or variables.
- *Layout*: wrapping, metrics, drawing. *Search*: regular expressions, backwards,
  folders. *Grammars*: regular expressions, names with back references.
- *Settings*: global variables, more than one variable in an expansion.
  *Format strings*: captures but the whole match, conversions to ASCII, of times
  and numbers.
- *Status*: the drivers, and SCMManager.mm. *Bundles*: two writes of a file in
  one second, queries over items, the editor of bundles.
- *Whole components*: replacing a file (system calls in a row), the document
  registry, commands, the observers of files, rmate, privileged writes, windows and
  tabs, downloads, the file browser, the views, the command line tools (small or
  user interface), the vendored libraries. About a fifth of the program's own
  lines are mapped; most of the others draw, lay out, or call the system.

## 6. Plan

1. `Editor`: that the replacements of a command are disjoint and in order
   (`ReplacesTogether`), from `Sanitize`'s promise that ranges do not overlap.
2. Untitled documents and Save As in `Document`; the refinement that ties
   `Document`'s saves to `SaveContract`.
3. `DocumentRegistry`, `CommandRunner`, `AtomicWrite`, `KEvents`.
