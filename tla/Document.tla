------------------------------- MODULE Document -------------------------------
(***************************************************************************)
(* One OakDocument with a path: its buffer, the file, the backup file, and *)
(* everything that happens to them between loading and closing: edits,     *)
(* background saves, changes by other programs and their import, backups,  *)
(* and a crash followed by session restore.                                *)
(*                                                                         *)
(*  - A text is the set of its lines; diff3 merges three such sets.        *)
(*  - The buffer and its undo manager are what RevisionHistory promises:   *)
(*    texts[r] is the text revision r names.                               *)
(*  - file::save is what SaveContract promises, file::open delivers the    *)
(*    file's text (an absent file is an empty one) or an error.            *)
(*  - The user's actions are events of the top-level run loop.  Importing  *)
(*    changes spins a nested loop which serves timers, file system events  *)
(*    and completions, but no user events; so may a command that runs      *)
(*    inside an undo group (RunLoopInGroups).                              *)
(*  - An import's reload ends its undo group, and that end may run another *)
(*    import in a run loop of its own, before the first has noted that its *)
(*    text is saved: imports is the stack of these run loops.              *)
(*                                                                         *)
(* `ours' is the text the document last took over from the file, or wrote  *)
(* to it.                                                                  *)
(***************************************************************************)
EXTENDS Integers, Sequences, SequencesExt

CONSTANTS
  Lines, Mine, Theirs,  \* all lines, those the user and those other programs change
  NoText, Unread, Failed, NoBackup,
  MaxRevision,          \* bound: revisions made by the user
  MaxHolders,           \* bound: opens by clients that are not closed
  MaxSaves,             \* bound: saves
  MaxExternal,          \* bound: changes by other programs
  MaxCrashes,           \* bound: crashes
  BusyWhileSaving,      \* the user edits, saves or returns to TextMate while a save is under way
  RunLoopInGroups       \* a run loop runs while an undo group is open

ASSUME ConstAssumption ==
  /\ Mine \subseteq Lines /\ Theirs \subseteq Lines
  /\ \A t \in SUBSET Lines : t \notin {NoText, Unread, Failed}
  /\ NoText \notin {Unread, Failed} /\ Unread # Failed
  /\ NoBackup \notin [text : SUBSET Lines, modified : BOOLEAN, missing : BOOLEAN]
  /\ BusyWhileSaving \in BOOLEAN /\ RunLoopInGroups \in BOOLEAN

VARIABLES
  disk, ours,               \* the file's text, NoText if there is no file
  buf, texts, group,        \* _buffer, its revisions, an undo group is open
  revision, savedRevision, snapshot, onDisk,
  loaded, openCount,
  holders,                  \* clients that opened it and will close it
  waiting, reading,         \* _loadCompletionHandlers, and what file::open has read
  saves,                    \* calls of file::save that have not reported
  backup, backupRevision, timer,
  session, sessionTimer,    \* the saved session names the document as edited; it is to be saved
  needsImport, deferred,    \* and an observer waits for the application to become active
  imports,                  \* importDocumentChanges in progress, the innermost run loop last
  active, observing, event, \* NSApp.isActive, _observeFileSystem, what KEventManager will report
  saveCount, external, crashes, \* how often it happened
  expected,                 \* history: the unsaved text at the crash, and whether
                            \* its backup was made while there was a file
  leaked,                   \* history: opens that nobody will close
  mixed                     \* history: what an import inside another's reload merged was
                            \* marked as saved

fileVars   == <<disk, ours>>
bufVars    == <<buf, texts, group, revision>>
savedVars  == <<savedRevision, snapshot, onDisk, mixed>>
openVars   == <<openCount, holders, leaked>>
loadVars   == <<loaded, waiting, reading>>
backupVars == <<backup, backupRevision, timer>>
sessionVars == <<session, sessionTimer>>
importVars == <<needsImport, deferred, imports>>
watchVars  == <<observing, event>>
countVars  == <<saveCount, external, crashes>>
vars == <<fileVars, bufVars, savedVars, openVars, loadVars, saves, backupVars, sessionVars,
          importVars, watchVars, active, countVars, expected>>

Text == SUBSET Lines
IsText(t) == t \notin {NoText, Unread, Failed}

\* isDocumentEdited
Edited == revision # savedRevision /\ (onDisk \/ ~(loaded /\ buf = {}))

\* The user's events are served, and those of any run loop.
UserEvents    == imports = <<>> /\ ~group
RunLoopEvents == group => RunLoopInGroups

\* What file::open makes of the file.
Content == IF disk = NoText THEN {} ELSE disk

-----------------------------------------------------------------------------
Init ==
  /\ disk \in {NoText} \cup Text /\ ours = NoText
  /\ buf = NoText /\ texts = <<>> /\ group = FALSE /\ revision = 0
  /\ savedRevision = 0 /\ snapshot = NoText /\ onDisk = (disk # NoText)
  /\ openCount = 0 /\ holders = 0 /\ leaked = 0
  /\ loaded = FALSE /\ waiting = 0 /\ reading = NoText
  /\ saves = <<>>
  /\ backup = NoBackup /\ backupRevision = 0 /\ timer = FALSE
  /\ session = FALSE /\ sessionTimer = FALSE
  /\ needsImport = FALSE /\ deferred = FALSE /\ imports = <<>> /\ mixed = FALSE
  /\ observing = FALSE /\ event = "none" /\ active = TRUE
  /\ saveCount = 0 /\ external = 0 /\ crashes = 0 /\ expected = NoText

\* didLoadContent: a new buffer with the content as its first revision.
DidLoad(t, saved, snap) ==
  /\ buf' = t /\ texts' = <<t>> /\ group' = FALSE /\ revision' = 1
  /\ savedRevision' = saved /\ snapshot' = snap /\ onDisk' = (disk # NoText) /\ mixed' = FALSE
  /\ loaded' = TRUE
  /\ backupRevision' = 1 /\ timer' = TRUE /\ sessionTimer' = TRUE

\* tryLoadBackup
LoadBackup ==
  /\ IF Edited
       THEN DidLoad(backup.text, 0, NoText) /\ ours' = NoText
       ELSE DidLoad(backup.text, 1, backup.text) /\ ours' = backup.text
  /\ UNCHANGED <<disk, backup, session, waiting, reading>>

\* Mutants: the buffer is deleted but counts as loaded; the file is still observed.
TearDownStillLoaded(saved) ==
  /\ buf' = NoText /\ texts' = <<>> /\ group' = FALSE /\ revision' = saved
  /\ savedRevision' = saved /\ snapshot' = NoText /\ mixed' = FALSE
  /\ UNCHANGED <<loaded, backupRevision>>
  /\ backup' = NoBackup /\ timer' = FALSE /\ sessionTimer' = TRUE
  /\ observing' = FALSE /\ event' = "none" /\ expected' = NoText
TearDownObserving(saved) ==
  /\ buf' = NoText /\ texts' = <<>> /\ group' = FALSE /\ revision' = saved
  /\ savedRevision' = saved /\ snapshot' = NoText /\ mixed' = FALSE
  /\ loaded' = FALSE /\ UNCHANGED <<backupRevision, observing, event>>
  /\ backup' = NoBackup /\ timer' = FALSE /\ sessionTimer' = TRUE /\ expected' = NoText

\* close, when it is the last: the backup goes too.
TearDown(saved) ==
  /\ buf' = NoText /\ texts' = <<>> /\ group' = FALSE /\ revision' = saved
  /\ savedRevision' = saved /\ snapshot' = NoText /\ mixed' = FALSE
  /\ loaded' = FALSE
  /\ backup' = NoBackup /\ timer' = FALSE /\ sessionTimer' = TRUE /\ UNCHANGED backupRevision
  /\ observing' = FALSE /\ event' = "none"
  /\ expected' = NoText

MayOpen == holders + waiting + leaked < MaxHolders

\* A client opens the document without loading it: a tab.
Open ==
  /\ UserEvents /\ MayOpen
  /\ openCount' = openCount + 1 /\ holders' = holders + 1
  /\ UNCHANGED <<leaked, fileVars, bufVars, savedVars, loadVars, saves, backupVars, sessionVars, importVars,
                 watchVars, active, countVars, expected>>

\* Mutant: only the load itself opens the document.
LoadAgainUncounted ==
  /\ UserEvents /\ MayOpen
  /\ \/ loaded /\ holders' = holders + 1 /\ UNCHANGED waiting
     \/ ~loaded /\ waiting > 0 /\ waiting' = waiting + 1 /\ UNCHANGED holders
  /\ UNCHANGED <<openCount, leaked, loaded, reading, fileVars, bufVars, savedVars, saves, backupVars,
                 sessionVars, importVars, watchVars, active, countVars, expected>>

\* loadModalForWindow of a document that is loaded, or being loaded.
LoadAgain ==
  /\ UserEvents /\ MayOpen
  /\ openCount' = openCount + 1
  /\ \/ loaded /\ holders' = holders + 1 /\ UNCHANGED waiting
     \/ ~loaded /\ waiting > 0 /\ waiting' = waiting + 1 /\ UNCHANGED holders
  /\ UNCHANGED <<leaked, loaded, reading, fileVars, bufVars, savedVars, saves, backupVars, sessionVars, importVars,
                 watchVars, active, countVars, expected>>

LoadFromBackup ==
  /\ UserEvents /\ MayOpen
  /\ ~loaded /\ waiting = 0 /\ backup # NoBackup
  /\ LoadBackup
  /\ openCount' = openCount + 1 /\ holders' = holders + 1
  /\ observing' = TRUE /\ event' = "none"
  /\ UNCHANGED <<leaked, saves, importVars, active, countVars, expected>>

LoadFromFile ==
  /\ UserEvents /\ MayOpen
  /\ ~loaded /\ waiting = 0 /\ backup = NoBackup
  /\ openCount' = openCount + 1
  /\ waiting' = 1 /\ reading' = Unread
  /\ UNCHANGED <<holders, leaked, loaded, fileVars, bufVars, savedVars, saves, backupVars, sessionVars, importVars,
                 watchVars, active, countVars, expected>>

LoadReads ==
  /\ reading = Unread
  /\ reading' \in {Content, Failed}
  /\ UNCHANGED <<loaded, waiting, fileVars, bufVars, savedVars, openVars, saves, backupVars, sessionVars, importVars,
                 watchVars, active, countVars, expected>>

\* show_content: everybody who waits has the document.
LoadReturns ==
  /\ IsText(reading)
  /\ DidLoad(reading, 1, reading)
  /\ ours' = reading
  /\ holders' = holders + waiting /\ waiting' = 0 /\ reading' = NoText
  /\ observing' = TRUE /\ event' = "none"
  /\ UNCHANGED <<disk, openCount, leaked, backup, session, saves, importVars, active, countVars, expected>>

\* show_error: one close, however many wait.
LoadFails ==
  /\ reading = Failed
  /\ waiting' = 0 /\ reading' = NoText
  /\ leaked' = leaked + waiting - 1
  /\ openCount' = openCount - 1
  /\ IF openCount = 1
       THEN TearDown(savedRevision)
       ELSE UNCHANGED <<bufVars, savedRevision, snapshot, mixed, loaded, backupVars, sessionTimer, watchVars,
                         expected>>
  /\ UNCHANGED <<holders, onDisk, session, fileVars, saves, importVars, active, countVars>>

Close ==
  /\ UserEvents /\ holders > 0
  /\ holders' = holders - 1 /\ openCount' = openCount - 1
  /\ IF openCount = 1
       THEN TearDown(savedRevision)
       ELSE UNCHANGED <<bufVars, savedRevision, snapshot, mixed, loaded, backupVars, sessionTimer, watchVars,
                         expected>>
  /\ UNCHANGED <<leaked, onDisk, session, waiting, reading, fileVars, saves, importVars, active, countVars>>

-----------------------------------------------------------------------------
\* importDocumentChanges, which waits in a nested run loop for the text.  If it
\* ran inside the endUndoGrouping of another, that one goes on when it is done.
NewImport(outer, then) == [read |-> Unread, state |-> "waiting", outer |-> outer, then |-> then]

StartImport ==
  /\ needsImport' = FALSE
  /\ imports' = Append(imports, NewImport(0, "nothing"))

\* The end of endUndoGrouping.
ImportIfNeeded == IF needsImport THEN StartImport ELSE UNCHANGED <<needsImport, imports>>

\* How soon a save finishes.
MayAct == saves = <<>> \/ BusyWhileSaving

\* An edit opens a group, or goes on in the one that is open.
Edit(l) ==
  /\ imports = <<>> /\ active /\ loaded /\ MayAct
  /\ Len(texts) < MaxRevision
  /\ group' = TRUE
  /\ buf' = IF l \in buf THEN buf \ {l} ELSE buf \cup {l}
  /\ timer' = TRUE
  /\ expected' = NoText
  /\ UNCHANGED <<texts, revision, fileVars, savedVars, openVars, loadVars, saves, backup, backupRevision,
                 sessionVars, importVars, watchVars, active, countVars>>

EndGroup ==
  /\ imports = <<>> /\ group
  /\ group' = FALSE
  /\ texts' = Append(texts, buf) /\ revision' = Len(texts') /\ sessionTimer' = TRUE
  /\ ImportIfNeeded
  /\ UNCHANGED <<buf, session, fileVars, savedVars, openVars, loadVars, saves, backupVars, deferred,
                 watchVars, active, countVars, expected>>

\* Undo or redo leads to a text the buffer had, and to its revision.
Undo(r) ==
  /\ UserEvents /\ active /\ loaded /\ MayAct
  /\ r \in DOMAIN texts \ {revision}
  /\ buf' = texts[r] /\ revision' = r
  /\ timer' = TRUE /\ sessionTimer' = TRUE
  /\ ImportIfNeeded
  /\ expected' = NoText
  /\ UNCHANGED <<texts, group, session, fileVars, savedVars, openVars, loadVars, saves, backup, backupRevision,
                 deferred, watchVars, active, countVars>>

-----------------------------------------------------------------------------
\* saveModalForWindow: the file is not observed while it is saved.
SaveStart ==
  /\ UserEvents /\ MayAct /\ loaded /\ saveCount < MaxSaves
  /\ saveCount' = saveCount + 1
  /\ saves' = Append(saves, [text |-> buf, state |-> "writing"])
  /\ openCount' = openCount + 1
  /\ observing' = FALSE /\ event' = "none"
  /\ UNCHANGED <<holders, leaked, fileVars, bufVars, savedVars, loadVars, backupVars, sessionVars, importVars, active,
                 external, crashes, expected>>

\* The same for a document that was restored and is not loaded yet.
SaveRestored ==
  /\ UserEvents /\ ~loaded /\ Edited /\ backup # NoBackup /\ saveCount < MaxSaves
  /\ LoadBackup
  /\ saveCount' = saveCount + 1
  /\ saves' = Append(saves, [text |-> backup.text, state |-> "writing"])
  /\ openCount' = openCount + 1
  /\ observing' = FALSE /\ event' = "none"
  /\ UNCHANGED <<holders, leaked, importVars, active, external, crashes, expected>>

\* file::save writes on a background thread.
SaveWrites(i) ==
  /\ saves[i].state = "writing"
  /\ \/ /\ saves' = [saves EXCEPT ![i].state = "ok"]
        /\ disk' = saves[i].text /\ ours' = saves[i].text
        /\ event' = IF observing THEN "write" ELSE event
     \/ /\ saves' = [saves EXCEPT ![i].state = "failed"]
        /\ UNCHANGED <<disk, ours, event>>
  /\ UNCHANGED <<observing, bufVars, savedVars, openVars, loadVars, backupVars, sessionVars, importVars, active,
                 countVars, expected>>

\* Mutant: the revision is not marked as saved.
SaveSucceedsUnmarked ==
  /\ onDisk' = TRUE /\ snapshot' = buf /\ mixed' = FALSE
  /\ UNCHANGED savedRevision
  /\ backup' = NoBackup /\ timer' = FALSE /\ sessionTimer' = TRUE /\ expected' = NoText

\* did_save of a save that succeeded: what is in the buffer now is saved.
SaveSucceeds ==
  /\ onDisk' = TRUE /\ savedRevision' = revision /\ snapshot' = buf /\ mixed' = FALSE
  /\ backup' = NoBackup /\ timer' = FALSE /\ sessionTimer' = TRUE /\ expected' = NoText

\* The completion of a save, with the close that pairs its open.
SaveReturns(i) ==
  /\ RunLoopEvents
  /\ saves[i].state \in {"ok", "failed"}
  /\ saves' = RemoveAt(saves, i)
  /\ openCount' = openCount - 1
  /\ IF openCount = 1
       THEN /\ TearDown(IF saves[i].state = "ok" THEN revision ELSE savedRevision)
            /\ onDisk' = (onDisk \/ saves[i].state = "ok")
       ELSE /\ IF saves[i].state = "ok"
                 THEN SaveSucceeds
                 ELSE UNCHANGED <<savedVars, backup, timer, sessionTimer, expected>>
            /\ observing' = TRUE
            /\ UNCHANGED <<bufVars, loaded, backupRevision, event>>
  /\ UNCHANGED <<holders, leaked, session, waiting, reading, fileVars, importVars, active, countVars>>

-----------------------------------------------------------------------------
\* Another program writes or deletes the file.
ExternalChange(t) ==
  /\ external < MaxExternal
  /\ t # disk
  /\ disk' = t
  /\ external' = external + 1
  /\ event' = IF ~observing THEN event ELSE IF t = NoText THEN "delete" ELSE "write"
  /\ UNCHANGED <<ours, observing, bufVars, savedVars, openVars, loadVars, saves, backupVars, sessionVars, importVars,
                 active, saveCount, crashes, expected>>

\* setNeedsImportDocumentChanges:YES.  Bound: no second observer while one waits.
NeedsImport ==
  IF needsImport THEN UNCHANGED <<needsImport, deferred, imports>>
  ELSE IF group THEN needsImport' = TRUE /\ UNCHANGED <<deferred, imports>>
  ELSE IF active THEN StartImport /\ UNCHANGED deferred
  ELSE ~deferred /\ needsImport' = TRUE /\ deferred' = TRUE /\ UNCHANGED imports

\* fileSystemDidChangeToPath
FileSystemDidChange ==
  /\ RunLoopEvents
  /\ observing /\ event # "none"
  /\ event' = "none"
  /\ onDisk' = (disk # NoText) /\ sessionTimer' = TRUE
  /\ IF event = "write" THEN NeedsImport ELSE UNCHANGED <<needsImport, deferred, imports>>
  /\ UNCHANGED <<observing, fileVars, bufVars, savedRevision, snapshot, mixed, openVars, loadVars, saves,
                 backupVars, session, active, countVars, expected>>

Deactivate ==
  /\ active /\ RunLoopEvents
  /\ active' = FALSE
  /\ UNCHANGED <<fileVars, bufVars, savedVars, openVars, loadVars, saves, backupVars, sessionVars, importVars,
                 watchVars, countVars, expected>>

\* The deferred import happens whatever is going on.
Activate ==
  /\ ~active /\ RunLoopEvents /\ MayAct
  /\ active' = TRUE
  /\ deferred' = FALSE
  /\ IF deferred /\ loaded THEN StartImport ELSE UNCHANGED <<needsImport, imports>>
  /\ UNCHANGED <<fileVars, bufVars, savedVars, openVars, loadVars, saves, backupVars, sessionVars, watchVars,
                 countVars, expected>>

\* Several reads run at once, and their answers come in any order.
ImportReads(i) ==
  /\ imports[i].state = "waiting" /\ imports[i].read = Unread
  /\ \E t \in {Content, Failed} : imports' = [imports EXCEPT ![i].read = t]
  /\ UNCHANGED <<needsImport, deferred, fileVars, bufVars, savedVars, openVars, loadVars, saves,
                 backupVars, sessionVars, watchVars, active, countVars, expected>>

\* Import i has dealt with what it read.
Leaves(i, state) == [imports[i] EXCEPT !.read = Unread, !.state = state]

\* An error is printed, a document that was closed is left alone: in both
\* cases nobody stops the nested run loop.
ImportNeverStops(i) ==
  /\ imports[i].state = "waiting"
  /\ imports[i].read = Failed \/ (IsText(imports[i].read) /\ ~loaded)
  /\ imports' = [imports EXCEPT ![i] = Leaves(i, "stuck")]
  /\ UNCHANGED <<needsImport, deferred, fileVars, bufVars, savedVars, openVars, loadVars, saves,
                 backupVars, sessionVars, watchVars, active, countVars, expected>>

\* Mutant: a merge without the common original.
MergeTwoWay(original, mine, yours) == mine \cup yours

\* diff3 over sets of lines.
Merge(original, mine, yours) ==
  (mine \cap yours) \cup (mine \ original) \cup (yours \ original)

\* The buffer's text is replaced, in a group of its own unless one is open.
ReloadWith(t) ==
  /\ buf' = t
  /\ timer' = TRUE
  /\ texts' = IF group THEN texts ELSE Append(texts, t)
  /\ revision' = IF group THEN revision ELSE Len(texts')
  /\ UNCHANGED group

\* Import i has its text: its run loop is told to stop.
Stop(i) ==
  /\ imports' = [imports EXCEPT ![i] = Leaves(i, "stopped")]
  /\ UNCHANGED needsImport

\* The endUndoGrouping of import i runs another to its end before i goes on.
RunAnother(i, then) ==
  /\ imports' = Append([imports EXCEPT ![i] = Leaves(i, "suspended")], NewImport(i, then))
  /\ needsImport' = FALSE
  /\ UNCHANGED <<savedRevision, mixed>>

\* markDocumentSaved
MarkSaved == savedRevision' = revision' /\ snapshot' = buf' /\ mixed' = FALSE

\* show_content, up to the end of its undo group.
ImportReturns(i) ==
  /\ imports[i].state = "waiting" /\ IsText(imports[i].read) /\ loaded
  /\ LET yours   == imports[i].read
         merged  == Merge(snapshot, buf, yours)
         another == needsImport /\ ~group IN
       \/ /\ yours = buf /\ ours' = yours
          /\ UNCHANGED <<bufVars, timer>> /\ MarkSaved /\ Stop(i)
       \/ /\ yours # buf /\ ~Edited
          /\ ReloadWith(yours) /\ ours' = yours
          /\ IF another THEN RunAnother(i, "marks") /\ UNCHANGED snapshot ELSE MarkSaved /\ Stop(i)
       \/ /\ yours # buf /\ Edited /\ snapshot # NoText
          /\ ReloadWith(merged) /\ snapshot' = yours /\ ours' = yours
          /\ IF another
               THEN RunAnother(i, IF merged = yours THEN "equals" ELSE "differs")
               ELSE savedRevision' = (IF merged = yours THEN revision' ELSE -1) /\ mixed' = FALSE /\ Stop(i)
       \/ /\ yours # buf /\ Edited /\ snapshot = NoText
          /\ UNCHANGED <<bufVars, timer, savedRevision, snapshot, mixed, ours>> /\ Stop(i)
  /\ sessionTimer' = TRUE
  /\ expected' = NoText
  /\ UNCHANGED <<disk, onDisk, session, openVars, loadVars, saves, backup, backupRevision, deferred,
                 watchVars, active, countVars>>

\* What show_content does after its undo group, for the import in whose group
\* this one ran: marks as saved whatever the buffer has by now, or notes the
\* outcome of its own merge.  (Without a buffer markDocumentSaved ends the process.)
GoOn(import) ==
  /\ import.then = "marks" => loaded
  /\ savedRevision' = IF import.then = "differs" THEN -1 ELSE revision
  /\ snapshot' = IF import.then = "marks" THEN buf ELSE snapshot
  /\ mixed' = (mixed \/ (import.then # "differs" /\ savedRevision = -1))
  /\ sessionTimer' = TRUE /\ expected' = NoText

\* The innermost run loop ends.
ImportStops ==
  /\ imports # <<>> /\ Last(imports).state = "stopped"
  /\ LET import == Last(imports) IN
       \/ /\ import.then = "nothing"
          /\ imports' = Front(imports)
          /\ UNCHANGED <<savedRevision, snapshot, mixed, sessionTimer, expected>>
       \/ /\ import.then # "nothing"
          /\ imports' = [Front(imports) EXCEPT ![import.outer].state = "stopped"]
          /\ GoOn(import)
  /\ UNCHANGED <<needsImport, deferred, onDisk, session, fileVars, bufVars, openVars, loadVars, saves,
                 backupVars, watchVars, active, countVars>>

-----------------------------------------------------------------------------
\* What saveBackup keeps a backup for.
NeedsBackup == loaded /\ IF onDisk THEN savedRevision # revision ELSE buf # {}

\* Mutant: the revision is compared even if there is no backup.
BackupIsCurrentAnyway == backupRevision = revision
BackupIsCurrent == backup # NoBackup /\ backupRevision = revision

\* saveBackup.  `missing' is history: the document knew of no file.
SaveBackup ==
  IF NeedsBackup
    THEN IF BackupIsCurrent
           THEN UNCHANGED <<backup, backupRevision>>
           ELSE /\ backup' = [text |-> buf, modified |-> Edited, missing |-> ~onDisk]
                /\ backupRevision' = revision
    ELSE backup' = NoBackup /\ UNCHANGED backupRevision

BackupTimerDidFire ==
  /\ RunLoopEvents /\ timer
  /\ timer' = FALSE
  /\ SaveBackup
  /\ UNCHANGED <<sessionVars, fileVars, bufVars, savedVars, openVars, loadVars, saves, importVars, watchVars,
                 active, countVars, expected>>

\* saveSessionIncludingUntitledDocuments, soon after any change to what
\* isDocumentEdited depends on, and when windows change.
SaveSession ==
  /\ RunLoopEvents
  /\ sessionTimer' = FALSE /\ session' = Edited
  /\ IF loaded /\ Edited
       THEN SaveBackup /\ timer' = (timer /\ NeedsBackup)
       ELSE UNCHANGED backupVars
  /\ UNCHANGED <<fileVars, bufVars, savedVars, openVars, loadVars, saves, importVars, watchVars, active,
                 countVars, expected>>

\* The process dies.  The restored session finds the backup of a document that
\* it names as edited and else makes a new one for the path.  It should bring
\* back the text that is not in the file, unless that is so new that one of the
\* two timers is still running.
Crash ==
  LET kept == IF session THEN backup ELSE NoBackup IN
  /\ crashes < MaxCrashes
  /\ crashes' = crashes + 1
  /\ expected' = IF /\ loaded /\ ~group /\ ~timer /\ ~sessionTimer
                    /\ buf # ours /\ ~mixed /\ (onDisk \/ buf # {})
                   THEN [text |-> buf, known |-> backup # NoBackup /\ ~backup.missing]
                   ELSE NoText
  /\ ours' = NoText
  /\ buf' = NoText /\ texts' = <<>> /\ group' = FALSE /\ revision' = 0
  /\ savedRevision' = (IF kept # NoBackup /\ kept.modified THEN -1 ELSE 0)
  /\ snapshot' = NoText /\ onDisk' = (disk # NoText) /\ mixed' = FALSE
  /\ openCount' = 0 /\ holders' = 0 /\ leaked' = 0
  /\ loaded' = FALSE /\ waiting' = 0 /\ reading' = NoText
  /\ saves' = <<>>
  /\ backup' = kept /\ backupRevision' = 0 /\ timer' = FALSE
  /\ sessionTimer' = FALSE
  /\ needsImport' = FALSE /\ deferred' = FALSE /\ imports' = <<>>
  /\ observing' = FALSE /\ event' = "none" /\ active' = TRUE
  /\ UNCHANGED <<disk, session, saveCount, external>>

Next ==
  \/ Open \/ LoadAgain \/ LoadFromBackup \/ LoadFromFile \/ LoadReads \/ LoadReturns \/ LoadFails \/ Close
  \/ \E l \in Mine : Edit(l)
  \/ EndGroup
  \/ \E r \in DOMAIN texts : Undo(r)
  \/ SaveStart \/ SaveRestored
  \/ \E i \in DOMAIN saves : SaveWrites(i) \/ SaveReturns(i)
  \/ \E ts \in SUBSET Theirs : ExternalChange((Content \ Theirs) \cup ts)
  \/ ExternalChange(NoText)
  \/ FileSystemDidChange \/ Activate \/ Deactivate
  \/ \E i \in DOMAIN imports : ImportReads(i) \/ ImportNeverStops(i) \/ ImportReturns(i)
  \/ ImportStops
  \/ BackupTimerDidFire \/ SaveSession
  \/ Crash

Spec == Init /\ [][Next]_vars

-----------------------------------------------------------------------------
SomeText == {NoText} \cup Text
Reads    == {Unread, Failed} \cup Text
Imports  == [read : Reads, state : {"waiting", "suspended", "stopped", "stuck"}, outer : Nat,
             then : {"nothing", "marks", "equals", "differs"}]
Saves    == [text : Text, state : {"writing", "ok", "failed"}]
Backups  == [text : Text, modified : BOOLEAN, missing : BOOLEAN]
Expected == [text : Text, known : BOOLEAN]

TextTypes ==
  /\ disk \in SomeText /\ ours \in SomeText /\ snapshot \in SomeText
  /\ expected \in {NoText} \cup Expected
  /\ buf \in SomeText /\ loaded = (buf # NoText)
  /\ backup \in {NoBackup} \cup Backups
  /\ reading \in {NoText} \cup Reads /\ (reading = NoText <=> waiting = 0)
SeqTypes ==
  /\ texts \in Seq(Text) /\ (loaded <=> texts # <<>>)
  /\ saves \in Seq(Saves)
  /\ imports \in Seq(Imports)
NumberTypes ==
  /\ openCount \in Nat /\ holders \in Nat /\ waiting \in Nat /\ leaked \in Nat
  /\ revision \in Int /\ savedRevision \in Int /\ backupRevision \in Int
  /\ saveCount \in Nat /\ external \in Nat /\ crashes \in Nat
FlagTypes ==
  /\ group \in BOOLEAN /\ onDisk \in BOOLEAN /\ loaded \in BOOLEAN /\ timer \in BOOLEAN
  /\ session \in BOOLEAN /\ sessionTimer \in BOOLEAN /\ needsImport \in BOOLEAN /\ deferred \in BOOLEAN
  /\ mixed \in BOOLEAN /\ active \in BOOLEAN /\ observing \in BOOLEAN
  /\ event \in {"none", "write", "delete"}

\* The type invariant.  In particular a document is loaded exactly if it has a
\* buffer, and somebody waits for a load exactly while file::open is at it.
TypeOK == TextTypes /\ SeqTypes /\ NumberTypes /\ FlagTypes

\* Opens and closes are balanced: the document stays loaded while a client
\* has it, a save is under way or a load is, and goes when all are done; but
\* for each load that fails with several waiting all but one open remain.
OpensAreOwed == openCount = holders + waiting + Len(saves) + leaked

\* The assertion in fileSystemDidChangeToPath, and the undo manager that
\* setNeedsImportDocumentChanges uses: file system events only reach a
\* document that is loaded and open.
ObservedIsOpen == observing => loaded /\ openCount # 0

\* A document that does not count as edited has the text that it last took
\* over from its file or wrote to it.  Not so (`mixed') when an import ran
\* inside the reload of another one and merged the user's changes with the
\* file's: the outer one then marks their mixture as saved.
CleanMeansSaved ==
  loaded /\ onDisk /\ ~group /\ saves = <<>> /\ ~Edited /\ ~mixed => buf = ours

\* Importing another program's changes never costs the user's own: lines he
\* added since are still there after, lines he removed do not come back (but
\* no text without a file is never edited, and a mixture that was marked as
\* saved does not count as edited).
ImportKeepsMine ==
  ~mixed /\ (\E i \in DOMAIN imports : ImportReturns(i)) /\ ours # NoText /\ (onDisk \/ buf # {}) =>
    buf \ ours \subseteq buf' /\ (ours \ buf) \cap buf' = {}

\* After a crash the unsaved text is in the restored document as soon as it is
\* loaded, and the document knows that it is not saved (no text without a
\* file is never edited, a mixture that was marked as saved is not either),
\* unless the backup was made while the file was missing.
RestoredAfterCrash ==
  loaded /\ expected # NoText =>
    /\ buf = expected.text
    /\ expected.known => Edited \/ (buf = {} /\ ~onDisk)
=============================================================================
