----------------------------- MODULE BundleCache -----------------------------
(***************************************************************************)
(* The index of the bundles: what plist::cache_t knows of the bundles      *)
(* directory, the file system events that correct it, the index made from  *)
(* it, and the copy on disk from which the next launch goes on, with the   *)
(* event that copy is current for.                                         *)
(*                                                                         *)
(* The directory (Top, which exists) has a directory per bundle (Dirs)     *)
(* with one file (File(d)) each.  A file's content is the time it was      *)
(* written at, and no two writes have the same time: the cache compares    *)
(* whole seconds only and does not see a second write within one.          *)
(***************************************************************************)
EXTENDS Integers, Sequences, FiniteSets, SequencesExt

CONSTANTS
  Dirs,              \* names, 1..N; the later ones begin with the earlier
  MaxClock, MaxLaunches, MaxEvents, \* bounds: writes, launches, events
  NoDir

ASSUME BundleAssumption == Dirs \in SUBSET Nat /\ NoDir \notin Nat

VARIABLES
  clock, disk,       \* disk: file of each directory, 0 for none, NoDir for no directory
  events,            \* directories that changed; event i has the id i + 1
  app, launches,
  cache, dirty, needsIndex, needsSave,
  index,             \* files that the index has
  installing,        \* bundles that were replaced and not read again
  unsaved,           \* and that were, but not saved since
  seen, replay,      \* the last event that was delivered; that a replay has to reach
  saved,
  missed,            \* history: bundles that were changed unnoticed
  stale              \* history: bundles that were found empty, but not reported as changed

bundleVars == <<clock, disk, events, app, launches, cache, dirty, needsIndex, needsSave, index, installing, unsaved, seen, replay, saved, missed, stale>>

\* Paths from the bundles directory.
Top == <<>>
Dir(d)  == <<d>>
File(d) == <<d, 1>>
DirPaths == {Dir(d) : d \in Dirs}
Paths == {Top} \union DirPaths \union {File(d) : d \in Dirs}
Absent == [is |-> "absent"]
NoCache == [p \in Paths |-> Absent]
LastId == Len(events) + 1   \* FSEventsGetCurrentEventId

\* What scandir and lstat say.
OnDisk(p) ==
  IF p = Top THEN [is |-> "dir", items |-> {Dir(d) : d \in {e \in Dirs : disk[e] # NoDir}}, id |-> 0]
  ELSE IF p \in DirPaths
  THEN IF disk[p[1]] = NoDir THEN [is |-> "missing"]
       ELSE [is |-> "dir", items |-> IF disk[p[1]] = 0 THEN {} ELSE {File(p[1])}, id |-> 0]
  ELSE IF disk[p[1]] \in {0, NoDir} THEN [is |-> "missing"]
       ELSE [is |-> "file", modified |-> disk[p[1]]]

Items(c, p) == IF c[p].is = "dir" THEN c[p].items ELSE {}
Listed(c) == UNION {Items(c, d) : d \in Items(c, Top)}

-----------------------------------------------------------------------------
\* create_bundle_index: the cache is asked, and asks the disk for what it does
\* not know; a file that was missing is looked up again.
Resolved(c, ps) == [p \in Paths |-> IF p \in ps /\ c[p] = Absent THEN OnDisk(p) ELSE c[p]]
Filled(c) ==
  LET root == Resolved(c, {Top})
      dirs == Resolved(root, Items(root, Top))
  IN [p \in Paths |-> IF p \in Listed(dirs) /\ dirs[p].is \in {"absent", "missing"} THEN OnDisk(p) ELSE dirs[p]]
Index(c) == {<<p, c[p].modified>> : p \in {q \in Listed(c) : c[q].is = "file"}}

\* reload: an entry that is not what the disk has is forgotten, a directory's
\* entries are read again, and so are its files, and all of it if recursive.
Stale(e, p) == IF e.is = "file" THEN e # OnDisk(p) ELSE e.is # "missing" \/ OnDisk(p).is # "missing"
Kept(c, p) == IF c[p] # Absent /\ Stale(c[p], p) THEN Absent ELSE c[p]

\* Mutant: the files of a directory are not looked at.
ReloadDirOnly(c, d, recursive) ==
  IF c[d].is = "dir" /\ OnDisk(d).is = "dir" THEN [c EXCEPT ![d].items = OnDisk(d).items]
  ELSE [c EXCEPT ![d] = Kept(c, d)]

ReloadDir(c, d, recursive) ==
  IF c[d].is = "dir" /\ OnDisk(d).is = "dir"
  THEN [c EXCEPT ![d].items = OnDisk(d).items,
                 ![File(d[1])] = IF OnDisk(d).items # {} /\ (@.is = "file" \/ recursive) THEN Kept(c, File(d[1])) ELSE @]
  ELSE [c EXCEPT ![d] = Kept(c, d)]

\* One after the other, in any order: they have no entry in common.
ReloadAll(c, ds) ==
  [p \in Paths |-> IF \E d \in ds : p \in {Dir(d), File(d)} /\ c[Dir(d)] # Absent
                   THEN ReloadDir(c, Dir(p[1]), TRUE)[p] ELSE c[p]]

ReloadRoot(c, recursive) ==
  LET r == [c EXCEPT ![Top].items = OnDisk(Top).items]
  IN IF recursive THEN ReloadAll(r, {d \in Dirs : Dir(d) \in r[Top].items}) ELSE r

\* A path that is not known stands for the directory it is in.
Reload(c, p, recursive) ==
  IF p \in DirPaths /\ c[p] # Absent THEN ReloadDir(c, p, recursive)
  ELSE IF c[Top] # Absent THEN ReloadRoot(c, recursive) ELSE c

\* What reload returns: whether something changed; but a recursive one compares
\* the entries of its directory with none, and finds no change if none are left.
Dirty(c, p, recursive) ==
  LET q == IF p \in DirPaths /\ c[p] = Absent THEN Top ELSE p
  IN IF recursive /\ c[q].is = "dir" /\ OnDisk(q).is = "dir" THEN OnDisk(q).items # {} ELSE Reload(c, p, recursive) # c

\* The bundles whose file is no longer reached.
Dropped(c, r) == {d \in Dirs : File(d) \in Listed(c) \ Listed(r)}

\* reload, of each bundle that was installed.
Reinstalled(c, ds) ==
  LET r == ReloadAll(c, ds)
  IN IF \E d \in ds : c[Dir(d)] = Absent THEN ReloadRoot(r, TRUE) ELSE r

\* erase: the range of keys up to path + "0" has also the siblings whose name
\* goes on with a character before the slash.
Erase(c, d) ==
  IF c[Dir(d)].is = "dir"
  THEN [p \in Paths |-> IF p = Top THEN [c[Top] EXCEPT !.items = @ \ {Dir(d)}]
                        ELSE IF p[1] >= d THEN Absent ELSE c[p]]
  ELSE [c EXCEPT ![Dir(d)] = Absent]

\* cleanup: what cannot be reached from the root is forgotten.
Cleaned(c) == [p \in Paths |-> IF p \in {Top} \union Items(c, Top) \union Listed(c) THEN c[p] ELSE Absent]

SetEventId(c, id) == [c EXCEPT ![Top].id = id]

-----------------------------------------------------------------------------
BundleInit ==
  /\ clock = 1 /\ disk \in [Dirs -> {NoDir, 1}] /\ events = <<>>
  /\ app = "down" /\ launches = 0 /\ cache = NoCache /\ dirty = FALSE
  /\ needsIndex = FALSE /\ needsSave = FALSE /\ index = {} /\ installing = {} /\ unsaved = {} /\ seen = 0 /\ replay = 0 /\ saved = NoCache
  /\ missed = {} /\ stale = {}

appVars == <<app, launches, cache, dirty, needsIndex, needsSave, index, installing, unsaved, seen, replay, saved, stale>>

Event(p) == events' = Append(events, p)

\* Nothing is known of the bundle.
New(d) == \A c \in {cache, saved}, p \in {Dir(d), File(d)} : c[p] = Absent

\* Nobody will notice a change before it is known from when on to watch, nor that
\* a bundle is there again as long as the cache has something of the one that was
\* there before: the event is only for the directory it is in.
Missed(d) ==
  IF (app = "built" /\ cache[Top].id = 0) \/ (disk[d] = NoDir /\ ~New(d)) THEN missed \union {d} ELSE missed

\* Somebody adds a bundle, empty or with its file (it is moved there), writes or
\* removes a file, or removes a bundle.
ChangeBundle(d) ==
  /\ clock < MaxClock /\ Len(events) < MaxEvents
  /\ \/ disk[d] = NoDir /\ disk' = [disk EXCEPT ![d] = 0] /\ clock' = clock /\ Event(Top)
     \/ disk[d] = NoDir /\ disk' = [disk EXCEPT ![d] = clock + 1] /\ clock' = clock + 1 /\ Event(Top)
     \/ disk[d] # NoDir /\ disk' = [disk EXCEPT ![d] = clock + 1] /\ clock' = clock + 1 /\ Event(Dir(d))
     \/ disk[d] \notin {0, NoDir} /\ disk' = [disk EXCEPT ![d] = 0] /\ clock' = clock /\ Event(Dir(d))
     \/ disk[d] # NoDir /\ disk' = [disk EXCEPT ![d] = NoDir] /\ clock' = clock /\ Event(Top)
  /\ missed' = Missed(d)
  /\ UNCHANGED appVars

\* loadBundlesIndex: the saved cache, and the index from it.
Launch ==
  /\ app = "down" /\ launches < MaxLaunches /\ launches' = launches + 1 /\ app' = "built"
  /\ cache' = Filled(saved) /\ index' = Index(cache') /\ dirty' = (cache' # saved)
  /\ needsIndex' = FALSE /\ needsSave' = FALSE /\ stale' = {}
  /\ UNCHANGED <<clock, disk, events, installing, unsaved, seen, replay, saved, missed>>

\* updateWatchList, watch: from the cached event on, or from now on.
Watch ==
  /\ app = "built" /\ app' = "up"
  /\ LET id == IF cache[Top].id = 0 THEN LastId ELSE cache[Top].id IN
     seen' = id - 1 /\ cache' = SetEventId(cache, id) /\ dirty' = (dirty \/ cache' # cache)
  /\ replay' = LastId /\ needsSave' = TRUE
  /\ UNCHANGED <<clock, disk, events, launches, needsIndex, index, installing, unsaved, saved, missed, stale>>

\* callback, did_change: the directory is read again, and its event is seen.
DidChange(recursive) ==
  /\ app = "up" /\ seen < Len(events) /\ seen' = seen + 1
  /\ LET c == Reload(cache, events[seen'], recursive)
         changed == Dirty(cache, events[seen'], recursive) IN
     /\ cache' = SetEventId(c, seen' + 1) /\ dirty' = TRUE /\ needsSave' = TRUE
     /\ needsIndex' = (needsIndex \/ changed)
     /\ stale' = IF changed THEN stale ELSE stale \union Dropped(cache, c)
  /\ UNCHANGED <<clock, disk, events, app, launches, index, installing, unsaved, replay, saved, missed>>

\* set_replaying_history: the event the stream was made at, at least.
ReplayedId == replay

HistoryDone ==
  /\ app = "up" /\ replay # 0 /\ seen + 1 >= replay /\ replay' = 0
  /\ LET id == IF seen + 1 > ReplayedId THEN seen + 1 ELSE ReplayedId IN
     cache' = SetEventId(cache, id) /\ dirty' = (dirty \/ cache' # cache)
  /\ needsSave' = TRUE /\ UNCHANGED <<clock, disk, events, app, launches, needsIndex, index, installing, unsaved, seen, saved, missed, stale>>

CreateIndex ==
  /\ app = "up" /\ needsIndex /\ needsIndex' = FALSE /\ stale' = {}
  /\ cache' = Filled(cache) /\ index' = Index(cache') /\ dirty' = (dirty \/ cache' # cache)
  /\ UNCHANGED <<clock, disk, events, app, launches, needsSave, installing, unsaved, seen, replay, saved, missed>>

\* saveBundlesIndex.
SaveIndex ==
  /\ app = "up" /\ needsSave /\ needsSave' = FALSE
  /\ cache' = Cleaned(cache) /\ dirty' = FALSE
  /\ IF dirty \/ cache' # cache THEN saved' = cache' /\ unsaved' = {} ELSE UNCHANGED <<saved, unsaved>>
  /\ UNCHANGED <<clock, disk, events, app, launches, needsIndex, index, installing, seen, replay, missed, stale>>

\* The application ends, perhaps while it writes the file.  If it was not, no
\* event will tell of the bundles that were replaced since.
Crash ==
  /\ app # "down" /\ app' = "down"
  /\ \/ saved' = saved /\ missed' = missed \union installing \union unsaved
     \/ needsSave /\ saved' = NoCache /\ missed' = {}
  /\ cache' = NoCache /\ dirty' = FALSE /\ needsIndex' = FALSE /\ needsSave' = FALSE /\ index' = {}
  /\ installing' = {} /\ unsaved' = {} /\ seen' = 0 /\ replay' = 0 /\ stale' = {}
  /\ UNCHANGED <<clock, disk, events, launches>>

Uninstall(d) ==
  /\ app = "up" /\ disk[d] # NoDir /\ Len(events) + 1 < MaxEvents
  /\ disk' = [disk EXCEPT ![d] = NoDir] /\ events' = events \o <<Dir(d), Top>>
  /\ IF cache[Dir(d)] # Absent THEN cache' = Erase(cache, d) /\ dirty' = TRUE /\ needsIndex' = TRUE /\ needsSave' = TRUE
     ELSE UNCHANGED <<cache, dirty, needsIndex, needsSave>>
  /\ UNCHANGED <<clock, app, launches, index, installing, unsaved, seen, replay, saved, missed, stale>>

\* installBundles: a bundle that was downloaded is replaced, and when all are
\* they are read again and the index made.
Install(d) ==
  /\ app = "up" /\ missed' = Missed(d)
  /\ clock < MaxClock /\ clock' = clock + 1 /\ Len(events) < MaxEvents
  /\ disk' = [disk EXCEPT ![d] = clock'] /\ Event(Top) /\ installing' = installing \union {d}
  /\ UNCHANGED <<app, launches, cache, dirty, needsIndex, needsSave, index, unsaved, seen, replay, saved, stale>>

Installed ==
  /\ app = "up" /\ installing # {} /\ installing' = {} /\ unsaved' = unsaved \union installing
  /\ LET c == Reinstalled(cache, installing)
         changed == \E d \in installing : Dirty(cache, Dir(d), TRUE) IN
     /\ IF needsIndex \/ changed
          THEN cache' = Filled(c) /\ index' = Index(cache') /\ stale' = {}
          ELSE cache' = c /\ index' = index /\ stale' = stale \union Dropped(cache, c)
     /\ dirty' = (dirty \/ changed \/ cache' # c) /\ needsSave' = (needsSave \/ changed)
  /\ needsIndex' = FALSE /\ UNCHANGED <<clock, disk, events, app, launches, seen, replay, saved, missed>>

BundleNext ==
  \/ Launch \/ Watch \/ HistoryDone \/ CreateIndex \/ SaveIndex \/ Installed \/ Crash
  \/ \E recursive \in BOOLEAN : DidChange(recursive)
  \/ \E d \in Dirs : ChangeBundle(d) \/ Uninstall(d) \/ Install(d)

BundleSpec == BundleInit /\ [][BundleNext]_bundleVars

-----------------------------------------------------------------------------
\* When all events are delivered and the index is made, it has the files that
\* are on the disk: whatever was missed while the application was not running,
\* or when it ended, comes with the replay.  Not so for a change that nobody
\* notices (Missed, Crash) or that reload does not report (Dirty), and for a path
\* that was away for the moment when the cache looked: an entry for something
\* missing is not reloaded when the path is there again and its directory lists
\* what it did.
Away(d) == "missing" \in {cache[Dir(d)].is, cache[File(d)].is}
IndexCurrent ==
  app = "up" /\ seen = Len(events) /\ ~needsIndex /\ installing = {} =>
    \A d \in Dirs \ (missed \union stale) : ~Away(d) =>
      {f \in index : f[1] = File(d)} = IF disk[d] \in {0, NoDir} THEN {} ELSE {<<File(d), disk[d]>>}

\* What is saved is wrong only where an event after the saved one tells so, and
\* a bundle that was just installed: the index of the next launch is only as
\* good as this.  (Again apart from what nobody noticed or is recorded as missing.)
SavedResumes ==
  saved # NoCache =>
    LET told == {events[i] : i \in {j \in DOMAIN events : j + 1 > saved[Top].id}}
                  \union {Dir(d) : d \in installing \union unsaved}
    IN /\ saved[Top].id # 0
       /\ \A d \in Dirs \ missed :
            /\ Dir(d) \in Items(saved, Top) /\ disk[d] = NoDir => Top \in told
            /\ Dir(d) \notin Items(saved, Top) /\ disk[d] # NoDir => Top \in told
            /\ \A p \in {Dir(d), File(d)} \intersect (Items(saved, Top) \union Listed(saved)) :
                 saved[p].is \in {"dir", "file"} /\ saved[p] # OnDisk(p) => {Dir(d), Top} \intersect told # {}

\* The index of the bundles has what is on the disk, and the saved cache is
\* right up to its event.
BundlesCurrent == IndexCurrent /\ SavedResumes
=============================================================================
