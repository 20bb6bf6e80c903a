------------------------------ MODULE ScmStatus ------------------------------
(***************************************************************************)
(* The version control status of one working copy: the info_t of its       *)
(* clients, the shared_info_t they share, the watcher of its files, the    *)
(* serial queue that asks the driver, and the blocks that bring the answer *)
(* to the main thread.                                                     *)
(*                                                                         *)
(* `files' counts the changes of the working copy and a status is the      *)
(* count it was read at.  `owed' and `told' are not in the code: the last  *)
(* change that a scheduled update has to see, and what the callbacks of a  *)
(* client last saw.                                                        *)
(***************************************************************************)
EXTENDS Integers, Sequences, FiniteSets, SequencesExt

CONSTANTS Clients, MaxFiles, None

VARIABLES
  driver,    \* does asking it touch the files (hg)?
  files, event,
  shared,    \* the shared_info_t that the cache's weak pointer has, or None
  reader,    \* the queue org.textmate.scm.status
  finding,   \* clients that wait on the queue org.textmate.scm.info-cache
  blocks,    \* the main run loop's
  client, told, owed,
  disabled, later

vars == <<driver, files, event, shared, reader, finding, blocks, client, told, owed, disabled, later>>

Unknown == -1   \* no status, and no snapshot
Infos == [status : Int, snapshot : Int, pending : BOOLEAN, clients : SUBSET Clients]
ASSUME ConstAssumption == None \notin Int \cup Infos

NewInfo == [status |-> Unknown, snapshot |-> Unknown, pending |-> FALSE, clients |-> {}]

\* Whoever has a strong pointer: clients, the reader, blocks that attach.
Alive(s, rd, bs) == s.clients # {} \/ rd.at = "reading" \/ \E i \in DOMAIN bs : bs[i].do = "attach"

\* What is left when a strong pointer is gone: the last one takes the blocks
\* and the wait of the reader, which have weak ones, along.
Release(s, rd, bs) ==
  IF s = None \/ Alive(s, rd, bs) THEN shared' = s /\ reader' = rd /\ blocks' = bs
  ELSE shared' = None /\ reader' = [at |-> "idle"] /\ blocks' = <<>>

\* schedule_update: an update that is pending already is not told that there
\* is something new to read.
Schedule(s, rd) ==
  IF disabled THEN /\ later' = TRUE /\ UNCHANGED owed /\ shared' = s /\ reader' = rd
  ELSE IF s.pending THEN shared' = s /\ reader' = rd /\ UNCHANGED <<owed, later>>
  ELSE /\ shared' = [s EXCEPT !.pending = TRUE] /\ reader' = [at |-> "waiting"]
       /\ owed' = files /\ UNCHANGED later

\* add_client: the first one starts the watcher, others are told at once.
AddClient(c, s) ==
  LET t == [s EXCEPT !.clients = @ \union {c}] IN
  IF t.clients = {c} THEN event' = FALSE /\ Schedule(t, reader) /\ UNCHANGED told
  ELSE /\ shared' = t /\ told' = [told EXCEPT ![c] = t.status] /\ UNCHANGED <<event, reader, owed, later>>

-----------------------------------------------------------------------------
Init ==
  /\ driver \in BOOLEAN /\ files = 0 /\ event = FALSE /\ shared = None
  /\ reader = [at |-> "idle"] /\ finding = <<>> /\ blocks = <<>>
  /\ client = [c \in Clients |-> "new"] /\ told = [c \in Clients |-> Unknown]
  /\ owed = Unknown /\ disabled = FALSE /\ later = FALSE

\* Somebody changes a file; the watcher, if there is one, will report it.
Change ==
  /\ files < MaxFiles /\ files' = files + 1
  /\ event' = (shared # None /\ shared.clients # {})
  /\ UNCHANGED <<driver, shared, reader, finding, blocks, client, told, owed, disabled, later>>

\* fs_did_change.
FsDidChange ==
  /\ event /\ event' = FALSE /\ Schedule(shared, reader)
  /\ UNCHANGED <<driver, files, finding, blocks, client, told, disabled>>

\* info(): with a shared_info_t in the cache the client gets it at once and its
\* callback, pushed right after, the status.  It is searched for if there is none
\* or it is that of a directory above the client's path.
Open(c) ==
  /\ client[c] = "new"
  /\ IF shared # None
     THEN /\ client' = [client EXCEPT ![c] = "attached"] /\ blocks' = blocks
          /\ (finding' = finding \/ finding' = Append(finding, c))
          /\ LET s == [shared EXCEPT !.clients = @ \union {c}] IN
             /\ told' = [told EXCEPT ![c] = s.status]
             /\ IF s.clients = {c} THEN event' = FALSE /\ Schedule(s, reader)
                ELSE shared' = s /\ UNCHANGED <<event, reader, owed, later>>
     ELSE /\ client' = [client EXCEPT ![c] = "dry"] /\ told' = [told EXCEPT ![c] = Unknown]
          /\ finding' = Append(finding, c) /\ UNCHANGED <<event, shared, reader, owed, later, blocks>>
  /\ UNCHANGED <<driver, files, disabled>>

\* find_shared_info_for on its queue; the block has a strong pointer to the
\* shared_info_t and a weak one to the client.
FindSharedInfo ==
  /\ finding # <<>> /\ finding' = Tail(finding)
  /\ shared' = IF shared = None THEN NewInfo ELSE shared
  /\ blocks' = Append(blocks, [do |-> "attach", client |-> Head(finding)])
  /\ owed' = IF shared = None THEN Unknown ELSE owed
  /\ later' = (later /\ shared # None)
  /\ UNCHANGED <<driver, files, event, reader, client, told, disabled>>

\* set_shared_info: for a client that has it already it is as for a new one, the
\* watcher starts again if there is no other client.
Attach ==
  /\ blocks # <<>> /\ Head(blocks).do = "attach"
  /\ LET c == Head(blocks).client IN
     IF client[c] \in {"dry", "attached"}
     THEN AddClient(c, shared) /\ client' = [client EXCEPT ![c] = "attached"] /\ blocks' = Tail(blocks)
     ELSE Release(shared, reader, Tail(blocks)) /\ UNCHANGED <<event, owed, later, told, client>>
  /\ UNCHANGED <<driver, files, finding, disabled>>

\* ~info_t, remove_client: the last one stops the watcher.
Close(c) ==
  /\ client[c] \in {"dry", "attached"} /\ client' = [client EXCEPT ![c] = "closed"]
  /\ IF client[c] = "attached"
     THEN LET s == [shared EXCEPT !.clients = @ \ {c}] IN
          Release(s, reader, blocks) /\ event' = (event /\ s.clients # {})
     ELSE UNCHANGED <<shared, reader, blocks, event>>
  /\ finding' = finding
  /\ UNCHANGED <<driver, files, told, owed, disabled, later>>

\* async_update: ask the driver, unless it is one that touches the files and
\* they are as they were.
ReadStatus ==
  /\ reader.at = "waiting" /\ reader' = [at |-> "reading", status |-> IF driver /\ shared.snapshot = files THEN None ELSE files]
  /\ UNCHANGED <<driver, files, event, shared, finding, blocks, client, told, owed, disabled, later>>

\* Mutant: the pending flag goes first.
AnswerSwapped(st) == <<[do |-> "done"]>> \o (IF st = None THEN <<>> ELSE <<[do |-> "update", status |-> st, snapshot |-> files]>>)

\* The blocks with the answer.
Answer(st) == (IF st = None THEN <<>> ELSE <<[do |-> "update", status |-> st, snapshot |-> files]>>) \o <<[do |-> "done"]>>

\* ... then take the snapshot, and send the blocks.
SendAnswer ==
  /\ reader.at = "reading" /\ Release(shared, [at |-> "sent"], blocks \o Answer(reader.status))
  /\ UNCHANGED <<driver, files, event, finding, client, told, owed, disabled, later>>

\* update: clients are told of a status that differs.
Update ==
  /\ blocks # <<>> /\ Head(blocks).do = "update" /\ blocks' = Tail(blocks)
  /\ LET b == Head(blocks) IN
     /\ shared' = [shared EXCEPT !.status = b.status, !.snapshot = b.snapshot]
     /\ told' = [c \in Clients |-> IF c \in shared.clients /\ b.status # shared.status THEN b.status ELSE told[c]]
  /\ UNCHANGED <<driver, files, event, reader, finding, client, owed, disabled, later>>

DonePending ==
  /\ blocks # <<>> /\ Head(blocks).do = "done" /\ blocks' = Tail(blocks)
  /\ shared' = [shared EXCEPT !.pending = FALSE] /\ reader' = [at |-> "idle"]
  /\ UNCHANGED <<driver, files, event, finding, client, told, owed, disabled, later>>

\* The application resigns active, and becomes active again.
Disable ==
  /\ ~disabled /\ disabled' = TRUE
  /\ UNCHANGED <<driver, files, event, shared, reader, finding, blocks, client, told, owed, later>>

Enable ==
  /\ disabled /\ disabled' = FALSE /\ later' = FALSE
  /\ IF later /\ shared # None /\ ~shared.pending
     THEN shared' = [shared EXCEPT !.pending = TRUE] /\ reader' = [at |-> "waiting"] /\ owed' = files
     ELSE UNCHANGED <<shared, reader, owed>>
  /\ UNCHANGED <<driver, files, event, finding, blocks, client, told>>

Next ==
  \/ Change \/ FsDidChange \/ FindSharedInfo \/ Attach \/ ReadStatus \/ SendAnswer
  \/ Update \/ DonePending \/ Disable \/ Enable
  \/ \E c \in Clients : Open(c) \/ Close(c)

Spec == Init /\ [][Next]_vars

-----------------------------------------------------------------------------
\* The flag that keeps other updates away is set only for as long as somebody
\* will reset it: a wait or a read on the queue, or a block of the run loop;
\* there is one of them, so that answers never overtake each other.
PendingIsServed ==
  shared # None =>
    LET done == {i \in DOMAIN blocks : blocks[i].do = "done"} IN
    /\ shared.pending <=> reader.at \in {"waiting", "reading"} \/ done # {}
    /\ Cardinality(done) <= 1 /\ (done # {} => reader.at = "sent")

\* When no update is pending the status is at least as new as the change that
\* the last update was scheduled for.  Not so for a driver that touches the
\* files: its snapshot is of after the status.
ScheduledIsRead ==
  shared # None /\ ~shared.pending /\ ~driver => shared.status >= owed

\* Clients that are attached were told the status they would read, as long as
\* none has left: one that becomes the first client of a shared_info_t whose
\* other clients left is told nothing until the status changes.
ClientsTold ==
  (\A c \in Clients : client[c] # "closed") =>
  \A c \in Clients : client[c] = "attached" => told[c] = shared.status

\* An update of the status that is pending has somebody who ends it and reads
\* what it was scheduled for, and clients know the status.
StatusReaches == PendingIsServed /\ ScheduledIsRead /\ ClientsTold
=============================================================================
