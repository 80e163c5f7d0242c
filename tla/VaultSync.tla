----------------------------- MODULE VaultSync -----------------------------
(***************************************************************************)
(* One path of one device's vault, and the three places its state is kept: *)
(* the file on disk, the document of the local database, and the           *)
(* integration baseline (lastSynced) that says what version the disk holds *)
(* as synced. The operations that move content between them, each cut      *)
(* where the code awaits: fileToDb, dbToFile, markDeleted and the commits  *)
(* of a conflict's answer (src/sync/vault-sync.ts), the events that start  *)
(* them (change-tracker.ts), and the check for unsaved typing at the write *)
(* (src/adapters/editor-aware-vault-writer.ts). Who calls dbToFile, and    *)
(* when, is the subject of VaultReplication.                               *)
(*                                                                         *)
(* The stat cache of diskChunkIds is taken at its word: a file that        *)
(* changed has another mtime or size. Paths kept out by filters, size      *)
(* limits and case collisions are left out.                                *)
(***************************************************************************)
EXTENDS SyncRelation

CONSTANTS
  Self, Peer,     \* this device; all the others
  MaxEdits        \* bound: changes the user makes to the file

ASSUME DevicesAssumption == Self # Peer /\ Device = {Self, Peer}
ASSUME EditsAssumption   == MaxEdits \in Nat

VARIABLES
  disk,         \* the file's content, None when there is no file
  doc, base,    \* the local document; the baseline (lastSynced)
  typed,        \* None, or the text an open editor has not saved
  awaiting,     \* a write was declined for unsaved text (awaitingEditorSave)
  timer,        \* a debounced fileToDb is scheduled
  deleting,     \* the markDeleted of a delete event is on its way
  recording,    \* the reads of fileToDb calls that have not committed
  job,          \* per caller: its dbToFile in progress, or None
  edits,        \* how much of the bound is used
  \* History variables, read by the properties only.
  owed,         \* the user's last saved text, until the server has it or the
                \* user gives it up
  owedAt,       \* the clock it was recorded under, None before that
  madeOn,       \* the clock of the version the file's text builds on
  removed       \* the version a file the user deleted was made on, until the
                \* deletion is recorded

history   == <<owed, owedAt, madeOn, removed>>
events    == <<typed, awaiting, timer, deleting>>
vaultVars == <<disk, doc, base, events, recording, job, edits, history>>

Read   == [content : Content, on : Clock]
Caller == {"pull", "drain", "scan", "dialog"}

\* What a dbToFile works on: over lifts the check for an unsynced change, had
\* is whether it found a file.
Job == [stage : {"check", "write", "baseline", "applied", "declined", "failed"},
        doc : Doc, over : BOOLEAN, had : BOOLEAN]

ASSUME NoneIsNoJob == None \notin Job

VaultTypeOK ==
  /\ disk \in Content \cup {None} /\ doc \in Doc \cup {None}
  /\ base \in Baseline \cup {None}
  /\ typed \in Read \cup {None} /\ awaiting \in BOOLEAN
  /\ timer \in BOOLEAN /\ deleting \in BOOLEAN
  /\ recording \subseteq Read
  /\ job \in [Caller -> Job \cup {None}]
  /\ edits \in Nat
  /\ owed \in Content \cup {None} /\ owedAt \in Clock \cup {None}
  /\ madeOn \in Clock /\ removed \in Clock \cup {None}

VaultInit ==
  /\ disk = None /\ doc = None /\ base = None
  /\ typed = None /\ awaiting = FALSE
  /\ timer = FALSE /\ deleting = FALSE
  /\ recording = {} /\ job = [k \in Caller |-> None]
  /\ edits = 0
  /\ owed = None /\ owedAt = None /\ madeOn = ZeroClock /\ removed = None

OwedNoMore(settled) ==
  /\ owed'   = IF settled THEN None ELSE owed
  /\ owedAt' = IF settled THEN None ELSE owedAt

-----------------------------------------------------------------------------
(* The user. An event is heard while the plugin runs (heard).              *)

\* A text put back to what was last synced owes nothing.
Saves(text, on, heard) ==
  /\ disk' = text
  /\ timer' = (timer \/ heard)
  /\ owed' = IF explained(text, base) THEN None ELSE text
  /\ owedAt' = None /\ madeOn' = on
  /\ removed' = IF deleting THEN removed ELSE None

\* The text of an open editor, saved later.
Type(c) ==
  /\ edits < MaxEdits /\ edits' = edits + 1
  /\ typed = None /\ disk # None /\ c # disk
  /\ typed' = [content |-> c, on |-> madeOn]
  /\ UNCHANGED <<disk, doc, base, awaiting, timer, deleting, recording, job, history>>

SaveTyped ==
  /\ typed # None /\ typed' = None
  /\ Saves(typed.content, typed.on, TRUE)
  /\ UNCHANGED <<doc, base, awaiting, deleting, recording, job, edits>>

\* A change made outside an editor: another program, or a new file.
EditFile(c, heard) ==
  /\ edits < MaxEdits /\ edits' = edits + 1
  /\ typed = None /\ c # disk
  /\ Saves(c, madeOn, heard)
  /\ UNCHANGED <<doc, base, typed, awaiting, deleting, recording, job>>

\* The delete event cancels a scheduled fileToDb and calls markDeleted.
DeleteFile(heard) ==
  /\ edits < MaxEdits /\ edits' = edits + 1
  /\ disk # None /\ disk' = None /\ typed' = None
  /\ timer' = (timer /\ ~heard) /\ deleting' = (deleting \/ heard)
  /\ owed' = None /\ owedAt' = None /\ removed' = madeOn
  /\ UNCHANGED <<doc, base, awaiting, recording, job, madeOn>>

-----------------------------------------------------------------------------
(* fileToDb.                                                               *)

\* stat and read: the text as it is now; the wait for an editor is over.
ReadFile ==
  /\ recording' = IF disk = None THEN recording
                  ELSE recording \cup {[content |-> disk, on |-> madeOn]}
  /\ awaiting' = FALSE

TimerFires ==
  /\ timer /\ timer' = FALSE
  /\ ReadFile
  /\ UNCHANGED <<disk, doc, base, typed, deleting, job, edits, history>>

docClock == IF doc = None THEN ZeroClock ELSE doc.vclock

alive(c, clock)    == [content |-> c, deleted |-> FALSE, vclock |-> clock]
synced(c, clock)   == [content |-> c, vclock |-> clock]
deletedBase_bare(clock) == synced(None, None)
deletedBase(clock) == synced(None, clock)

\* The file, and the texts typed or read on top of the same version, build on
\* this clock.
goesAlong(on, clock) == IF on = madeOn THEN clock ELSE on

BuildsOn(clock, reads) ==
  LET along(text) == [text EXCEPT !.on = goesAlong(@, clock)]
  IN /\ madeOn' = clock
     /\ typed' = IF typed = None THEN None ELSE along(typed)
     /\ recording' = {along(r) : r \in reads}

\* The text read entered the local database under this clock.
Recorded(r, clock) ==
  /\ owedAt' = IF owed = r.content THEN clock ELSE owedAt
  /\ BuildsOn(IF r.on = madeOn THEN clock ELSE madeOn, recording \ {r})
  /\ removed' = None /\ UNCHANGED owed

(***************************************************************************)
(* The builder: it judges the text read against the document and the       *)
(* baseline as they are at the commit, and commits over that document      *)
(* (expectedVclock), or writes nothing.                                    *)
(***************************************************************************)
CommitRead(r) ==
  /\ r \in recording
  /\ LET clock == incrementVC(docClock, Self)
     IN \/ /\ recordsFile(r.content, doc, base)
           /\ doc' = alive(r.content, clock) /\ base' = synced(r.content, clock)
           /\ Recorded(r, clock)
        \/ /\ ~recordsFile(r.content, doc, base)
           /\ recording' = recording \ {r}
           /\ UNCHANGED <<doc, base, typed, history>>
  /\ UNCHANGED <<disk, awaiting, timer, deleting, job, edits>>

-----------------------------------------------------------------------------
(* markDeleted.                                                            *)

MarkDeleted ==
  /\ awaiting' = FALSE
  /\ LET clock == incrementVC(docClock, Self)
     IN \/ /\ doc = None
           /\ base' = None /\ removed' = None /\ UNCHANGED doc
        \/ /\ doc # None /\ doc.deleted
           /\ base' = deletedBase(doc.vclock) /\ removed' = None /\ UNCHANGED doc
        \/ /\ doc # None /\ ~doc.deleted /\ tombstones(doc, base)
           /\ doc' = [doc EXCEPT !.deleted = TRUE, !.vclock = clock]
           /\ base' = deletedBase(clock) /\ removed' = None
        \/ /\ doc # None /\ ~doc.deleted /\ ~tombstones(doc, base)
           /\ UNCHANGED <<doc, base, removed>>

DeleteEvent ==
  /\ deleting /\ deleting' = FALSE
  /\ MarkDeleted
  /\ UNCHANGED <<disk, typed, timer, recording, job, edits, owed, owedAt, madeOn>>

-----------------------------------------------------------------------------
(***************************************************************************)
(* dbToFile: look at the disk, write, establish the baseline. Between the  *)
(* look and the write it fetches the chunks from the local database and    *)
(* keeps the old text for the history; after the write it takes a stat.    *)
(***************************************************************************)
newJob(d, over) == [stage |-> "check", doc |-> d, over |-> over, had |-> FALSE]

Start(k, d, over) == job[k] = None /\ job' = [job EXCEPT ![k] = newJob(d, over)]

at(k, stage) == job[k] # None /\ job[k].stage = stage

\* What the look finds, where over lifts the check for an unsynced change.
verdict(j) == LET found == vaultWrite(disk, j.doc, base)
              IN IF j.over /\ found = "decline" THEN "write" ELSE found

afterLook(j) == CASE verdict(j) = "keep"    -> "baseline"
                  [] verdict(j) = "write"   -> "write"
                  [] verdict(j) = "decline" -> "declined"

\* A text that others wrote too is not owed any more.
Integrated(d) ==
  /\ OwedNoMore(~d.deleted /\ owed = disk)
  /\ BuildsOn(d.vclock, recording)
  /\ removed' = IF d.deleted THEN None ELSE goesAlong(removed, d.vclock)

CheckDisk(k) ==
  /\ at(k, "check")
  /\ job' = [job EXCEPT ![k].stage = afterLook(job[k]), ![k].had = disk # None]
  /\ \/ verdict(job[k]) = "keep" /\ Integrated(job[k].doc)
     \/ verdict(job[k]) # "keep" /\ UNCHANGED <<typed, recording, history>>
  /\ UNCHANGED <<disk, doc, base, awaiting, timer, deleting, edits>>

(***************************************************************************)
(* The vault writer leaves a file whose editor holds unsaved text, and     *)
(* throws on one that came or went since the look. A new file raises an    *)
(* event; the other events of the plugin's own writes are ignored, and a   *)
(* deletion drops what was scheduled.                                      *)
(***************************************************************************)
unsavedText(j) == typed # None /\ disk # None /\ (j.doc.deleted \/ j.had)

cameOrWent(j) == ~j.doc.deleted /\ j.had # (disk # None)

\* A path whose write was declined for unsaved text waits for the editor.
declinedByWriter(k) ==
  /\ job' = [job EXCEPT ![k].stage = "declined"] /\ awaiting' = TRUE
  /\ UNCHANGED <<disk, timer, history>>

WriteDisk(k) ==
  /\ at(k, "write")
  /\ LET j == job[k]
     IN \/ unsavedText(j) /\ declinedByWriter(k)
        \/ /\ cameOrWent(j)
           /\ job' = [job EXCEPT ![k].stage = "failed"]
           /\ UNCHANGED <<disk, awaiting, timer, history>>
        \/ /\ ~unsavedText(j) /\ ~cameOrWent(j)
           /\ disk' = IF j.doc.deleted THEN None ELSE j.doc.content
           /\ timer' = IF j.doc.deleted THEN timer /\ disk = None ELSE timer \/ disk = None
           /\ madeOn' = j.doc.vclock /\ removed' = None
           /\ OwedNoMore(j.over)
           /\ job' = [job EXCEPT ![k].stage = "baseline"]
           /\ UNCHANGED awaiting
  /\ UNCHANGED <<doc, base, typed, deleting, recording, edits>>

baseOf(d) == IF d.deleted THEN deletedBase(d.vclock) ELSE synced(d.content, d.vclock)

EstablishBaseline(k) ==
  /\ at(k, "baseline")
  /\ base' = baseOf(job[k].doc)
  /\ awaiting' = FALSE
  /\ job' = [job EXCEPT ![k].stage = "applied"]
  /\ UNCHANGED <<disk, doc, typed, timer, deleting, recording, edits, history>>

\* The chunks cannot be had, or the vault throws.
JobFails(k) ==
  /\ at(k, "check") \/ at(k, "write")
  /\ job' = [job EXCEPT ![k].stage = "failed"]
  /\ UNCHANGED <<disk, doc, base, events, recording, edits, history>>

JobStep(k) == CheckDisk(k) \/ WriteDisk(k) \/ EstablishBaseline(k)

-----------------------------------------------------------------------------
(***************************************************************************)
(* The commits of a conflict's answer. The reconcile's dialogs are about   *)
(* the document shown against the file: the answer is written only while   *)
(* the document is still that one (commitOverShown).                       *)
(***************************************************************************)
stands(shown) == doc # None /\ doc.vclock = shown.vclock

\* forceLocalEdit: the file as it is now, over the document.
KeepFile(shown) ==
  /\ stands(shown) /\ disk # None
  /\ LET clock == incrementVC(docClock, Self)
     IN /\ doc' = alive(disk, clock) /\ base' = synced(disk, clock)
        /\ Recorded([content |-> disk, on |-> madeOn], clock)
  /\ UNCHANGED <<disk, awaiting, timer, deleting, job, edits>>

\* forceMarkDeleted: the deletion, over the document.
KeepDeletion(shown) ==
  /\ stands(shown)
  /\ LET clock == incrementVC(docClock, Self)
     IN /\ doc' = [doc EXCEPT !.deleted = TRUE, !.vclock = clock]
        /\ base' = deletedBase(clock)
  /\ removed' = None
  /\ UNCHANGED <<disk, events, recording, job, edits, owed, owedAt, madeOn>>

\* takeDocToVault: the document, over the file as it is by then.
TakeDocToVault(shown) ==
  /\ stands(shown)
  /\ Start("dialog", doc, TRUE)
  /\ UNCHANGED <<disk, doc, base, events, recording, edits, history>>

(***************************************************************************)
(* The answer to a pull conflict is about the document and a remote one.   *)
(* The version kept moves the baseline along when the vault holds it, and  *)
(* goes to the vault otherwise, as the remote version does when it is      *)
(* taken: with a clock newer than both, or a remote edit as it is.         *)
(***************************************************************************)
decidedClock(l, r) == incrementVC(mergeVC(l.vclock, r.vclock), Self)

baselineHoldsContent(d) ==
  /\ base # None
  /\ IF d.deleted THEN base.content = None ELSE base.content = d.content

KeepLocalDoc(remote) ==
  /\ doc' = [doc EXCEPT !.vclock = decidedClock(doc, remote)]
  /\ \/ /\ baselineHoldsContent(doc)
        /\ base' = baseOf(doc') /\ BuildsOn(doc'.vclock, recording)
        /\ removed' = goesAlong(removed, doc'.vclock)
        /\ UNCHANGED job
     \/ /\ ~baselineHoldsContent(doc)
        /\ Start("dialog", doc', FALSE)
        /\ UNCHANGED <<base, typed, recording, madeOn, removed>>
  /\ UNCHANGED <<disk, awaiting, timer, deleting, edits, owed, owedAt>>

TakeRemoteDoc(remote) ==
  /\ doc' = IF remote.deleted THEN [remote EXCEPT !.vclock = decidedClock(doc, remote)]
                              ELSE remote
  /\ Start("dialog", doc', FALSE)
  /\ OwedNoMore(owedAt # None \/ (~remote.deleted /\ remote.content = owed))
  /\ UNCHANGED <<disk, base, events, recording, edits, madeOn, removed>>

-----------------------------------------------------------------------------
(* The reconcile aligns the baseline with a document whose content the     *)
(* disk holds (alignLastSyncedToDoc, adoptDocVclock).                      *)

AlignLastSyncedToDoc(d) ==
  base' = CASE base = None                                  -> synced(d.content, d.vclock)
            [] base # None /\ base.content = d.content      -> base
            [] base # None /\ base.content # d.content      -> synced(d.content, base.vclock)

AdoptDocVclock(d) == base' = synced(d.content, d.vclock)

Align(d) ==
  /\ AlignLastSyncedToDoc(d)
  /\ UNCHANGED <<disk, doc, events, recording, job, edits, history>>

Adopt(d) ==
  /\ AdoptDocVclock(d) /\ Integrated(d) /\ awaiting' = FALSE
  /\ UNCHANGED <<disk, doc, timer, deleting, job, edits>>

=============================================================================
