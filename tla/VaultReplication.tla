-------------------------- MODULE VaultReplication --------------------------
(***************************************************************************)
(* The device of VaultSync beside the remote vault: the pull that brings   *)
(* other devices' versions into the local document and from there to the   *)
(* disk, the record of the ones it could not write (pending-apply), the    *)
(* reconcile that compares the whole vault with the local database, the    *)
(* conflict dialogs, and the sessions that start and stop all of these.    *)
(*                                                                         *)
(* Source: src/db/sync/pull-writer.ts, src/db/sync/pending-apply.ts,       *)
(* src/sync/reconciler.ts, src/conflict/conflict-orchestrator.ts, and      *)
(* openSession of src/db/sync-engine.ts. The push, whose own hazards are   *)
(* the subject of PushPipeline, delivers here in one step.                 *)
(*                                                                         *)
(* All of it runs on one event loop and is cut at its awaits. Each stretch *)
(* between a decision and the write it decides is a region; Interrupts are *)
(* the regions other actors may run inside of. The code interrupts all of  *)
(* them: a run that leaves one out shows what holds unless that race hits. *)
(***************************************************************************)
EXTENDS VaultSync

CONSTANTS
  Interrupts,     \* regions that others may run inside of
  MaxPeerWrites,  \* bound: versions other devices push
  MaxFailures     \* bound: failed writes and fetches, quits, crashes

Region == {"record", "delete", "pull", "check", "write", "baseline", "vault", "docs",
           "dialog"}

ASSUME InterruptsAssumption == Interrupts \subseteq Region
ASSUME BoundsAssumption == MaxPeerWrites \in Nat /\ MaxFailures \in Nat

VARIABLES
  remote,       \* the server's document
  judged,       \* the pull has judged it (the cursor is past it)
  pulling,      \* None, or the document a batch accepted and has yet to commit
  pending,      \* what pending-apply has on record for the path
  listed,       \* the batch being written put it there
  conflict,     \* None, or the remote document a recorded conflict is about
  shown,        \* None, or what the dialog open for the reconcile is about
  manifest,     \* whether the vault manifest lists the path; "null" before one
  scan,         \* the reconcile in progress
  scanDue,      \* a reconcile was requested
  moved,        \* what changed since the last scan: the vault's files, the documents
  session,      \* how far the session is
  peerWrites, failures

pullVars == <<remote, judged, pulling, listed>>
dialogs  == <<conflict, shown>>
scanVars == <<manifest, scan, scanDue>>
bounds   == <<peerWrites, failures>>
replVars == <<pullVars, pending, dialogs, scanVars, session, bounds>>
vars == <<vaultVars, replVars, moved>>

Shown == [doc : Doc, file : Content \cup {None}]
Scan  == [stage : {"idle", "vault", "docs", "acting"}, has : BOOLEAN,
          doc : Doc \cup {None}]
noScan == [stage |-> "idle", has |-> FALSE, doc |-> None]

TypeOK ==
  /\ VaultTypeOK
  /\ remote \in Doc \cup {None} /\ judged \in BOOLEAN
  /\ pulling \in Doc \cup {None}
  /\ pending \in {"none", "missing-chunks", "pending-deletion"}
  /\ listed \in BOOLEAN
  /\ conflict \in Doc \cup {None} /\ shown \in Shown \cup {None}
  /\ manifest \in {"null", "has", "lacks"}
  /\ scan \in Scan /\ scanDue \in BOOLEAN /\ moved \subseteq {"vault", "docs"}
  /\ session \in {"closed", "stamp", "stamped", "catchup", "live"}
  /\ peerWrites \in Nat /\ failures \in Nat

\* The plugin is about to start, on a path nobody has yet or one that this
\* device has synced with the others.
Init ==
  /\ \/ VaultInit /\ remote = None /\ manifest = "null"
     \/ \E c \in Content :
          LET clock == incrementVC(ZeroClock, Peer)
          IN /\ disk = c /\ doc = alive(c, clock) /\ base = synced(c, clock)
             /\ remote = doc /\ madeOn = clock /\ manifest = "has"
             /\ typed = None /\ awaiting = FALSE /\ timer = FALSE /\ deleting = FALSE
             /\ recording = {} /\ job = [k \in Caller |-> None] /\ edits = 0
             /\ owed = None /\ owedAt = None /\ removed = None
  /\ judged = TRUE /\ pulling = None /\ pending = "none" /\ listed = FALSE
  /\ conflict = None /\ shown = None
  /\ scan = noScan /\ scanDue = FALSE
  /\ moved = IF remote = None THEN {"vault", "docs"} ELSE {}
  /\ session = "closed" /\ peerWrites = 0 /\ failures = 0

running  == session # "closed"
stops(n) == failures + n <= MaxFailures /\ failures' = failures + n

\* In every action: what moves after a scan took its snapshot of it is seen by
\* the next one; a scan that was cut short leaves the old snapshots.
Moves ==
  LET begins(stage) == scan.stage # stage /\ scan'.stage = stage
      fresh == {side \in {"vault", "docs"} : begins(side)}
      stir  == {side \in {"vault"} : disk' # disk} \cup {side \in {"docs"} : doc' # doc}
  IN moved' = IF scan.stage # "idle" /\ session' = "closed" THEN {"vault", "docs"}
              ELSE (moved \ fresh) \cup stir

-----------------------------------------------------------------------------
(* The regions that are open, and the actor that is inside each.           *)

inside ==
  {<<"record", "tracker">> : r \in recording}
  \cup {<<"delete", "tracker">> : t \in {deleting} \cap {TRUE}}
  \cup {<<"pull", "pull">> : d \in {pulling} \ {None}}
  \cup {<<"dialog", "dialog">> : s \in {shown} \ {None}}
  \cup {<<job[k].stage, k>> : k \in {k \in Caller : job[k] # None /\
                                     job[k].stage \in {"check", "write", "baseline"}}}
  \cup {<<stage, "scan">> : stage \in {scan.stage} \cap {"vault", "docs"}}

mayRun(actor) == \A at_ \in inside : at_[1] \in Interrupts \/ at_[2] = actor

-----------------------------------------------------------------------------
(* The user, and the tracker of the vault's events.                        *)

User ==
  /\ mayRun("user")
  /\ \/ running /\ ((\E c \in Content : Type(c)) \/ SaveTyped)
     \/ \E c \in Content : EditFile(c, running)
     \/ DeleteFile(running)
  /\ UNCHANGED replVars
  /\ Moves

\* A change on a path whose write waited for an editor requests a reconcile.
endEditorWait == scanDue' = (scanDue \/ awaiting)

Tracker ==
  /\ mayRun("tracker")
  /\ \/ TimerFires /\ endEditorWait
     \/ DeleteEvent /\ endEditorWait
     \/ \E r \in recording : CommitRead(r) /\ UNCHANGED scanDue
  /\ UNCHANGED <<pullVars, pending, dialogs, manifest, scan, session, bounds>>
  /\ Moves

-----------------------------------------------------------------------------
(* The server: a local document reaches it, and other devices write it.    *)

Deliver ==
  /\ session = "live" /\ mayRun("push")
  /\ doc # None /\ (remote # None => Dominates(doc.vclock, remote.vclock))
  /\ remote' = doc /\ judged' = FALSE
  /\ OwedNoMore(owedAt # None /\ Includes(doc.vclock, owedAt))
  /\ UNCHANGED <<disk, doc, base, events, recording, job, edits, madeOn, removed,
                 pulling, pending, listed, dialogs, scanVars, session, bounds>>
  /\ Moves

PeerWrites ==
  /\ peerWrites < MaxPeerWrites /\ peerWrites' = peerWrites + 1
  /\ mayRun("peer")
  /\ \E c \in Content, gone \in BOOLEAN :
       /\ gone => remote # None /\ ~remote.deleted /\ c = remote.content
       /\ remote' = [content |-> c, deleted |-> gone,
                     vclock |-> incrementVC(IF remote = None THEN ZeroClock
                                                             ELSE remote.vclock, Peer)]
  /\ judged' = FALSE
  /\ UNCHANGED <<vaultVars, pulling, pending, listed, dialogs, scanVars, session,
                 failures>>
  /\ Moves

-----------------------------------------------------------------------------
(***************************************************************************)
(* The pull. A batch is judged against the local documents read while it   *)
(* is classified; what it accepts is committed without looking at them     *)
(* again, and then written to the vault. A conflict is recorded with the   *)
(* cursor, for the dialog.                                                 *)
(***************************************************************************)
saveEmptyPullBatch(found) == conflict' = found /\ UNCHANGED pulling

PullJudge ==
  /\ session \in {"catchup", "live"} /\ mayRun("pull")
  /\ remote # None /\ ~judged /\ judged' = TRUE
  /\ pulling = None /\ job["pull"] = None
  /\ LET verdict_ == resolveOnPull(doc, remote)
     IN \/ /\ verdict_ \in {"take-remote", "silent-merge"}
           /\ pulling' = acceptedOnPull(doc, remote) /\ UNCHANGED conflict
        \/ verdict_ = "concurrent" /\ saveEmptyPullBatch(remote)
        \/ verdict_ = "keep-local" /\ saveEmptyPullBatch(conflict)
  /\ UNCHANGED <<vaultVars, remote, pending, listed, shown, scanVars, session,
                 bounds>>
  /\ Moves

\* A tombstone, or a document whose chunks are not here yet, goes on record.
commitPullBatch ==
  /\ doc' = pulling /\ pulling' = None
  /\ listed' = (pulling.deleted \/ doc = None \/ doc.content # pulling.content)
  /\ pending' = CASE ~listed' -> pending
                  [] listed' /\ pulling.deleted  -> "pending-deletion"
                  [] listed' /\ ~pulling.deleted -> "missing-chunks"

PullCommit ==
  /\ pulling # None /\ mayRun("pull")
  /\ commitPullBatch
  /\ Start("pull", pulling, FALSE)
  /\ OwedNoMore(~pulling.deleted /\ pulling.content = owed)
  /\ UNCHANGED <<disk, base, events, recording, edits, madeOn, removed, remote, judged,
                 dialogs, scanVars, session, bounds>>
  /\ Moves

resolve(done) == IF done THEN "none" ELSE pending

\* The path's dialog, if one is open by now, closes with nothing chosen, and its
\* conflict is off the record.
autoResolve == shown' \in {shown, None} /\ conflict' \in {conflict, None}

\* Written or declined, a document is off the record. A declined one is left to
\* the reconcile.
PullDone ==
  /\ \E outcome \in {"applied", "declined", "failed"} :
       /\ at("pull", outcome)
       /\ pending'  = resolve(listed /\ outcome # "failed")
       /\ scanDue'  = (scanDue \/ outcome = "declined")
       /\ IF outcome = "applied" THEN autoResolve ELSE UNCHANGED dialogs
  /\ job' = [job EXCEPT !["pull"] = None] /\ listed' = FALSE
  /\ UNCHANGED <<disk, doc, base, events, recording, edits, history, remote, judged,
                 pulling, manifest, scan, session, bounds>>
  /\ Moves

(***************************************************************************)
(* Pending-apply: a recorded document that is no longer the tombstone, or  *)
(* no longer the live document, it was recorded as is dropped; the others  *)
(* are written again, and stay on record while that fails. A live document *)
(* that so comes off the record closes the path's dialog (onRecovered),    *)
(* whatever that dialog is about.                                          *)
(***************************************************************************)
stillPending == doc # None /\ (doc.deleted <=> pending = "pending-deletion")

Drain ==
  /\ running /\ session # "stamp" /\ mayRun("drain")
  /\ pending # "none" /\ job["drain"] = None
  /\ \/ stillPending /\ Start("drain", doc, FALSE) /\ UNCHANGED pending
     \/ ~stillPending /\ pending' = resolve(TRUE) /\ UNCHANGED job
  /\ UNCHANGED <<disk, doc, base, events, recording, edits, history, pullVars,
                 dialogs, scanVars, session, bounds>>
  /\ Moves

recovers(k, outcome) ==
  ~job[k].doc.deleted /\ outcome # "failed" /\ pending # "none"

DrainDone ==
  /\ \E outcome \in {"applied", "declined", "failed"} :
       /\ at("drain", outcome)
       /\ pending' = IF outcome = "failed" /\ ~job["drain"].doc.deleted
                       THEN "missing-chunks" ELSE resolve(outcome # "failed")
       /\ IF recovers("drain", outcome) THEN autoResolve ELSE UNCHANGED dialogs
  /\ job' = [job EXCEPT !["drain"] = None]
  /\ UNCHANGED <<disk, doc, base, events, recording, edits, history, pullVars,
                 scanVars, session, bounds>>
  /\ Moves

\* The steps of the dbToFile calls, and their failures.
Apply ==
  /\ \E k \in Caller :
       /\ mayRun(k)
       /\ \/ JobStep(k) /\ UNCHANGED failures
          \/ JobFails(k) /\ stops(1)
  /\ UNCHANGED <<pullVars, pending, dialogs, scanVars, session, peerWrites>>
  /\ Moves

-----------------------------------------------------------------------------
(***************************************************************************)
(* The reconcile: it lists the vault's files, then reads all documents,    *)
(* then takes the paths one by one, with the baseline and the text of a    *)
(* listed file as they are when the path's turn comes.                     *)
(***************************************************************************)
\* Nothing moved since the last one: it only drains pending-apply.
ScanSkipped ==
  /\ scanDue /\ scanDue' = FALSE
  /\ running /\ scan.stage = "idle" /\ moved = {}
  /\ UNCHANGED <<vaultVars, pullVars, pending, dialogs, manifest, scan, session,
                 bounds>>
  /\ Moves

ScanVault ==
  /\ scanDue /\ scanDue' = FALSE
  /\ running /\ scan.stage = "idle" /\ moved # {} /\ mayRun("scan")
  /\ scan' = [noScan EXCEPT !.stage = "vault", !.has = (disk # None)]
  /\ UNCHANGED <<vaultVars, pullVars, pending, dialogs, manifest, session, bounds>>
  /\ Moves

ScanDocs ==
  /\ scan.stage = "vault" /\ mayRun("scan")
  /\ scan' = [scan EXCEPT !.stage = "docs", !.doc = doc]
  /\ UNCHANGED <<vaultVars, pullVars, pending, dialogs, manifest, scanDue, session,
                 bounds>>
  /\ Moves

\* latestDevice; which of the two device ids sorts first settles a tie.
lastWriter(d) == IF d.vclock[Self] > d.vclock[Peer] THEN Self ELSE Peer

\* classifyMissingFromVault: the last writer by the document's clock, or the
\* manifest, tells a deletion made here from a file this device never had.
ownDeletion(d) ==
  /\ manifest # "null"
  /\ lastWriter(d) = Self \/ manifest = "has"

chosen == reconcileDecision(IF scan.has THEN disk ELSE None, scan.doc, base,
                            scan.doc # None /\ ownDeletion(scan.doc))

\* fileToDb of a file the reconcile found changed.
tryPush == ReadFile /\ endEditorWait

\* A listed file that is gone when its turn comes is passed over.
passedOver == scan.has /\ disk = None

ScanAct ==
  /\ scan.stage = "docs" /\ mayRun("scan")
  /\ scan' = [scan EXCEPT !.stage = "acting"]
  /\ \/ /\ passedOver \/ chosen = "nothing"
        /\ UNCHANGED <<vaultVars, shown, scanDue>>
     \/ /\ ~passedOver /\ chosen = "push" /\ tryPush
        /\ UNCHANGED <<disk, doc, base, typed, timer, deleting, job, edits, history,
                       shown>>
     \/ /\ ~passedOver /\ chosen = "align" /\ Align(scan.doc)
        /\ UNCHANGED <<shown, scanDue>>
     \/ /\ ~passedOver /\ chosen = "adopt" /\ Adopt(scan.doc)
        /\ UNCHANGED <<shown, scanDue>>
     \/ /\ ~passedOver /\ chosen = "apply" /\ Start("scan", scan.doc, FALSE)
        /\ UNCHANGED <<disk, doc, base, events, recording, edits, history, shown,
                       scanDue>>
     \/ /\ ~passedOver /\ chosen = "delete" /\ MarkDeleted /\ endEditorWait
        /\ UNCHANGED <<disk, typed, timer, deleting, recording, job, edits, owed,
                       owedAt, madeOn, shown>>
     \/ /\ ~passedOver /\ chosen = "conflict"
        /\ \/ shown' = [doc |-> scan.doc, file |-> IF scan.has THEN disk ELSE None]
           \/ conflict # None /\ UNCHANGED shown   \* its dialog is open
        /\ UNCHANGED <<vaultVars, scanDue>>
  /\ UNCHANGED <<pullVars, pending, conflict, manifest, session, bounds>>
  /\ Moves

\* A live document goes through pending-apply, a tombstone to dbToFile itself.
ScanApplied ==
  /\ \E outcome \in {"applied", "declined", "failed"} :
       /\ at("scan", outcome)
       /\ pending' = CASE job["scan"].doc.deleted  -> pending
                       [] ~job["scan"].doc.deleted /\ outcome = "failed" -> "missing-chunks"
                       [] ~job["scan"].doc.deleted /\ outcome # "failed" -> "none"
       /\ IF recovers("scan", outcome) THEN autoResolve ELSE UNCHANGED dialogs
  /\ job' = [job EXCEPT !["scan"] = None]
  /\ UNCHANGED <<disk, doc, base, events, recording, edits, history, pullVars,
                 scanVars, session, bounds>>
  /\ Moves

\* The reconcile waits for what it started, a dialog's answer included.
ScanEnd ==
  /\ scan.stage = "acting" /\ job["scan"] = None /\ recording = {} /\ shown = None
  /\ manifest' = IF scan.has THEN "has" ELSE "lacks"
  /\ scan' = noScan
  /\ UNCHANGED <<vaultVars, pullVars, pending, dialogs, scanDue, session, bounds>>
  /\ Moves

-----------------------------------------------------------------------------
(***************************************************************************)
(* The dialogs. The reconcile's compares the file (or its absence) with    *)
(* the document; an answer whose document was replaced, or whose file is   *)
(* gone, writes nothing and asks for another reconcile. The dialogs of a   *)
(* path come one after the other: each waits for the write of the last.    *)
(***************************************************************************)
KeepVault ==
  \/ /\ shown.file # None /\ KeepFile(shown.doc) /\ UNCHANGED scanDue
  \/ /\ shown.file = None /\ KeepDeletion(shown.doc) /\ UNCHANGED scanDue
  \/ /\ ~stands(shown.doc) \/ (shown.file # None /\ disk = None)
     /\ scanDue' = TRUE /\ UNCHANGED vaultVars

TakeDoc ==
  \/ TakeDocToVault(shown.doc) /\ UNCHANGED scanDue
  \/ ~stands(shown.doc) /\ scanDue' = TRUE /\ UNCHANGED vaultVars

\* "Later" leaves everything as it is.
Answer ==
  /\ shown # None /\ job["dialog"] = None /\ mayRun("dialog") /\ shown' = None
  /\ KeepVault \/ TakeDoc \/ UNCHANGED <<vaultVars, scanDue>>
  /\ UNCHANGED <<pullVars, pending, conflict, manifest, scan, session, bounds>>
  /\ Moves

\* A pull conflict, shown with the document as it is (PushPipeline models what
\* a replaced one does); one that no longer stands is dropped.
AnswerPull ==
  /\ conflict # None /\ job["dialog"] = None /\ running /\ mayRun("dialog")
  /\ conflict' = None
  /\ \/ resolveOnPull(doc, conflict) = "concurrent"
        /\ (KeepLocalDoc(conflict) \/ TakeRemoteDoc(conflict))
     \/ resolveOnPull(doc, conflict) # "concurrent" /\ UNCHANGED vaultVars
  /\ UNCHANGED <<pullVars, pending, shown, scanVars, session, bounds>>
  /\ Moves

\* The dialog's write is done; one that was declined or failed is not retried.
DialogDone ==
  /\ \E outcome \in {"applied", "declined", "failed"} : at("dialog", outcome)
  /\ job' = [job EXCEPT !["dialog"] = None]
  /\ UNCHANGED <<disk, doc, base, events, recording, edits, history, replVars>>
  /\ Moves

-----------------------------------------------------------------------------
(***************************************************************************)
(* Sessions. What is not in the database is gone when the plugin stops. A  *)
(* new session records the files changed meanwhile (stampVaultDrift), and  *)
(* catches up before the first reconcile.                                  *)
(***************************************************************************)
Stop ==
  /\ running /\ session' = "closed" /\ stops(1)
  /\ typed' = None /\ awaiting' = FALSE /\ timer' = FALSE /\ deleting' = FALSE
  /\ recording' = {} /\ job' = [k \in Caller |-> None]
  /\ pulling' = None /\ judged' = (judged /\ pulling = None) /\ listed' = FALSE
  /\ shown' = None /\ scan' = noScan /\ scanDue' = FALSE
  /\ UNCHANGED <<disk, doc, base, edits, history, remote, pending, conflict, manifest,
                 peerWrites>>
  /\ Moves

StartUp ==
  /\ session = "closed" /\ session' = "stamp"
  /\ UNCHANGED <<vaultVars, pullVars, pending, dialogs, scanVars, bounds>>
  /\ Moves

drifted == disk # None /\ base # None /\ base.content \notin {None, disk}

StampVaultDrift ==
  /\ session = "stamp" /\ session' = "stamped" /\ mayRun("session")
  /\ \/ drifted /\ ReadFile /\ endEditorWait
        /\ UNCHANGED <<disk, doc, base, typed, timer, deleting, job, edits, history>>
     \/ ~drifted /\ UNCHANGED <<vaultVars, scanDue>>
  /\ UNCHANGED <<pullVars, pending, dialogs, manifest, scan, bounds>>
  /\ Moves

CatchUp ==
  /\ session = "stamped" /\ recording = {} /\ session' = "catchup"
  /\ UNCHANGED <<vaultVars, pullVars, pending, dialogs, scanVars, bounds>>
  /\ Moves

caughtUp == (judged \/ remote = None) /\ pulling = None /\ job["pull"] = None

\* Either way a reconcile follows; a session that failed is opened again.
CatchUpEnds ==
  /\ session = "catchup" /\ scanDue' = TRUE
  /\ \/ caughtUp /\ session' = "live" /\ UNCHANGED failures
     \/ pulling = None /\ job["pull"] = None /\ session' = "stamp" /\ stops(1)
  /\ UNCHANGED <<vaultVars, pullVars, pending, dialogs, manifest, scan, peerWrites>>
  /\ Moves

-----------------------------------------------------------------------------
\* What the pull writer does with a batch, from its verdict to the vault.
Pull == PullJudge \/ PullCommit \/ PullDone

Next ==
  \/ User \/ Tracker \/ Deliver \/ PeerWrites
  \/ Pull \/ Drain \/ DrainDone \/ Apply
  \/ ScanSkipped \/ ScanVault \/ ScanDocs \/ ScanAct \/ ScanApplied \/ ScanEnd
  \/ Answer \/ AnswerPull \/ DialogDone
  \/ Stop \/ StartUp \/ StampVaultDrift \/ CatchUp \/ CatchUpEnds

Spec == Init /\ [][Next]_vars

-----------------------------------------------------------------------------
(* Safety.                                                                 *)

(***************************************************************************)
(* The user's saved text is never lost: until the server has it, or the    *)
(* user deletes it or gives it up in a dialog, it is on the disk, or a     *)
(* document that descends from it is in the local database.                *)
(***************************************************************************)
NoLostEdit ==
  owed # None => IF owedAt = None THEN disk = owed
                 ELSE doc # None /\ Includes(doc.vclock, owedAt)

(***************************************************************************)
(* fileToDb never records a text over another device's text that it was    *)
(* made without.                                                           *)
(***************************************************************************)
RecordsOnlyOverSeen ==
  [][\A r \in recording :
        CommitRead(r) /\ doc # None /\ doc' # doc
          => doc.deleted \/ r.on[Peer] >= doc.vclock[Peer]]_vars

(***************************************************************************)
(* A tombstone this device writes without asking stands for a deletion the *)
(* user made, of a file that had seen what the tombstone replaces ...      *)
(***************************************************************************)
answers == shown' # shown \/ conflict' # conflict

tombstonesHere == /\ doc # None /\ ~doc.deleted /\ doc'.deleted /\ ~answers
                  /\ doc'.vclock[Self] > doc.vclock[Self]

theUserDeleted == removed # None /\ removed[Peer] >= doc.vclock[Peer]

NoPhantomTombstone == [][tombstonesHere => theUserDeleted]_vars

\* ... at least when the document came by a pull, and not by a dialog's choice
\* that left it beside the baseline.
NoPhantomAfterPull ==
  [][tombstonesHere /\ ~Concurrent(doc.vclock, baseClock(base)) => theUserDeleted]_vars

(***************************************************************************)
(* Where a deletion and another device's version cross, a tombstone that   *)
(* this device writes without asking replaces no version that its file had *)
(* never been made on (markDeleted's guard); with the same exception.      *)
(***************************************************************************)
NoBlindTombstone ==
  [][tombstonesHere /\ ~Concurrent(doc.vclock, baseClock(base))
       => madeOn[Peer] >= doc.vclock[Peer]]_vars

(***************************************************************************)
(* A file this device had synced and the user deleted is not written       *)
(* again before the deletion is recorded, unless the user chose to.        *)
(***************************************************************************)
NoUndoneDeletion ==
  [][\A k \in Caller :
        at(k, "write") /\ WriteDisk(k) /\ disk = None /\ disk' # None
          => job[k].over \/ removed = None \/ base \in {None, deletedBase(baseClock(base))}]_vars

=============================================================================
