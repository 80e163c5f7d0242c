---------------------------- MODULE PushPipeline ----------------------------
(***************************************************************************)
(* The live push of one device: PushPipeline.runOnce and pushDocs          *)
(* (src/db/sync/push-pipeline.ts) with the two things it persists, the     *)
(* push cursor and the unpushed set (checkpoints.ts, unpushed-ids.ts), the *)
(* session-scoped echo records (echo-tracker.ts), and what happens around  *)
(* a cycle while it awaits: the vault records edits and deletions, the     *)
(* pull commits remote versions, the user answers conflicts, the other     *)
(* devices write to the server, the session is torn down.                  *)
(*                                                                         *)
(* A cycle is cut at its round trips, in the code's order: enumerate the   *)
(* local changes, classify against the remote documents, fetch missing     *)
(* revisions, send the chunks, send the files, commit. Chunks are one per  *)
(* content and named by it. The other devices are one peer.                *)
(***************************************************************************)
EXTENDS SyncRelation

CONSTANTS
  File,           \* the file ids
  Self, Peer,     \* this device; all the others
  ServerErrors,   \* the rows the server may refuse with an error that is
                  \* not a conflict: a subset of {"file", "chunk"}
  PeerCreates,    \* whether the peer makes paths the server does not have
  VaultFails,     \* whether the vault may fail to take what the pull accepted
  MidCycle,       \* who writes the local database between the steps of a push
                  \* cycle: a subset of {"vault", "pull"}
  MaxEdits,       \* bound: edits and deletions recorded by this device
  MaxPeerWrites,  \* bound: versions the peer writes to the server
  MaxWrites,      \* bound: edits, deletions and the peer's versions together
  MaxFailures     \* bound: cycles that fail on a round trip, answers that fail,
                  \* and sessions ended

ASSUME DevicesAssumption == Self # Peer /\ Device = {Self, Peer}
ASSUME ErrorsAssumption  == ServerErrors \subseteq {"file", "chunk"}
ASSUME SwitchesAssumption == PeerCreates \in BOOLEAN /\ VaultFails \in BOOLEAN
ASSUME MidCycleAssumption == MidCycle \subseteq {"vault", "pull"}
ASSUME BoundsAssumption  == {MaxEdits, MaxPeerWrites, MaxWrites, MaxFailures} \subseteq Nat

RACE_STALE_ESCALATION_THRESHOLD == 3

VARIABLES
  localDoc, localSeq,   \* per file: the local document, its row's sequence
  bodySeq,              \* per content: the sequence of its chunk row, 0 if none
  seq,                  \* the local database's update sequence
  cursor, unpushed,     \* lastPushedSeq; per file: None or its retry entry
  echo,                 \* per file: the sequence of the last pull write, or 0
  pulled,               \* per file: the server revision the pull has judged
  remoteDoc, remoteRev, \* per file: the server's document and its revision
  remoteBody,           \* the contents whose chunk the server holds
  peerMade,             \* per file: how many versions of it the peer has made
  asked, stash,         \* per file: the conflict before the user, and a newer
                        \* one that came meanwhile (pendingUpdates), or None
  pendingConflict,      \* per file: None or the kind of its durable record
  presented,            \* the files whose record this session has presented
  owed,                 \* the files with a record of a version the vault has
                        \* not taken (pending-apply)
  dropped,              \* the files whose conflict record went without an
                        \* answer, since the pull last judged a version
  backfilled,           \* the flag of the one-time push backfill
  stage,                \* where the cycle is
  upTo,                 \* the cursor this cycle will commit (last_seq)
  batch,                \* per file: the document to push, or None
  revOf,                \* per file: the revision it is sent over, 0 if none
  bodies,               \* the chunks to push
  add, remove,          \* this cycle's changes of the unpushed set
  edits, peerWrites, failures   \* how much of each bound is used

local  == <<localDoc, localSeq, bodySeq, seq>>
saved  == <<cursor, unpushed>>
server == <<remoteDoc, remoteRev, remoteBody, peerMade>>
dialog == <<asked, stash, pendingConflict, presented>>
late   == <<owed, dropped>>
cycle  == <<stage, upTo, batch, revOf, bodies, add, remove>>
bounds == <<edits, peerWrites, failures>>
vars   == <<local, saved, echo, pulled, server, dialog, late, backfilled, cycle, bounds>>

\* attempts is only compared with the threshold, so it is counted up to it.
Entry    == [reason : {"race-stale", "divergent"},
             attempts : 0..RACE_STALE_ESCALATION_THRESHOLD]
ASSUME NoneIsNoEntry == None \notin Entry

Conflict == [local : Doc, remote : Doc]
Kind     == {"pull-delete-vs-edit", "local-delete-vs-remote-edit", "edit-vs-edit"}
Stage    == {"warmup", "backfill", "idle", "classify", "revs", "chunks", "files", "commit"}
ASSUME NoneIsNoKind == None \notin Kind

PushTypeOK ==
  /\ localDoc \in [File -> Doc \cup {None}] /\ localSeq \in [File -> Nat]
  /\ bodySeq \in [Content -> Nat] /\ seq \in Nat
  /\ cursor \in Nat /\ unpushed \in [File -> Entry \cup {None}]
  /\ echo \in [File -> Nat] /\ pulled \in [File -> Nat]
  /\ remoteDoc \in [File -> Doc \cup {None}] /\ remoteRev \in [File -> Nat]
  /\ remoteBody \subseteq Content /\ peerMade \in [File -> Nat]
  /\ asked \in [File -> Conflict \cup {None}] /\ stash \in [File -> Conflict \cup {None}]
  /\ pendingConflict \in [File -> Kind \cup {None}] /\ presented \subseteq File
  /\ owed \subseteq File /\ dropped \subseteq File /\ backfilled \in BOOLEAN
  /\ stage \in Stage /\ upTo \in Nat
  /\ batch \in [File -> Doc \cup {None}] /\ revOf \in [File -> Nat]
  /\ bodies \subseteq Content
  /\ add \in [File -> Entry \cup {None}] /\ remove \subseteq File
  /\ edits \in Nat /\ peerWrites \in Nat /\ failures \in Nat

noneFor == [f \in File |-> None]
zeroFor == [f \in File |-> 0]

Init ==
  /\ localDoc = noneFor /\ localSeq = zeroFor
  /\ bodySeq = [c \in Content |-> 0] /\ seq = 0
  /\ cursor = 0 /\ unpushed = noneFor
  /\ echo = zeroFor /\ pulled = zeroFor
  /\ remoteDoc = noneFor /\ remoteRev = zeroFor
  /\ remoteBody = {} /\ peerMade = zeroFor
  /\ asked = noneFor /\ stash = noneFor
  /\ pendingConflict = noneFor /\ presented = {} /\ owed = {} /\ dropped = {}
  /\ backfilled = FALSE
  /\ stage = "warmup" /\ upTo = 0 /\ batch = noneFor /\ revOf = zeroFor
  /\ bodies = {} /\ add = noneFor /\ remove = {}
  /\ edits = 0 /\ peerWrites = 0 /\ failures = 0

-----------------------------------------------------------------------------
(* Around the cycle: the vault, the pull, the user and the other devices.  *)

\* A transaction that writes f's document; its rows get the next sequence.
CommitLocal(f, doc) ==
  /\ seq' = seq + 1
  /\ localDoc' = [localDoc EXCEPT ![f] = doc]
  /\ localSeq' = [localSeq EXCEPT ![f] = seq + 1]

mayWrite(who) == who \in MidCycle \/ stage \in {"warmup", "backfill", "idle"}

writesLeft == edits + peerWrites < MaxWrites

ownClock(f) == IF localDoc[f] = None THEN ZeroClock ELSE localDoc[f].vclock

\* fileToDb of a vault edit: chunks put if absent, document over the old one.
RecordEdit(f, c) ==
  /\ edits < MaxEdits /\ writesLeft /\ mayWrite("vault")
  /\ localDoc[f] # None => localDoc[f].deleted \/ localDoc[f].content # c
  /\ CommitLocal(f, [content |-> c, deleted |-> FALSE,
                     vclock |-> incrementVC(ownClock(f), Self)])
  /\ bodySeq' = [bodySeq EXCEPT ![c] = IF @ = 0 THEN seq + 1 ELSE @]
  /\ edits' = edits + 1
  /\ UNCHANGED <<saved, echo, pulled, server, dialog, late, backfilled, cycle, peerWrites, failures>>

\* markDeleted of a vault deletion.
RecordDeletion(f) ==
  /\ edits < MaxEdits /\ writesLeft /\ mayWrite("vault")
  /\ localDoc[f] # None /\ ~localDoc[f].deleted
  /\ CommitLocal(f, [localDoc[f] EXCEPT !.deleted = TRUE,
                                        !.vclock = incrementVC(@, Self)])
  /\ edits' = edits + 1
  /\ UNCHANGED <<bodySeq, saved, echo, pulled, server, dialog, late, backfilled, cycle,
                 peerWrites, failures>>

\* handleConcurrent: a conflict is shown, or waits behind the one being shown.
OfferAll(conflict) ==
  /\ asked' = [f \in File |-> IF asked[f] = None THEN conflict[f] ELSE asked[f]]
  /\ stash' = [f \in File |->
       IF asked[f] # None /\ conflict[f] # None THEN conflict[f] ELSE stash[f]]

Offer(f, conflict) == OfferAll([noneFor EXCEPT ![f] = conflict])

kindOf(l, r) ==
  IF r.deleted THEN "pull-delete-vs-edit"
  ELSE IF l.deleted THEN "local-delete-vs-remote-edit" ELSE "edit-vs-edit"

(***************************************************************************)
(* The pull judges a version of f it has not seen. What it accepts it      *)
(* commits and notes as its own write (recordPullWrites), with a record of *)
(* what the vault may fail to take: a deletion, and a version whose chunk  *)
(* is not here yet. If the vault took the version, an open dialog is       *)
(* closed and the conflict's record dropped (AutoResolve); it may decline  *)
(* it, or fail. A conflict is recorded with the pull cursor and offered.   *)
(* Chunks of a pulled version enter the local database after this commit,  *)
(* in ensureChunks, with a sequence of their own.                          *)
(***************************************************************************)
AutoResolve(f) == /\ asked' = [asked EXCEPT ![f] = None]
                  /\ pendingConflict' = [pendingConflict EXCEPT ![f] = None]

\* The same without an accepted version: a record that is there goes unanswered.
DropConflict(f) == /\ AutoResolve(f)
                   /\ dropped' = IF pendingConflict[f] = None THEN dropped
                                                              ELSE dropped \cup {f}

mayBeOwed(doc) == doc.deleted \/ bodySeq[doc.content] = 0

PullFile(f) ==
  /\ stage # "backfill" /\ mayWrite("pull")
  /\ remoteDoc[f] # None /\ remoteRev[f] > pulled[f]
  /\ pulled' = [pulled EXCEPT ![f] = remoteRev[f]]
  /\ dropped' = dropped \ {f}
  /\ LET verdict  == resolveOnPull(localDoc[f], remoteDoc[f])
     IN \/ /\ verdict \in {"take-remote", "silent-merge"}
           /\ CommitLocal(f, acceptedOnPull(localDoc[f], remoteDoc[f]))
           /\ echo' = [echo EXCEPT ![f] = seq + 1]
           /\ LET recorded == IF mayBeOwed(remoteDoc[f]) THEN {f} ELSE {}
              IN \/ AutoResolve(f) /\ owed' = owed \ recorded
                 \/ UNCHANGED <<asked, pendingConflict>> /\ owed' = owed \ recorded
                 \/ /\ VaultFails /\ UNCHANGED <<asked, pendingConflict>>
                    /\ owed' = owed \cup recorded
           /\ UNCHANGED <<stash, presented>>
        \/ /\ verdict = "concurrent"
           /\ Offer(f, [local |-> localDoc[f], remote |-> remoteDoc[f]])
           /\ pendingConflict' =
                [pendingConflict EXCEPT ![f] = kindOf(localDoc[f], remoteDoc[f])]
           /\ presented' = presented \cup {f}
           /\ UNCHANGED <<seq, localDoc, localSeq, echo, owed>>
        \/ /\ verdict = "keep-local"
           /\ UNCHANGED <<seq, localDoc, localSeq, echo, dialog, owed>>
  /\ UNCHANGED <<bodySeq, saved, server, backfilled, cycle, bounds>>

EnsureChunks(f) ==
  /\ localDoc[f] # None /\ ~localDoc[f].deleted /\ mayWrite("pull")
  /\ bodySeq[localDoc[f].content] = 0 /\ localDoc[f].content \in remoteBody
  /\ seq' = seq + 1
  /\ bodySeq' = [bodySeq EXCEPT ![localDoc[f].content] = seq + 1]
  /\ UNCHANGED <<localDoc, localSeq, saved, echo, pulled, server, dialog, late, backfilled,
                 cycle, bounds>>

(***************************************************************************)
(* A later pass takes up what the vault still owes (PendingApply.apply, in *)
(* the drain of a pull cycle or in a reconcile): the document as it is now *)
(* reaches the vault or is declined by it, and the path's conflict counts  *)
(* as settled, whichever version that conflict is about (onRecovered).     *)
(* The drain of a deletion, and a record that no longer applies, settle    *)
(* nothing.                                                                *)
(***************************************************************************)
VaultCatchesUp(f) ==
  /\ stage # "backfill" /\ f \in owed
  /\ owed' = owed \ {f}
  /\ \/ /\ localDoc[f].deleted \/ bodySeq[localDoc[f].content] # 0
        /\ DropConflict(f)
     \/ UNCHANGED <<asked, pendingConflict, dropped>>
  /\ UNCHANGED <<local, saved, echo, pulled, server, stash, presented, backfilled,
                 cycle, bounds>>

(***************************************************************************)
(* drainPendingConflict: a record no dialog of this session was opened for *)
(* is presented again, a deletion as a tombstone without a clock, or       *)
(* dropped when the two versions no longer conflict.                       *)
(***************************************************************************)
fakeTombstone(l) == [l EXCEPT !.deleted = TRUE, !.vclock = ZeroClock]

stillConflicts_alive(f) ==
  /\ localDoc[f] # None /\ ~localDoc[f].deleted /\ remoteDoc[f] # None /\ ~remoteDoc[f].deleted
  /\ resolveOnPull(localDoc[f], remoteDoc[f]) = "concurrent"
stillConflicts(f) ==
  /\ localDoc[f] # None
  /\ IF pendingConflict[f] = "pull-delete-vs-edit"
       THEN ~localDoc[f].deleted
       ELSE /\ localDoc[f].deleted <=> pendingConflict[f] = "local-delete-vs-remote-edit"
            /\ remoteDoc[f] # None /\ ~remoteDoc[f].deleted
            /\ resolveOnPull(localDoc[f], remoteDoc[f]) = "concurrent"

PresentAgain(f) ==
  /\ stage # "backfill"
  /\ pendingConflict[f] # None /\ f \notin presented
  /\ \/ /\ stillConflicts(f)
        /\ Offer(f, [local  |-> localDoc[f],
                     remote |-> IF pendingConflict[f] = "pull-delete-vs-edit"
                                  THEN fakeTombstone(localDoc[f]) ELSE remoteDoc[f]])
        /\ presented' = presented \cup {f}
        /\ UNCHANGED pendingConflict
     \/ /\ ~stillConflicts(f)
        /\ pendingConflict' = [pendingConflict EXCEPT ![f] = None]
        /\ UNCHANGED <<asked, stash, presented>>
  /\ UNCHANGED <<local, saved, echo, pulled, server, late, backfilled, cycle, bounds>>

(***************************************************************************)
(* The user answers the conflict of f (applyConflictChoice). The choice is *)
(* written only over the version the dialog showed (commitOverShown), with *)
(* a clock newer than both sides, except for a remote edit taken as it is. *)
(***************************************************************************)
decidedClock(l, r) == incrementVC(mergeVC(l.vclock, r.vclock), Self)

takenRemote(l, r) ==
  IF r.deleted THEN [r EXCEPT !.vclock = decidedClock(l, r)] ELSE r

shownStands(f) == localDoc[f] # None /\ localDoc[f].vclock = asked[f].local.vclock

Answer(f) ==
  /\ asked[f] # None /\ shownStands(f) /\ mayWrite("vault")
  /\ \/ CommitLocal(f, [localDoc[f] EXCEPT !.vclock = decidedClock(asked[f].local, asked[f].remote)])
     \/ CommitLocal(f, takenRemote(asked[f].local, asked[f].remote))
  /\ asked' = [asked EXCEPT ![f] = None]
  /\ pendingConflict' = [pendingConflict EXCEPT ![f] = None]
  /\ UNCHANGED <<bodySeq, saved, echo, pulled, server, stash, presented, late, backfilled,
                 cycle, bounds>>

\* The conflict fails: a chunk for the dialog cannot be read, or the choice
\* throws before anything is written. It counts as resolved (handleConcurrent,
\* processSingle): its record is dropped.
AnswerFails(f) ==
  /\ asked[f] # None /\ failures < MaxFailures
  /\ failures' = failures + 1
  /\ DropConflict(f)
  /\ UNCHANGED <<local, saved, echo, pulled, server, stash, presented, owed, backfilled,
                 cycle, edits, peerWrites>>

\* The local version moved while the dialog was open: nothing is written, and
\* the conflict is judged again unless a newer one waits (localVersionMoved).
AnswerSuperseded(f) ==
  /\ asked[f] # None /\ ~shownStands(f)
  /\ asked' = [asked EXCEPT ![f] = None]
  /\ stash' = [stash EXCEPT ![f] = IF @ = None THEN asked[f] ELSE @]
  /\ UNCHANGED <<local, saved, echo, pulled, server, pendingConflict, presented,
                 late, backfilled, cycle, bounds>>

\* The user closes the dialog with "Later".
Defer(f) ==
  /\ asked[f] # None
  /\ asked' = [asked EXCEPT ![f] = None]
  /\ UNCHANGED <<local, saved, echo, pulled, server, stash, pendingConflict, presented,
                 late, backfilled, cycle, bounds>>

(***************************************************************************)
(* recheckStashed: once the dialog is closed, the version that waited is   *)
(* judged against the local document as it is now, and offered, taken      *)
(* without a dialog, or dropped.                                           *)
(***************************************************************************)
offeredAgain(l, r) ==
  IF r.deleted /\ r.vclock = ZeroClock THEN ~l.deleted
                                       ELSE resolveOnPull(l, r) = "concurrent"

takenSilently(l, r) ==
  /\ ~(r.deleted /\ r.vclock = ZeroClock)
  /\ \/ resolveOnPull(l, r) = "take-remote"
     \/ resolveOnPull(l, r) = "silent-merge" /\ Dominates(r.vclock, l.vclock)

RecheckStashed(f) ==
  /\ asked[f] = None /\ stash[f] # None /\ localDoc[f] # None /\ mayWrite("vault")
  /\ stash' = [stash EXCEPT ![f] = None]
  /\ LET l == localDoc[f]
         r == stash[f].remote
     IN \/ /\ offeredAgain(l, r)
           /\ asked' = [asked EXCEPT ![f] = [local |-> l, remote |-> r]]
           /\ UNCHANGED <<seq, localDoc, localSeq>>
        \/ /\ takenSilently(l, r)
           /\ CommitLocal(f, takenRemote(l, r))
           /\ UNCHANGED asked
        \/ /\ ~offeredAgain(l, r) /\ ~takenSilently(l, r)
           /\ UNCHANGED <<seq, localDoc, localSeq, asked>>
  /\ UNCHANGED <<bodySeq, saved, echo, pulled, server, pendingConflict, presented,
                 late, backfilled, cycle, bounds>>

(***************************************************************************)
(* The peer pushes a version of f: on the server's version, which it has   *)
(* pulled, or on none; with its chunk first.                               *)
(***************************************************************************)
PeerWrites(f, c, deleted) ==
  /\ peerWrites < MaxPeerWrites /\ writesLeft
  /\ remoteDoc[f] = None => PeerCreates /\ ~deleted
  /\ deleted => ~remoteDoc[f].deleted /\ remoteDoc[f].content = c
  /\ LET known == IF remoteDoc[f] = None THEN ZeroClock ELSE remoteDoc[f].vclock
     IN remoteDoc' = [remoteDoc EXCEPT ![f] =
          [content |-> c, deleted |-> deleted,
           vclock |-> [known EXCEPT ![Peer] = peerMade[f] + 1]]]
  /\ peerMade' = [peerMade EXCEPT ![f] = @ + 1]
  /\ remoteRev' = [remoteRev EXCEPT ![f] = @ + 1]
  /\ remoteBody' = IF deleted THEN remoteBody ELSE remoteBody \cup {c}
  /\ peerWrites' = peerWrites + 1
  /\ UNCHANGED <<local, saved, echo, pulled, dialog, late, backfilled, cycle, edits, failures>>

-----------------------------------------------------------------------------
(* One cycle of runOnce.                                                   *)

\* [1]-[4]: the local changes past the cursor that are no pull echoes, with
\* every id of the unpushed set; all changes seen are swept from the echoes.
changed_late(f) == localDoc[f] # None /\ localSeq[f] > cursor + 1
changed(f)      == localDoc[f] # None /\ localSeq[f] > cursor

changedBodies_late == {c \in Content : bodySeq[c] > cursor + 1}
changedBodies      == {c \in Content : bodySeq[c] > cursor}

isPullEcho_wide(f) == localSeq[f] <= echo[f] + 1
isPullEcho(f)      == localSeq[f] <= echo[f]

sweepPullWritten_never == echo' = echo
sweepPullWritten       == echo' = [f \in File |-> IF changed(f) THEN 0 ELSE echo[f]]

Enumerate ==
  /\ stage = "idle"
  /\ batch' = [f \in File |->
       IF (changed(f) /\ ~isPullEcho(f)) \/ unpushed[f] # None
         THEN localDoc[f] ELSE None]
  /\ bodies' = changedBodies
  /\ sweepPullWritten
  /\ upTo' = seq
  /\ revOf' = zeroFor /\ add' = noneFor /\ remove' = {}
  /\ stage' = "classify"
  /\ UNCHANGED <<local, saved, pulled, server, dialog, late, backfilled, bounds>>

attemptsOf(f) == IF unpushed[f] = None THEN 0 ELSE unpushed[f].attempts
attemptsNext(f) == IF attemptsOf(f) < RACE_STALE_ESCALATION_THRESHOLD
                     THEN attemptsOf(f) + 1 ELSE RACE_STALE_ESCALATION_THRESHOLD

(***************************************************************************)
(* [5]-[8]: classify the batch against the remote documents. A race-stale  *)
(* entry that has been retried to the threshold is escalated: it is no     *)
(* longer sent, and it is presented if the server has a version of it.     *)
(***************************************************************************)
escalates(f) == /\ unpushed[f] # None /\ unpushed[f].reason = "race-stale"
                /\ unpushed[f].attempts >= RACE_STALE_ESCALATION_THRESHOLD

ClassifyFiles ==
  /\ stage = "classify"
  /\ LET class(f)   == classifyForPush(batch[f], remoteDoc[f])
         inBatch    == {f \in File : batch[f] # None}
         proceed    == {f \in inBatch : class(f) = "proceed" /\ ~escalates(f)}
         divergent  == {f \in inBatch :
                          \/ class(f) = "divergent"
                          \/ class(f) = "proceed" /\ escalates(f)}
     IN /\ remove' = {f \in inBatch : class(f) = "skip"}
        /\ add' = [f \in File |->
             IF f \in divergent
               THEN [reason |-> "divergent", attempts |-> attemptsNext(f)] ELSE None]
        /\ OfferAll([f \in File |->
             IF f \in divergent /\ remoteDoc[f] # None
               THEN [local |-> batch[f], remote |-> remoteDoc[f]] ELSE None])
        /\ batch' = [f \in File |-> IF f \in proceed THEN batch[f] ELSE None]
        /\ revOf' = [f \in File |->
             IF f \in proceed /\ remoteDoc[f] # None THEN remoteRev[f] ELSE 0]
        /\ stage' = IF proceed = {} /\ bodies = {} THEN "commit" ELSE "revs"
  /\ UNCHANGED <<local, saved, echo, pulled, server, pendingConflict, presented, late, backfilled,
                 upTo, bodies, bounds>>

\* pushDocs: the revision of each file that came without one; the chunks the
\* server already holds are not sent.
revFor_fresh(f) == remoteRev[f]
revFor(f)       == IF revOf[f] = 0 THEN remoteRev[f] ELSE revOf[f]

FetchRevs ==
  /\ stage = "revs"
  /\ revOf' = [f \in File |-> IF batch[f] # None THEN revFor(f) ELSE revOf[f]]
  /\ bodies' = bodies \ remoteBody
  /\ stage' = "chunks"
  /\ UNCHANGED <<local, saved, echo, pulled, server, dialog, late, backfilled, upTo, batch, add, remove, bounds>>

conflictEntry(f) == [reason |-> "race-stale", attempts |-> attemptsNext(f)]

\* Phase 1: the chunks. A file whose chunk hard-failed is withheld, as if its
\* row had been a conflict.
SendChunks ==
  /\ stage = "chunks"
  /\ \E failed \in SUBSET (IF "chunk" \in ServerErrors THEN bodies ELSE {}) :
       LET withheld == {f \in File : batch[f] # None /\ batch[f].content \in failed}
       IN /\ remoteBody' = remoteBody \cup (bodies \ failed)
          /\ batch' = [f \in File |-> IF f \in withheld THEN None ELSE batch[f]]
          /\ add' = [f \in File |-> IF f \in withheld THEN conflictEntry(f) ELSE add[f]]
  /\ stage' = "files"
  /\ UNCHANGED <<local, saved, echo, pulled, remoteDoc, remoteRev, peerMade, dialog, late, backfilled,
                 upTo, revOf, bodies, remove, bounds>>

(***************************************************************************)
(* Phase 2: bulkDocs of the surviving files. The server takes a row whose  *)
(* revision is the current one and answers any other with a conflict; it   *)
(* may refuse a row, which leaves no trace in the cycle's result.          *)
(***************************************************************************)
ServerTakes(rows) ==
  /\ remoteDoc' = [f \in File |-> IF f \in rows THEN batch[f] ELSE remoteDoc[f]]
  /\ remoteRev' = [f \in File |-> IF f \in rows THEN remoteRev[f] + 1 ELSE remoteRev[f]]

current(f) == revOf[f] = remoteRev[f]

SendFiles ==
  /\ stage = "files"
  /\ LET sent == {f \in File : batch[f] # None}
     IN \E refused \in SUBSET (IF "file" \in ServerErrors THEN sent ELSE {}) :
          LET taken == {f \in sent \ refused : current(f)}
              stale == {f \in sent \ refused : ~current(f)}
          IN /\ ServerTakes(taken)
             /\ remove' = remove \cup taken
             /\ add' = [f \in File |-> IF f \in stale THEN conflictEntry(f) ELSE add[f]]
  /\ stage' = "commit"
  /\ UNCHANGED <<local, saved, echo, pulled, remoteBody, peerMade, dialog, late, backfilled,
                 upTo, batch, revOf, bodies, bounds>>

\* [10]: commitPushCycle writes the cursor and the set in one transaction;
\* removals first, so an id flagged again in the cycle stays.
lastSeq == upTo

Commit ==
  /\ stage = "commit"
  /\ cursor' = lastSeq
  /\ unpushed' = [f \in File |->
       IF add[f] # None THEN add[f]
       ELSE IF f \in remove THEN None ELSE unpushed[f]]
  /\ stage' = "idle"
  /\ batch' = noneFor /\ bodies' = {} /\ revOf' = zeroFor
  /\ add' = noneFor /\ remove' = {} /\ upTo' = 0
  /\ UNCHANGED <<local, echo, pulled, server, dialog, late, backfilled, bounds>>

-----------------------------------------------------------------------------
(* Failures and the session.                                               *)

DropCycle == /\ batch' = noneFor /\ bodies' = {} /\ revOf' = zeroFor
             /\ add' = noneFor /\ remove' = {} /\ upTo' = 0

\* A round trip throws: nothing is committed, the next poll starts over.
CycleFails ==
  /\ stage \in {"classify", "revs", "chunks", "files"} /\ failures < MaxFailures
  /\ failures' = failures + 1
  /\ stage' = "idle" /\ DropCycle
  /\ UNCHANGED <<local, saved, echo, pulled, server, dialog, late, backfilled, edits, peerWrites>>

\* The rows reached the server, its answer did not reach the device.
AnswerLost ==
  /\ stage \in {"chunks", "files"} /\ failures < MaxFailures
  /\ failures' = failures + 1
  /\ IF stage = "chunks"
       THEN remoteBody' = remoteBody \cup bodies /\ UNCHANGED <<remoteDoc, remoteRev>>
       ELSE /\ ServerTakes({f \in File : batch[f] # None /\ current(f)})
            /\ UNCHANGED remoteBody
  /\ stage' = "idle" /\ DropCycle
  /\ UNCHANGED <<local, saved, echo, pulled, peerMade, dialog, late, backfilled, edits, peerWrites>>

\* The session is torn down and another opened: its echo records are gone, and
\* the records of conflicts count as not presented.
SessionRestarts ==
  /\ failures < MaxFailures
  /\ failures' = failures + 1
  /\ stage' = "warmup" /\ DropCycle
  /\ echo' = zeroFor /\ presented' = {}
  /\ UNCHANGED <<local, saved, pulled, server, asked, stash, pendingConflict, late, backfilled,
                 edits, peerWrites>>

\* The app is killed and started again: the dialogs are gone too.
ProcessRestarts ==
  /\ failures < MaxFailures
  /\ failures' = failures + 1
  /\ stage' = "warmup" /\ DropCycle
  /\ echo' = zeroFor /\ presented' = {}
  /\ asked' = noneFor /\ stash' = noneFor
  /\ UNCHANGED <<local, saved, pulled, server, pendingConflict, late, backfilled,
                 edits, peerWrites>>

\* warmup: drop the entries that have converged; the cursor stays.
Warmup ==
  /\ stage = "warmup"
  /\ unpushed' = [f \in File |->
       IF unpushed[f] # None /\ classifyForPush(localDoc[f], remoteDoc[f]) = "skip"
         THEN None ELSE unpushed[f]]
  /\ stage' = "backfill"
  /\ UNCHANGED <<local, cursor, echo, pulled, server, dialog, late, backfilled, upTo, batch,
                 revOf, bodies, add, remove, bounds>>

\* warmup's classify fails: the set is left as it is.
WarmupFails ==
  /\ stage = "warmup" /\ failures < MaxFailures
  /\ failures' = failures + 1
  /\ stage' = "backfill"
  /\ UNCHANGED <<local, saved, echo, pulled, server, dialog, late, backfilled, upTo, batch,
                 revOf, bodies, add, remove, edits, peerWrites>>

(***************************************************************************)
(* runPushBackfill: the documents the server lacks or is behind of, and    *)
(* that have no entry, get one. Once per device, with the flag in the same *)
(* transaction; a failure leaves it to the next session. The command that  *)
(* repairs the vault sweeps again at any time of a session.                *)
(***************************************************************************)
backfillTargets ==
  {f \in File : /\ localDoc[f] # None
                /\ \/ remoteDoc[f] = None
                   \/ Dominates(localDoc[f].vclock, remoteDoc[f].vclock)}

EnqueueTargets ==
  unpushed' = [f \in File |->
    IF f \in backfillTargets /\ unpushed[f] = None
      THEN [reason |-> "race-stale", attempts |-> 0] ELSE unpushed[f]]

Backfill ==
  /\ stage = "backfill"
  /\ stage' = "idle"
  /\ \/ backfilled /\ UNCHANGED <<unpushed, backfilled, failures>>
     \/ ~backfilled /\ EnqueueTargets /\ backfilled' = TRUE /\ UNCHANGED failures
     \/ /\ ~backfilled /\ failures < MaxFailures /\ failures' = failures + 1
        /\ UNCHANGED <<unpushed, backfilled>>
  /\ UNCHANGED <<local, cursor, echo, pulled, server, dialog, late, upTo, batch, revOf, bodies,
                 add, remove, edits, peerWrites>>

BackfillNow ==
  /\ stage \notin {"warmup", "backfill"}
  /\ EnqueueTargets /\ backfilled' = TRUE
  /\ UNCHANGED <<local, cursor, echo, pulled, server, dialog, late, cycle, bounds>>

-----------------------------------------------------------------------------
UserAnswers(f) == Answer(f) \/ AnswerSuperseded(f) \/ Defer(f)

Environment ==
  \/ \E f \in File, c \in Content : RecordEdit(f, c)
  \/ \E f \in File : RecordDeletion(f)
  \/ \E f \in File : UserAnswers(f)
  \/ \E f \in File, c \in Content, deleted \in BOOLEAN : PeerWrites(f, c, deleted)
  \/ BackfillNow

PullStep == \E f \in File : PullFile(f) \/ EnsureChunks(f) \/ VaultCatchesUp(f) \/ PresentAgain(f) \/ RecheckStashed(f)

CycleStep == \/ Warmup \/ Backfill
             \/ Enumerate \/ ClassifyFiles \/ FetchRevs \/ SendChunks \/ SendFiles \/ Commit

Failure == (\E f \in File : AnswerFails(f)) \/ CycleFails \/ AnswerLost \/ SessionRestarts \/ ProcessRestarts \/ WarmupFails

Next == Environment \/ PullStep \/ CycleStep \/ Failure

Spec == Init /\ [][Next]_vars

(***************************************************************************)
(* The two loops of a session keep polling (PushPipeline.run, PullPipeline *)
(* runLongpoll) and a closed dialog is followed by the recheck (drain's    *)
(* finally); users, peers and failures are not obliged to act.             *)
(***************************************************************************)
Fairness == /\ WF_vars(CycleStep)
            /\ \A f \in File : WF_vars(PullFile(f)) /\ WF_vars(RecheckStashed(f))

FairSpec == Spec /\ Fairness

-----------------------------------------------------------------------------
(* Properties.                                                             *)

\* Nothing of f is left for the push to look at.
atRest(f) == localDoc[f] # None /\ localSeq[f] <= cursor /\ unpushed[f] = None

\* The server has f, and there is nothing of f to send.
onServer(f) == /\ remoteDoc[f] # None
               /\ classifyForPush(localDoc[f], remoteDoc[f]) # "proceed"

(***************************************************************************)
(* What the cursor has passed and the unpushed set does not hold is on the *)
(* server: no version this device recorded is forgotten, whatever edits,   *)
(* pulls, answers and failures fall between the round trips of a cycle     *)
(* (checkpoints.ts:173-177: "an id is unpushed iff its meta entry exists,  *)
(* and the cursor reflects every cycle that changed state").               *)
(***************************************************************************)
NoForgottenPush == \A f \in File : atRest(f) => onServer(f)

\* Both loops have judged the versions of f as they are now.
passedByBoth(f) == atRest(f) /\ pulled[f] = remoteRev[f]

\* The two ends hold the same state of f, or the user is told that they do not.
agreedOrShown(f) ==
  \/ remoteDoc[f] # None /\ sameState(localDoc[f], remoteDoc[f])
  \/ asked[f] # None \/ stash[f] # None \/ pendingConflict[f] # None

(***************************************************************************)
(* A divergence is never dropped by both loops: a file the push has        *)
(* nothing left for, and whose server version the pull has judged, is the  *)
(* same state on both ends, or its conflict is shown, waits, or has its    *)
(* durable record (pending-conflict.ts:14-24). The exception is a record   *)
(* that went without an answer (dropped): one whose answer failed, or one  *)
(* that an older version, taken late by the vault, was counted for.        *)
(***************************************************************************)
NoSilentDivergence ==
  \A f \in File : passedByBoth(f) => agreedOrShown(f) \/ f \in dropped

(***************************************************************************)
(* The same without the exception: the pull cursor never moves past a      *)
(* version "without either resolving it or remembering it for              *)
(* re-presentation" (pending-conflict.ts:16-20). It does not hold: an      *)
(* answer that fails counts as one that resolved the conflict.             *)
(***************************************************************************)
NoConflictForgotten == \A f \in File : passedByBoth(f) => agreedOrShown(f)

(***************************************************************************)
(* The push order contract (push-pipeline.ts:40-48): a file the server     *)
(* shows has its chunk there.                                              *)
(***************************************************************************)
ChunksFirst ==
  \A f \in File :
    remoteDoc[f] # None /\ ~remoteDoc[f].deleted => remoteDoc[f].content \in remoteBody

(***************************************************************************)
(* A version on the server is only replaced by one that has seen it: the   *)
(* push never overwrites a version another device pushed meanwhile, which  *)
(* would be lost without a conflict (push-pipeline.ts:18-25).              *)
(***************************************************************************)
ServerMovesForward ==
  [][\A f \in File :
       remoteDoc[f] # None /\ remoteDoc'[f] # remoteDoc[f]
         => Dominates(remoteDoc'[f].vclock, remoteDoc[f].vclock)]_vars

(***************************************************************************)
(* What is pushed or pulled settles: once users, peers and failures are    *)
(* quiet, every file ends in the same state on both ends, or as a conflict *)
(* that is before the user, recorded for later, or presented again by each *)
(* cycle. No retry loops for ever without surfacing                        *)
(* (push-pipeline.ts:27-32).                                               *)
(***************************************************************************)
settled(f) ==
  \/ localDoc[f] = None /\ remoteDoc[f] = None
  \/ /\ localDoc[f] # None /\ remoteDoc[f] # None
     /\ sameState(localDoc[f], remoteDoc[f])
  \/ asked[f] # None
  \/ pendingConflict[f] # None
  \/ unpushed[f] # None /\ unpushed[f].reason = "divergent"
  \/ f \in dropped

EventuallySettled == <>[](\A f \in File : settled(f))

-----------------------------------------------------------------------------
(***************************************************************************)
(* The inductive invariant behind NoForgottenPush, where the pull does not *)
(* write in mid-cycle and the server refuses no file row. It follows the   *)
(* local version of a file from the change feed to the commit.             *)
(***************************************************************************)
InCycle == stage \in {"classify", "revs", "chunks", "files", "commit"}

\* No clock knows of more versions of the peer than it has made.
PeerKnown(f, doc) == doc # None => doc.vclock[Peer] <= peerMade[f]

ConflictKnown(f, c) == c # None => PeerKnown(f, c.local) /\ PeerKnown(f, c.remote)

ClocksKnown ==
  \A f \in File :
    /\ PeerKnown(f, localDoc[f]) /\ PeerKnown(f, remoteDoc[f]) /\ PeerKnown(f, batch[f])
    /\ ConflictKnown(f, asked[f]) /\ ConflictKnown(f, stash[f])

SequencesOrdered ==
  /\ cursor <= seq /\ upTo <= seq
  /\ InCycle => cursor <= upTo
  /\ \A f \in File : localSeq[f] <= seq /\ echo[f] <= seq

\* An echo record stands for a version the server has, until a cycle sees it.
EchoesKnown ==
  \A f \in File :
    echo[f] # 0 => /\ ~InCycle
                   /\ localDoc[f] # None /\ localSeq[f] > cursor
                   /\ localSeq[f] <= echo[f] => onServer(f)

\* A version the cycle has read stays in its hands until it is accounted for.
CycleAccounts ==
  InCycle => \A f \in File :
    localDoc[f] # None /\ localSeq[f] <= upTo =>
      /\ batch[f] \in {None, localDoc[f]}
      /\ \/ stage # "commit" /\ batch[f] = localDoc[f]
         \/ stage # "classify" /\ add[f] # None
         \/ onServer(f)

PushInv == /\ PushTypeOK /\ ClocksKnown /\ SequencesOrdered
           /\ EchoesKnown /\ CycleAccounts /\ NoForgottenPush

=============================================================================
