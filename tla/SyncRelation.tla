---------------------------- MODULE SyncRelation ----------------------------
(***************************************************************************)
(* The judgements of the vault synchronisation: what two versions of one   *)
(* path are to each other, and what each call site does about it.          *)
(*                                                                         *)
(* Source: src/sync/classify-sync-relation.ts (the one classifier), and    *)
(* the guards its call sites add: src/conflict/conflict-resolver.ts        *)
(* (pull), classifyFiles of src/db/sync/push-pipeline.ts (push), fileToDb, *)
(* dbToFile and markDeleted of src/sync/vault-sync.ts, and the per-path    *)
(* decisions of src/sync/reconciler.ts.                                    *)
(*                                                                         *)
(* A version's content stands for its list of chunk ids: two contents are  *)
(* equal iff the lists are.                                                *)
(***************************************************************************)
EXTENDS VClock

CONSTANTS
  Content,    \* the contents a file can have
  None        \* no document, no file, no baseline

-----------------------------------------------------------------------------
(***************************************************************************)
(* A document of the local or the remote database (FileDoc). A tombstone   *)
(* keeps the chunks of the content it deleted (markDeleted spreads the     *)
(* prior document).                                                        *)
(***************************************************************************)
Doc == [content : Content, deleted : BOOLEAN, vclock : Clock]

(***************************************************************************)
(* The integration baseline of a path (LastSynced): what the vault held    *)
(* when this device last integrated the path, and the clock of that        *)
(* version. The deleted baseline is the one whose content is None. Entries *)
(* of old builds that carry no fingerprint are left out.                   *)
(***************************************************************************)
Baseline == [content : Content \cup {None}, vclock : Clock]

ASSUME NoneIsNothing == /\ None \notin Content /\ None \notin Doc
                        /\ None \notin Clock /\ None \notin Baseline

\* Two versions of a path are the same state of it (chunksEqual).
sameState(l, r) == /\ l.deleted = r.deleted
                   /\ l.deleted \/ l.content = r.content

\* The push compares the raw chunk lists, of two tombstones too.
sameBody_chunks(l, r) == l.content = r.content
sameBody(l, r) == l.deleted = r.deleted /\ l.content = r.content

\* A file on disk has no clock of its own: the baseline's is attributed to it.
baseClock(base) == IF base = None THEN ZeroClock ELSE base.vclock

diskVersion(disk, base) ==
  [content |-> disk, deleted |-> FALSE, vclock |-> baseClock(base)]

\* The disk still holds what an alive baseline says was synced.
explained(disk, base) == base # None /\ base.content = disk

-----------------------------------------------------------------------------
(***************************************************************************)
(* classifySyncRelation at a call site that compares two documents with    *)
(* clocks of their own (pull) ...                                          *)
(***************************************************************************)
relationOfDocs_tie(l, r) ==
  LET vc == compareVC(l.vclock, r.vclock)
  IN IF sameState(l, r) THEN IF vc = "equal" THEN "identical" ELSE "vclock-only-drift"
     ELSE CASE vc = "dominated"              -> "remote-edit"
            [] vc \in {"dominates", "equal"} -> "local-edit"
            [] vc = "concurrent"             -> "true-divergent"

relationOfDocs(l, r) ==
  LET vc == compareVC(l.vclock, r.vclock)
  IN CASE sameState(l, r) /\ vc = "equal"       -> "identical"
       [] sameState(l, r) /\ vc # "equal"       -> "vclock-only-drift"
       [] ~sameState(l, r) /\ vc = "dominated"  -> "remote-edit"
       [] ~sameState(l, r) /\ vc = "dominates"  -> "local-edit"
       [] ~sameState(l, r) /\ vc \in {"equal", "concurrent"} -> "true-divergent"

(***************************************************************************)
(* ... and at one that compares the file on disk with a document (fileToDb *)
(* and the reconcile): the attributed clock makes a tie a local edit, and  *)
(* a newer document is a remote edit only when the baseline explains the   *)
(* disk (refineRemoteEdit).                                                *)
(***************************************************************************)
relationOfFile_unrefined(disk, doc, base) ==
  LET left == diskVersion(disk, base)
      vc   == compareVC(left.vclock, doc.vclock)
  IN IF sameState(left, doc) THEN IF vc = "equal" THEN "identical" ELSE "vclock-only-drift"
     ELSE CASE vc = "concurrent"              -> "true-divergent"
            [] vc = "dominated"               -> "remote-edit"
            [] vc \in {"equal", "dominates"}  -> "local-edit"

relationOfFile(disk, doc, base) ==
  LET left == diskVersion(disk, base)
      vc   == compareVC(left.vclock, doc.vclock)
  IN CASE sameState(left, doc) /\ vc = "equal" -> "identical"
       [] sameState(left, doc) /\ vc # "equal" -> "vclock-only-drift"
       [] ~sameState(left, doc) /\ vc = "concurrent" -> "true-divergent"
       [] ~sameState(left, doc) /\ vc = "dominated" ->
            IF explained(disk, base) THEN "remote-edit" ELSE "true-divergent"
       [] ~sameState(left, doc) /\ vc \in {"equal", "dominates"} -> "local-edit"

-----------------------------------------------------------------------------
(***************************************************************************)
(* Pull: the verdict on an incoming remote document, and the document the  *)
(* batch then accepts (None when it accepts nothing).                      *)
(***************************************************************************)
resolveOnPull(local, remote) ==
  IF local = None THEN "take-remote"
  ELSE CASE relationOfDocs(local, remote) = "remote-edit"       -> "take-remote"
         [] relationOfDocs(local, remote) = "vclock-only-drift" -> "silent-merge"
         [] relationOfDocs(local, remote) = "true-divergent"    -> "concurrent"
         [] relationOfDocs(local, remote) \in {"identical", "local-edit"} -> "keep-local"

acceptedOnPull(local, remote) ==
  CASE resolveOnPull(local, remote) = "take-remote"  -> remote
    [] resolveOnPull(local, remote) = "silent-merge" ->
         [remote EXCEPT !.vclock = mergeVC(local.vclock, remote.vclock)]
    [] resolveOnPull(local, remote) \in {"keep-local", "concurrent"} -> None

(***************************************************************************)
(* A document the server has deleted outright comes as a row without a     *)
(* version. The vault is asked for a change it has not recorded: one its   *)
(* tracker still has scheduled, or a file that is not what the baseline, or *)
(* for want of one the local document, says. If there is one the user is   *)
(* asked; if not, the batch accepts a tombstone with the clock of the      *)
(* local document (its chunk list, emptied by the code, is kept here).     *)
(***************************************************************************)
hasUnpushedChanges(scheduled, disk, doc, base) ==
  LET known == IF base # None THEN base.content
               ELSE IF doc # None /\ ~doc.deleted THEN doc.content ELSE None
  IN scheduled \/ disk \notin {None, known}

acceptedTombstone(doc) == [doc EXCEPT !.deleted = TRUE]

acceptedDeletion(doc, unpushed) ==
  IF doc = None \/ unpushed THEN None
  ELSE IF doc.deleted THEN None ELSE acceptedTombstone(doc)

(***************************************************************************)
(* Push: what classifyFiles does with a local document against the remote  *)
(* one fetched in the same cycle.                                          *)
(***************************************************************************)
classifyForPush(local, remote) ==
  IF remote = None THEN "proceed"
  ELSE LET vc == compareVC(local.vclock, remote.vclock)
       IN CASE vc \in {"dominates", "equal"} /\ sameBody(local, remote) -> "skip"
            [] vc = "dominates" /\ ~sameBody(local, remote) -> "proceed"
            [] vc = "equal" /\ ~sameBody(local, remote)     -> "divergent"
            [] vc \in {"concurrent", "dominated"}           -> "divergent"

-----------------------------------------------------------------------------
(***************************************************************************)
(* The vault's side. fileToDb records the disk only over a document the    *)
(* disk is not behind of; dbToFile replaces the disk only while it holds   *)
(* synced content; markDeleted tombstones only a document the baseline has *)
(* caught up with.                                                         *)
(***************************************************************************)
recordsFile_behind(disk, doc, base) ==
  \/ doc = None
  \/ /\ doc # None
     /\ ~(~doc.deleted /\ doc.content = disk)
     /\ relationOfFile(disk, doc, base) # "true-divergent"

recordsFile(disk, doc, base) ==
  \/ doc = None
  \/ /\ doc # None
     /\ ~(~doc.deleted /\ doc.content = disk)
     /\ relationOfFile(disk, doc, base) \notin {"remote-edit", "true-divergent"}

unsyncedVaultChange_new(disk, doc, base) ==
  IF disk = None
    THEN ~doc.deleted /\ base # None /\ base.content # None
    ELSE base # None /\ ~explained(disk, base)

unsyncedVaultChange_present(disk, doc, base) ==
  disk # None /\ ~explained(disk, base)

unsyncedVaultChange(disk, doc, base) ==
  IF disk = None
    THEN ~doc.deleted /\ base # None /\ base.content # None
    ELSE ~explained(disk, base)

(***************************************************************************)
(* What dbToFile does with the disk: "keep" when it already holds the      *)
(* document's state, "write" when it may replace it, "decline" otherwise.  *)
(***************************************************************************)
vaultWrite(disk, doc, base) ==
  CASE doc.deleted /\ disk = None            -> "keep"
    [] ~doc.deleted /\ disk = doc.content    -> "keep"
    [] doc.deleted /\ disk # None            ->
         IF unsyncedVaultChange(disk, doc, base) THEN "decline" ELSE "write"
    [] ~doc.deleted /\ disk # doc.content    ->
         IF unsyncedVaultChange(disk, doc, base) THEN "decline" ELSE "write"

tombstones_new(doc, base) == base # None => ~Dominates(doc.vclock, base.vclock)

tombstones_ahead(doc, base) == base # None \/ doc.vclock = ZeroClock

tombstones(doc, base) ==
  IF base # None THEN ~Dominates(doc.vclock, base.vclock)
                 ELSE doc.vclock = ZeroClock

(***************************************************************************)
(* The reconcile's decision for a file on disk (cases A, B and C) ...      *)
(***************************************************************************)
decisionForFile(disk, doc, base) ==
  IF doc = None THEN "push"
  ELSE LET rel == relationOfFile(disk, doc, base)
       IN CASE rel = "identical"         -> "align"
            [] rel = "vclock-only-drift" -> "adopt"
            [] rel = "local-edit"        -> "push"
            [] rel = "remote-edit"       -> "apply"
            [] rel = "true-divergent"    -> "conflict"

(***************************************************************************)
(* ... for an alive document without a file (case D): a deletion made here *)
(* once the baseline has caught up with the document, the user's choice    *)
(* when it has not. Without a baseline, ownDeletion is what                *)
(* classifyMissingFromVault concludes from the vault manifest ...          *)
(***************************************************************************)
decisionForMissing_eager(doc, base, ownDeletion) ==
  IF base # None THEN "delete" ELSE IF ownDeletion THEN "delete" ELSE "apply"

decisionForMissing(doc, base, ownDeletion) ==
  IF base = None THEN IF ownDeletion THEN "delete" ELSE "apply"
  ELSE LET vc == compareVC(doc.vclock, base.vclock)
       IN CASE vc = "dominates" /\ base.content = None  -> "apply"
            [] vc = "dominates" /\ base.content # None  -> "conflict"
            [] vc = "concurrent" /\ base.content = None -> "conflict"
            [] vc = "concurrent" /\ base.content # None -> "delete"
            [] vc \in {"equal", "dominated"}            -> "delete"

(***************************************************************************)
(* ... and for a path that is empty on both sides (case E), where only a   *)
(* baseline still alive is brought in line with the tombstone.             *)
(***************************************************************************)
reconcileDecision(disk, doc, base, ownDeletion) ==
  CASE disk # None -> decisionForFile(disk, doc, base)
    [] disk = None /\ doc # None /\ ~doc.deleted ->
         decisionForMissing(doc, base, ownDeletion)
    [] disk = None /\ (doc = None \/ doc.deleted) ->
         IF doc # None /\ base # None /\ base.content # None
           THEN "apply" ELSE "nothing"

=============================================================================
