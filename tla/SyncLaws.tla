------------------------------ MODULE SyncLaws ------------------------------
(***************************************************************************)
(* What the judgements of SyncRelation promise each other. The system      *)
(* decides about a path at several places, in modules that share no lock:  *)
(* both ends of a replication judge the same pair of documents, and the    *)
(* reconcile decides what fileToDb, dbToFile and markDeleted then judge    *)
(* again. The state is one path as one device may find it: any local and   *)
(* remote document, any disk, baseline and manifest; a step changes one.   *)
(***************************************************************************)
EXTENDS SyncRelation

CONSTANT Count      \* the counters a clock takes in this walk
ASSUME CountIsNat == Count \subseteq Nat

VARIABLES
  ours,      \* the document of the local database, or None
  theirs,     \* the document of the remote database
  disk,       \* the content of the file, or None
  base,       \* the baseline, or None
  ownDeletion \* whether the manifest and the last writer say that this
              \* device deleted the file (classifyMissingFromVault)

lawsVars == <<ours, theirs, disk, base, ownDeletion>>

BoundedClock == [Device -> Count]
SomeDocs  == [content : Content, deleted : BOOLEAN, vclock : BoundedClock]
SomeBases == [content : Content \cup {None}, vclock : BoundedClock]

LawsTypeOK ==
  /\ ours \in SomeDocs \cup {None}
  /\ theirs \in SomeDocs
  /\ disk \in Content \cup {None}
  /\ base \in SomeBases \cup {None}
  /\ ownDeletion \in BOOLEAN

LawsInit == LawsTypeOK

LocalMoves    == ours' \in SomeDocs \cup {None} /\ UNCHANGED <<theirs, disk, base, ownDeletion>>
RemoteMoves   == theirs' \in SomeDocs /\ UNCHANGED <<ours, disk, base, ownDeletion>>
VaultMoves    == disk' \in Content \cup {None} /\ UNCHANGED <<ours, theirs, base, ownDeletion>>
BaseMoves     == base' \in SomeBases \cup {None} /\ UNCHANGED <<ours, theirs, disk, ownDeletion>>
ManifestMoves == ownDeletion' = ~ownDeletion /\ UNCHANGED <<ours, theirs, disk, base>>

LawsNext == LocalMoves \/ RemoteMoves \/ VaultMoves \/ BaseMoves \/ ManifestMoves

LawsSpec == LawsInit /\ [][LawsNext]_lawsVars

-----------------------------------------------------------------------------
(***************************************************************************)
(* Two devices that pull each other's document never both keep their own   *)
(* and never swap the two: one takes exactly what the other keeps, both    *)
(* merge, or both ask their user (conflict-resolver.ts over                *)
(* classify-sync-relation.ts). Otherwise two replicas would rest for ever  *)
(* on different contents, each sure it is the newer one.                   *)
(***************************************************************************)
PullIsSymmetric ==
  ours # None =>
    LET here  == resolveOnPull(ours, theirs)
        there == resolveOnPull(theirs, ours)
    IN /\ here = "take-remote"  => there = "keep-local"
       /\ here = "concurrent"   <=> there = "concurrent"
       /\ here = "silent-merge" <=> there = "silent-merge"
       /\ here = "keep-local" /\ there = "keep-local" => sameState(ours, theirs)

(***************************************************************************)
(* Push and pull agree on a pair. What the push sends over the remote, the *)
(* pull would not have accepted the remote for; what the push holds back,  *)
(* the pull takes or presents; and what the push drops as already there,   *)
(* the pull has nothing to change the file for (push-pipeline.ts:530-634   *)
(* against pull-writer.ts:283-402).                                        *)
(***************************************************************************)
PushAgreesWithPull ==
  ours # None =>
    LET push == classifyForPush(ours, theirs)
        pull == resolveOnPull(ours, theirs)
    IN /\ push = "proceed" => /\ pull \in {"keep-local", "silent-merge"}
                              /\ pull = "silent-merge" => ours.deleted /\ theirs.deleted
       /\ push = "divergent" /\ ~sameState(ours, theirs)
            => pull \in {"take-remote", "concurrent"}
       /\ push = "skip" => sameState(ours, theirs)

(***************************************************************************)
(* What the reconcile decides for this path ...                            *)
(***************************************************************************)
decided == reconcileDecision(disk, ours, base, ownDeletion)

(***************************************************************************)
(* ... and the one case in which the operation refuses what it decides: a  *)
(* live document without a file and without a baseline, whose manifest or  *)
(* last writer says this device deleted it (reconciler.ts:528-531). The    *)
(* guard of markDeleted takes a missing baseline for a version this vault  *)
(* has never held (vault-sync.ts:1073-1076).                               *)
(***************************************************************************)
unprovenDeletion ==
  /\ disk = None /\ base = None /\ ownDeletion
  /\ ours # None /\ ~ours.deleted /\ ours.vclock # ZeroClock

(***************************************************************************)
(* What the reconcile decides for a path is not refused by the guard of    *)
(* the operation it then calls: a decision that the operation judged       *)
(* otherwise would be taken again on every pass and never done             *)
(* (reconciler.ts:347-620 against vault-sync.ts:362-390, 841-857 and       *)
(* 1063-1079). The deletion of unprovenDeletion is the only exception. Nor *)
(* is a deletion of the server's that the pull accepts because the vault   *)
(* has nothing to lose (pull-writer.ts:408-447 against the same guard):    *)
(* it would stay on record as owed to the vault.                           *)
(***************************************************************************)
DecisionsTakeEffect ==
  /\ decided = "push"   => recordsFile(disk, ours, base)
  /\ decided = "apply"  => vaultWrite(disk, ours, base) \in {"keep", "write"}
  /\ decided = "delete" => tombstones(ours, base) \/ unprovenDeletion
  /\ decided \in {"align", "adopt"} => vaultWrite(disk, ours, base) = "keep"
  /\ LET gone == acceptedDeletion(ours, hasUnpushedChanges(FALSE, disk, ours, base))
     IN gone # None /\ base # None => vaultWrite(disk, gone, base) # "decline"

(***************************************************************************)
(* What an operation refuses, the reconcile takes up: a pulled version the *)
(* vault write declined, a vault edit fileToDb would not record and a      *)
(* deletion markDeleted would not tombstone are each pushed, applied,      *)
(* propagated or offered to the user by the next pass, never left lying    *)
(* (the promise of vault-sync.ts:829-832). A deletion that is to be        *)
(* propagated must be one markDeleted then makes. Left lying, on every     *)
(* pass for as long as the last writer is this device, is the deletion of  *)
(* unprovenDeletion, and that one only.                                    *)
(***************************************************************************)
RefusalsAreTakenUp ==
  ours # None =>
    /\ vaultWrite(disk, ours, base) = "decline"
         => \/ decided \in {"push", "conflict"}
            \/ decided = "delete" /\ tombstones(ours, base)
    /\ disk # None /\ ~recordsFile(disk, ours, base)
         => decided \in {"apply", "conflict", "align", "adopt"}
    /\ disk = None /\ ~ours.deleted /\ ~tombstones(ours, base)
         => decided \in {"apply", "conflict"} \/ unprovenDeletion

(***************************************************************************)
(* A file the reconcile decides to delete gets its tombstone: the pass     *)
(* reports it among the "files tombstoned because the device deleted them  *)
(* while not watching" (reconciler.ts:66). It does not hold: in            *)
(* unprovenDeletion markDeleted returns without one, and is not asked.     *)
(***************************************************************************)
DecidedDeletionsAreMade == decided = "delete" => tombstones(ours, base)

=============================================================================
