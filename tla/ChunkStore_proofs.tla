-------------------------- MODULE ChunkStore_proofs --------------------------
(***************************************************************************)
(* The laws of vector clocks the synchronisation relies on, the laws of    *)
(* SyncLaws, and on these the safety of the chunk store: Recoverable, for  *)
(* every set of devices, files, contents and counters. The two models      *)
(* share the judgements of SyncRelation and no variable.                   *)
(*                                                                         *)
(* Each law of SyncLaws holds of any well-typed path, so that its being an *)
(* invariant follows from the type invariant alone. That no file loses its *)
(* bytes does not: the second half says who keeps them.                    *)
(***************************************************************************)
EXTENDS ChunkStore, SyncLaws, TLAPS

(***************************************************************************)
(* compareVC's two flags compute the partial order: each of its answers    *)
(* says exactly which clock includes which (vector-clock.ts:20-33).        *)
(***************************************************************************)
THEOREM CompareIsOrder ==
  ASSUME NEW a \in Clock, NEW b \in Clock
  PROVE  /\ compareVC(a, b) = "equal" <=> a = b
         /\ compareVC(a, b) = "dominates" <=> Dominates(a, b)
         /\ compareVC(a, b) = "dominated" <=> Dominates(b, a)
         /\ compareVC(a, b) = "concurrent" <=> Concurrent(a, b)
<1>1. /\ Includes(a, b) <=> ~\E d \in Device : a[d] < b[d]
      /\ Includes(b, a) <=> ~\E d \in Device : a[d] > b[d]
  BY DEF Clock, Includes
<1>2. Includes(a, b) /\ Includes(b, a) <=> a = b
  BY DEF Clock, Includes
<1> QED
  BY <1>1, <1>2 DEF compareVC, Dominates, Concurrent

(***************************************************************************)
(* The merge is the least clock that includes both sides: a silent merge   *)
(* forgets no edit of either side and claims none that neither has.        *)
(***************************************************************************)
THEOREM MergeIsLub ==
  ASSUME NEW a \in Clock, NEW b \in Clock
  PROVE  /\ mergeVC(a, b) \in Clock
         /\ Includes(mergeVC(a, b), a)
         /\ Includes(mergeVC(a, b), b)
         /\ \A c \in Clock : Includes(c, a) /\ Includes(c, b)
                               => Includes(c, mergeVC(a, b))
  BY DEF Clock, Includes, mergeVC

(***************************************************************************)
(* An edit's clock is strictly newer than the clock it was made on, and it *)
(* moves no other device's counter.                                        *)
(***************************************************************************)
THEOREM IncrementDominates ==
  ASSUME NEW a \in Clock, NEW d \in Device
  PROVE  /\ incrementVC(a, d) \in Clock
         /\ Dominates(incrementVC(a, d), a)
         /\ \A e \in Device \ {d} : incrementVC(a, d)[e] = a[e]
<1>1. incrementVC(a, d) \in Clock /\ incrementVC(a, d)[d] = a[d] + 1
  BY DEF Clock, incrementVC
<1>2. \A e \in Device \ {d} : incrementVC(a, d)[e] = a[e]
  BY DEF Clock, incrementVC
<1>3. Includes(incrementVC(a, d), a)
  BY <1>1, <1>2 DEF Clock, Includes
<1>4. ~Includes(a, incrementVC(a, d))
  BY <1>1 DEF Clock, Includes
<1> QED
  BY <1>1, <1>2, <1>3, <1>4 DEF Dominates

(***************************************************************************)
(* The clock of a conflict's outcome, incrementVC(mergeVC(a, b), self),    *)
(* dominates both versions it decides between (vault-sync.ts:1370,         *)
(* conflict-orchestrator.ts:744): the decision reaches every device as an  *)
(* ordinary newer version.                                                 *)
(***************************************************************************)
THEOREM DecisionDominatesBoth ==
  ASSUME NEW a \in Clock, NEW b \in Clock, NEW d \in Device
  PROVE  /\ Dominates(incrementVC(mergeVC(a, b), d), a)
         /\ Dominates(incrementVC(mergeVC(a, b), d), b)
<1> DEFINE m == mergeVC(a, b)
           n == incrementVC(m, d)
<1>1. m \in Clock /\ Includes(m, a) /\ Includes(m, b)
  BY MergeIsLub
<1>2. n \in Clock /\ Includes(n, m) /\ n[d] = m[d] + 1
  BY <1>1, IncrementDominates DEF Dominates, incrementVC, Clock
<1>3. Includes(n, a) /\ Includes(n, b)
  BY <1>1, <1>2 DEF Includes, Clock
<1>4. n[d] > a[d] /\ n[d] > b[d]
  BY <1>1, <1>2 DEF Includes, Clock
<1> QED
  BY <1>3, <1>4, <1>1, <1>2 DEF Dominates, Includes, Clock

-----------------------------------------------------------------------------

\* The four answers of compareVC, and what the same question asked from the
\* other side answers.
LEMMA CompareMirrors ==
  ASSUME NEW a \in Clock, NEW b \in Clock
  PROVE  /\ compareVC(a, b) \in {"equal", "dominates", "dominated", "concurrent"}
         /\ compareVC(a, b) = "equal"      <=> compareVC(b, a) = "equal"
         /\ compareVC(a, b) = "dominates"  <=> compareVC(b, a) = "dominated"
         /\ compareVC(a, b) = "dominated"  <=> compareVC(b, a) = "dominates"
         /\ compareVC(a, b) = "concurrent" <=> compareVC(b, a) = "concurrent"
<1>1. a = b \/ Dominates(a, b) \/ Dominates(b, a) \/ Concurrent(a, b)
  BY DEF Dominates, Concurrent, Includes, Clock
<1>2. Concurrent(a, b) <=> Concurrent(b, a)
  BY DEF Concurrent
<1> QED
  BY <1>1, <1>2, CompareIsOrder

LEMMA TypedPath ==
  ASSUME LawsTypeOK
  PROVE  /\ ours \in Doc \cup {None} /\ theirs \in Doc
         /\ disk \in Content \cup {None} /\ base \in Baseline \cup {None}
         /\ ownDeletion \in BOOLEAN
<1>1. BoundedClock \subseteq Clock
  BY CountIsNat DEF BoundedClock, Clock
<1> QED
  BY <1>1 DEF LawsTypeOK, SomeDocs, Doc, SomeBases, Baseline

LEMMA TypedAlways == LawsSpec => []LawsTypeOK
<1>1. LawsInit => LawsTypeOK
  BY DEF LawsInit
<1>2. LawsTypeOK /\ [LawsNext]_lawsVars => LawsTypeOK'
  BY DEF LawsTypeOK, LawsNext, LocalMoves, RemoteMoves, VaultMoves, BaseMoves,
         ManifestMoves, lawsVars
<1> QED
  BY <1>1, <1>2, PTL DEF LawsSpec

-----------------------------------------------------------------------------
LEMMA SymmetryOfPull ==
  ASSUME NEW l \in Doc, NEW r \in Doc
  PROVE  LET here  == resolveOnPull(l, r)
             there == resolveOnPull(r, l)
         IN /\ here = "take-remote"  => there = "keep-local"
            /\ here = "concurrent"   <=> there = "concurrent"
            /\ here = "silent-merge" <=> there = "silent-merge"
            /\ here = "keep-local" /\ there = "keep-local" => sameState(l, r)
<1>1. l # None /\ r # None /\ l.vclock \in Clock /\ r.vclock \in Clock
  BY NoneIsNothing DEF Doc
<1>2. sameState(l, r) <=> sameState(r, l)
  BY DEF sameState
<1>3. CASE sameState(l, r)
  BY <1>1, <1>2, <1>3, CompareMirrors DEF resolveOnPull, relationOfDocs
<1>4. CASE ~sameState(l, r)
  BY <1>1, <1>2, <1>4, CompareMirrors DEF resolveOnPull, relationOfDocs
<1> QED
  BY <1>3, <1>4

(***************************************************************************)
(* Two devices that pull each other's document come to compatible          *)
(* verdicts, whatever the two documents are (conflict-resolver.ts).        *)
(***************************************************************************)
THEOREM PullSymmetric == LawsSpec => []PullIsSymmetric
<1>1. LawsTypeOK => PullIsSymmetric
  <2> SUFFICES ASSUME LawsTypeOK, ours # None PROVE PullIsSymmetric
    BY DEF PullIsSymmetric
  <2>1. ours \in Doc /\ theirs \in Doc
    BY TypedPath
  <2> QED
    BY <2>1, SymmetryOfPull DEF PullIsSymmetric
<1> QED
  BY <1>1, TypedAlways, PTL

LEMMA PushAgainstPull ==
  ASSUME NEW l \in Doc, NEW r \in Doc
  PROVE  LET sends == classifyForPush(l, r)
             pull == resolveOnPull(l, r)
         IN /\ sends = "proceed" => /\ pull \in {"keep-local", "silent-merge"}
                                    /\ pull = "silent-merge" => l.deleted /\ r.deleted
            /\ sends = "divergent" /\ ~sameState(l, r)
                 => pull \in {"take-remote", "concurrent"}
            /\ sends = "skip" => sameState(l, r)
<1>1. l # None /\ r # None /\ l.vclock \in Clock /\ r.vclock \in Clock
  BY NoneIsNothing DEF Doc
<1>2. compareVC(l.vclock, r.vclock) \in {"equal", "dominates", "dominated", "concurrent"}
  BY <1>1, CompareMirrors
<1>3. sameBody(l, r) => sameState(l, r)
  BY DEF sameBody, sameState
<1>4. sameState(l, r) /\ ~sameBody(l, r) => l.deleted /\ r.deleted
  BY DEF sameBody, sameState
<1>5. CASE sameBody(l, r)
  BY <1>1, <1>2, <1>3, <1>5 DEF classifyForPush, resolveOnPull, relationOfDocs
<1>6. CASE ~sameBody(l, r)
  <2>1. CASE sameState(l, r)
    BY <1>1, <1>2, <1>4, <1>6, <2>1 DEF classifyForPush, resolveOnPull, relationOfDocs
  <2>2. CASE ~sameState(l, r)
    BY <1>1, <1>2, <1>6, <2>2 DEF classifyForPush, resolveOnPull, relationOfDocs
  <2> QED
    BY <2>1, <2>2
<1> QED
  BY <1>5, <1>6

(***************************************************************************)
(* The push sends nothing over a version the pull would take, holds back   *)
(* nothing the pull would not take up, and drops nothing that differs      *)
(* (push-pipeline.ts:530-634 against pull-writer.ts:283-402).              *)
(***************************************************************************)
THEOREM PushPullAgree == LawsSpec => []PushAgreesWithPull
<1>1. LawsTypeOK => PushAgreesWithPull
  <2> SUFFICES ASSUME LawsTypeOK, ours # None PROVE PushAgreesWithPull
    BY DEF PushAgreesWithPull
  <2>1. ours \in Doc /\ theirs \in Doc
    BY TypedPath
  <2> QED
    BY <2>1, PushAgainstPull DEF PushAgreesWithPull
<1> QED
  BY <1>1, TypedAlways, PTL

-----------------------------------------------------------------------------
(***************************************************************************)
(* The reconcile. A file on disk, an alive document without a file, and a  *)
(* path that is empty on both sides are taken one after the other.         *)
(***************************************************************************)
LEMMA FileRelation ==
  ASSUME NEW file \in Content, NEW version \in Doc, NEW b \in Baseline \cup {None}
  PROVE  LET rel == relationOfFile(file, version, b)
         IN /\ rel \in {"identical", "vclock-only-drift", "true-divergent",
                        "remote-edit", "local-edit"}
            /\ rel \in {"identical", "vclock-only-drift"}
                 <=> ~version.deleted /\ version.content = file
            /\ rel = "remote-edit" => explained(file, b)
<1> DEFINE left == diskVersion(file, b)
<1>1. left.vclock \in Clock /\ version.vclock \in Clock
  BY DEF diskVersion, baseClock, Baseline, ZeroClock, Clock, Doc
<1>2. compareVC(left.vclock, version.vclock) \in {"equal", "dominates", "dominated", "concurrent"}
  BY <1>1, CompareMirrors
<1>3. sameState(left, version) <=> ~version.deleted /\ version.content = file
  BY DEF sameState, diskVersion, Doc
<1>4. CASE sameState(left, version)
  BY <1>2, <1>3, <1>4 DEF relationOfFile
<1>5. CASE ~sameState(left, version)
  BY <1>2, <1>3, <1>5 DEF relationOfFile
<1> QED
  BY <1>4, <1>5

LEMMA FileDecision ==
  ASSUME NEW file \in Content, NEW version \in Doc \cup {None}, NEW b \in Baseline \cup {None}
  PROVE  LET chosen == decisionForFile(file, version, b)
         IN /\ chosen = "push" => recordsFile(file, version, b)
            /\ chosen = "apply" => vaultWrite(file, version, b) \in {"keep", "write"}
            /\ chosen \in {"align", "adopt"} => vaultWrite(file, version, b) = "keep"
            /\ chosen # "delete"
            /\ version # None /\ vaultWrite(file, version, b) = "decline"
                 => chosen \in {"push", "conflict"}
            /\ ~recordsFile(file, version, b)
                 => chosen \in {"apply", "conflict", "align", "adopt"}
<1>1. CASE version = None
  BY <1>1 DEF decisionForFile, recordsFile
<1>2. CASE version # None
  <2> DEFINE rel == relationOfFile(file, version, b)
  <2>1. version \in Doc /\ version.deleted \in BOOLEAN /\ file # None
    BY <1>2, NoneIsNothing DEF Doc
  <2>2. /\ rel \in {"identical", "vclock-only-drift", "true-divergent",
                    "remote-edit", "local-edit"}
        /\ rel \in {"identical", "vclock-only-drift"}
             <=> ~version.deleted /\ version.content = file
        /\ rel = "remote-edit" => explained(file, b)
    BY <2>1, FileRelation
  <2>3. /\ rel = "identical" => decisionForFile(file, version, b) = "align"
        /\ rel = "vclock-only-drift" => decisionForFile(file, version, b) = "adopt"
        /\ rel = "local-edit" => decisionForFile(file, version, b) = "push"
        /\ rel = "remote-edit" => decisionForFile(file, version, b) = "apply"
        /\ rel = "true-divergent" => decisionForFile(file, version, b) = "conflict"
    BY <1>2 DEF decisionForFile
  <2>4. recordsFile(file, version, b) <=> rel = "local-edit"
    BY <1>2, <2>2 DEF recordsFile
  <2>5. /\ ~version.deleted /\ version.content = file => vaultWrite(file, version, b) = "keep"
        /\ ~(~version.deleted /\ version.content = file) =>
             vaultWrite(file, version, b) = IF explained(file, b) THEN "write" ELSE "decline"
    BY <2>1 DEF vaultWrite, unsyncedVaultChange
  <2> HIDE DEF rel
  <2> QED
    BY <1>2, <2>2, <2>3, <2>4, <2>5
<1> QED
  BY <1>1, <1>2

LEMMA MissingDecision ==
  ASSUME NEW version \in Doc, ~version.deleted, NEW b \in Baseline \cup {None},
         NEW mine \in BOOLEAN
  PROVE  LET chosen == decisionForMissing(version, b, mine)
         IN /\ chosen \in {"apply", "conflict", "delete"}
            /\ chosen = "apply" => vaultWrite(None, version, b) = "write"
            /\ chosen = "delete" => tombstones(version, b) \/ (b = None /\ mine)
            /\ vaultWrite(None, version, b) = "decline"
                 => chosen = "conflict" \/ (chosen = "delete" /\ tombstones(version, b))
            /\ ~tombstones(version, b)
                 => chosen \in {"apply", "conflict"} \/ (b = None /\ mine)
<1>1. version.content # None /\ version.vclock \in Clock
  BY NoneIsNothing DEF Doc
<1>2. CASE b = None
  BY <1>1, <1>2 DEF decisionForMissing, vaultWrite, unsyncedVaultChange
<1>3. CASE b # None
  <2> DEFINE vc == compareVC(version.vclock, b.vclock)
  <2>1. b.vclock \in Clock
    BY <1>3 DEF Baseline
  <2>2. /\ vc \in {"equal", "dominates", "dominated", "concurrent"}
        /\ vc = "dominates" <=> Dominates(version.vclock, b.vclock)
    BY <1>1, <2>1, CompareMirrors, CompareIsOrder
  <2>3. tombstones(version, b) <=> vc # "dominates"
    BY <1>3, <2>2 DEF tombstones
  <2>4. vaultWrite(None, version, b) = IF b.content # None THEN "decline" ELSE "write"
    BY <1>1, <1>3 DEF vaultWrite, unsyncedVaultChange
  <2> HIDE DEF vc
  <2>5. /\ vc = "dominates" => decisionForMissing(version, b, mine)
                                 = IF b.content = None THEN "apply" ELSE "conflict"
        /\ vc = "concurrent" => decisionForMissing(version, b, mine)
                                 = IF b.content = None THEN "conflict" ELSE "delete"
        /\ vc \in {"equal", "dominated"} => decisionForMissing(version, b, mine) = "delete"
    BY <1>3 DEF decisionForMissing, vc
  <2> QED
    BY <2>2, <2>3, <2>4, <2>5
<1> QED
  BY <1>2, <1>3

\* A deletion the pull accepts is not declined by the vault.
LEMMA DeletionDecision ==
  ASSUME NEW l \in Doc \cup {None}, NEW x \in Content \cup {None},
         NEW b \in Baseline \cup {None}, b # None
  PROVE  LET gone == acceptedDeletion(l, hasUnpushedChanges(FALSE, x, l, b))
         IN gone # None => vaultWrite(x, gone, b) # "decline"
<1> SUFFICES ASSUME acceptedDeletion(l, hasUnpushedChanges(FALSE, x, l, b)) # None
             PROVE  vaultWrite(x, acceptedTombstone(l), b) # "decline"
  BY DEF acceptedDeletion
<1>1. l \in Doc /\ acceptedTombstone(l).deleted = TRUE
  BY DEF acceptedDeletion, acceptedTombstone, Doc
<1>2. x \in {None, b.content}
  BY DEF acceptedDeletion, hasUnpushedChanges
<1>3. x # None => ~unsyncedVaultChange(x, acceptedTombstone(l), b)
  BY <1>2 DEF unsyncedVaultChange, explained
<1> QED
  BY <1>1, <1>3 DEF vaultWrite

(***************************************************************************)
(* No decision of the reconcile is refused by the operation that carries   *)
(* it out (reconciler.ts:347-620 against vault-sync.ts:362-390, 841-857    *)
(* and 1063-1079), for any path and whatever manifest and last writer say, *)
(* but for the deletion of a file without a baseline.                      *)
(***************************************************************************)
THEOREM DecisionsAreCarriedOut == LawsSpec => []DecisionsTakeEffect
<1>1. LawsTypeOK => DecisionsTakeEffect
  <2> SUFFICES ASSUME LawsTypeOK PROVE DecisionsTakeEffect
    OBVIOUS
  <2>0. /\ ours \in Doc \cup {None} /\ disk \in Content \cup {None}
        /\ base \in Baseline \cup {None} /\ ownDeletion \in BOOLEAN
    BY TypedPath
  <2>4. LET gone == acceptedDeletion(ours, hasUnpushedChanges(FALSE, disk, ours, base))
        IN gone # None /\ base # None => vaultWrite(disk, gone, base) # "decline"
    BY <2>0, DeletionDecision
  <2>1. CASE disk # None
    <3>1. decided = decisionForFile(disk, ours, base)
      BY <2>1 DEF reconcileDecision, decided
    <3> QED
      BY <2>0, <2>1, <2>4, <3>1, FileDecision DEF DecisionsTakeEffect
  <2>2. CASE disk = None /\ ours # None /\ ~ours.deleted
    <3>1. decided = decisionForMissing(ours, base, ownDeletion)
      BY <2>2 DEF reconcileDecision, decided
    <3>2. base = None /\ ownDeletion => tombstones(ours, base) \/ unprovenDeletion
      BY <2>2 DEF unprovenDeletion, tombstones
    <3> QED
      BY <2>0, <2>2, <2>4, <3>1, <3>2, MissingDecision DEF DecisionsTakeEffect
  <2>3. CASE disk = None /\ (ours = None \/ ours.deleted)
    <3>1. decided \in {"apply", "nothing"} /\ (decided = "apply" => ours # None)
      BY <2>3 DEF reconcileDecision, decided
    <3>2. decided = "apply" => vaultWrite(disk, ours, base) = "keep"
      BY <2>3, <3>1 DEF vaultWrite
    <3> QED
      BY <2>4, <3>1, <3>2 DEF DecisionsTakeEffect
  <2> QED
    BY <2>1, <2>2, <2>3
<1> QED
  BY <1>1, TypedAlways, PTL

(***************************************************************************)
(* What a guard refuses is never left lying: the next reconcile pushes it, *)
(* applies it, propagates it or asks the user (vault-sync.ts:829-832), but *)
(* for the deletion of a file without a baseline.                          *)
(***************************************************************************)
THEOREM RefusalsGoOn == LawsSpec => []RefusalsAreTakenUp
<1>1. LawsTypeOK => RefusalsAreTakenUp
  <2> SUFFICES ASSUME LawsTypeOK, ours # None PROVE RefusalsAreTakenUp
    BY DEF RefusalsAreTakenUp
  <2>0. /\ ours \in Doc /\ disk \in Content \cup {None}
        /\ base \in Baseline \cup {None} /\ ownDeletion \in BOOLEAN
    BY TypedPath
  <2>1. CASE disk # None
    <3>1. decided = decisionForFile(disk, ours, base)
      BY <2>1 DEF reconcileDecision, decided
    <3> QED
      BY <2>0, <2>1, <3>1, FileDecision DEF RefusalsAreTakenUp
  <2>2. CASE disk = None /\ ~ours.deleted
    <3>1. decided = decisionForMissing(ours, base, ownDeletion)
      BY <2>2 DEF reconcileDecision, decided
    <3>2. base = None /\ ownDeletion => tombstones(ours, base) \/ unprovenDeletion
      BY <2>2 DEF unprovenDeletion, tombstones
    <3> QED
      BY <2>0, <2>2, <3>1, <3>2, MissingDecision DEF RefusalsAreTakenUp
  <2>3. CASE disk = None /\ ours.deleted
    <3>1. vaultWrite(disk, ours, base) = "keep"
      BY <2>3 DEF vaultWrite
    <3> QED
      BY <2>3, <3>1 DEF RefusalsAreTakenUp
  <2> QED
    BY <2>0, <2>1, <2>2, <2>3
<1> QED
  BY <1>1, TypedAlways, PTL

-----------------------------------------------------------------------------
(***************************************************************************)
(* The chunk store. A device counts its own edits, and every other device  *)
(* learns of them from the server only: its own entry of a document's      *)
(* clock is at least the server's, every other entry at most. So what a    *)
(* device has of its own is told by one entry.                             *)
(***************************************************************************)
clockOf(version) == IF version = None THEN ZeroClock ELSE version.vclock

docClock(d, f) == clockOf(doc[d][f])
remoteClock(f) == clockOf(remote[f])

own(d, f) == doc[d][f] # None /\ docClock(d, f)[d] > remoteClock(f)[d]

Counters ==
  \A d \in Device, f \in File :
    /\ docClock(d, f)[d] >= remoteClock(f)[d]
    /\ \A e \in Device \ {d} : docClock(d, f)[e] <= remoteClock(f)[e]

\* A document that is nothing of the device's own came from the server, and
\* with the server's clock it is the server's version.
CameFromServer ==
  \A d \in Device, f \in File :
    doc[d][f] # None =>
      /\ remote[f] = None => own(d, f)
      /\ remote[f] # None /\ doc[d][f].vclock = remote[f].vclock => doc[d][f] = remote[f]

\* What is a device's own is on its disk, recorded there after what the server
\* knows, and the chunk of it is in its database.
OwnIsHere ==
  \A d \in Device, f \in File :
    own(d, f) =>
      /\ held[d][f] # None
      /\ held[d][f].vclock[d] > remoteClock(f)[d]
      /\ held[d][f].content = heldOf(doc[d][f]).content
      /\ ~doc[d][f].deleted => doc[d][f].content \in store[d]

(***************************************************************************)
(* Some device guards every live file of the server: it has the version or *)
(* a merge of it with its chunk, or a newer version, or had one that       *)
(* "Wait for sync & retry" took from its database and not from its disk.   *)
(***************************************************************************)
hasIt(d, f) ==
  /\ doc[d][f] # None /\ ~doc[d][f].deleted
  /\ doc[d][f].content = remote[f].content /\ doc[d][f].content \in store[d]
  /\ Includes(doc[d][f].vclock, remote[f].vclock)

ahead(d, f) == doc[d][f] # None /\ Dominates(doc[d][f].vclock, remote[f].vclock)

setBack(d, f) ==
  /\ doc[d][f] = remote[f] /\ held[d][f] # None
  /\ held[d][f].vclock[d] > remote[f].vclock[d]
  /\ held[d][f].content # remote[f].content

guards(d, f) == hasIt(d, f) \/ ahead(d, f) \/ setBack(d, f)

Guarded == \A f \in File : f \in live(remote) => \E d \in Device : guards(d, f)

\* What the jobs in progress read is still so: no other actor runs inside a
\* push, a sweep, or between the last look at the references and the deletion.
PushReads ==
  \A d \in Device, f \in File :
    push[d] # None /\ push[d].files[f] # None =>
      /\ push[d].files[f] = doc[d][f]
      /\ remote[f] # None => Dominates(doc[d][f].vclock, remote[f].vclock)

SweepReads == \A d \in Device : refs[d] # None => refs[d] = referenced(doc[d])

RepairReads ==
  \A d \in Device :
    repair[d] # None /\ repair[d].stage = "deleteLocal" =>
      repair[d].toDeleteLocal \cap referenced(doc[d]) = {}

Vaults == Counters /\ CameFromServer /\ OwnIsHere /\ Guarded

IInv == TypeOK /\ Vaults /\ PushReads /\ SweepReads /\ RepairReads

\* What the theorems about the chunk store assume of the windows.
Closed == Interrupts \cap {"push", "sweep", "localCheck"} = {}
-----------------------------------------------------------------------------
(***************************************************************************)
(* What a step of a device makes of one of its documents, and of what its  *)
(* disk holds: nothing, a new version recorded from the disk or the user's *)
(* decision, the server's version, the server's version with the merged    *)
(* clock, or the document's version written to the disk.                   *)
(***************************************************************************)
stays(d, f) == doc'[d][f] = doc[d][f] /\ held'[d][f] = held[d][f]

records(d, f) ==
  /\ doc'[d][f] \in Doc
  /\ Includes(doc'[d][f].vclock, docClock(d, f))
  /\ doc'[d][f].vclock[d] > docClock(d, f)[d]
  /\ \A e \in Device \ {d} : doc'[d][f].vclock[e] <= remoteClock(f)[e]
  /\ held'[d][f] = heldOf(doc'[d][f])
  /\ ~doc'[d][f].deleted => doc'[d][f].content \in store'[d]

takes(d, f) ==
  /\ remote[f] # None /\ doc'[d][f] = remote[f]
  /\ \/ held'[d][f] = held[d][f]
     \/ /\ held'[d][f] = heldOf(remote[f])
        /\ ~remote[f].deleted => remote[f].content \in store'[d]

merges(d, f) ==
  /\ doc[d][f] # None /\ remote[f] # None /\ sameState(doc[d][f], remote[f])
  /\ doc'[d][f] = [remote[f] EXCEPT !.vclock = mergeVC(doc[d][f].vclock, remote[f].vclock)]
  /\ held'[d][f] = held[d][f]

holds(d, f) ==
  /\ doc[d][f] # None /\ doc'[d][f] = doc[d][f]
  /\ held'[d][f] = heldOf(doc[d][f])
  /\ ~doc[d][f].deleted => \/ doc[d][f].content \in store'[d]
                           \/ held[d][f] # None /\ held[d][f].content = doc[d][f].content

moves(d, f) == stays(d, f) \/ records(d, f) \/ takes(d, f) \/ merges(d, f) \/ holds(d, f)

\* The parts of the invariant for one document.
CountersOf(d, f) ==
  /\ docClock(d, f)[d] >= remoteClock(f)[d]
  /\ \A e \in Device \ {d} : docClock(d, f)[e] <= remoteClock(f)[e]

ServerOf(d, f) ==
  doc[d][f] # None =>
    /\ remote[f] = None => own(d, f)
    /\ remote[f] # None /\ doc[d][f].vclock = remote[f].vclock => doc[d][f] = remote[f]

OwnOf(d, f) ==
  own(d, f) =>
    /\ held[d][f] # None
    /\ held[d][f].vclock[d] > remoteClock(f)[d]
    /\ held[d][f].content = heldOf(doc[d][f]).content
    /\ ~doc[d][f].deleted => doc[d][f].content \in store[d]

VaultOf(d, f) == CountersOf(d, f) /\ ServerOf(d, f) /\ OwnOf(d, f)

LEMMA VaultsByFile ==
  Counters /\ CameFromServer /\ OwnIsHere <=> \A d \in Device, f \in File : VaultOf(d, f)
  BY DEF Counters, CameFromServer, OwnIsHere, VaultOf, CountersOf, ServerOf, OwnOf

LEMMA Typed ==
  ASSUME TypeOK, NEW d \in Device, NEW f \in File
  PROVE  /\ doc[d][f] \in Doc \cup {None} /\ remote[f] \in Doc \cup {None}
         /\ held[d][f] \in Baseline \cup {None}
         /\ docClock(d, f) \in Clock /\ remoteClock(f) \in Clock
         /\ doc[d][f] # None => docClock(d, f) = doc[d][f].vclock
         /\ remote[f] # None => remoteClock(f) = remote[f].vclock
<1>1. /\ doc[d][f] \in Doc \cup {None} /\ remote[f] \in Doc \cup {None}
      /\ held[d][f] \in Baseline \cup {None}
  BY DEF TypeOK, Docs
<1>2. ZeroClock \in Clock
  BY DEF ZeroClock, Clock
<1> QED
  BY <1>1, <1>2 DEF docClock, remoteClock, clockOf, Doc

\* A device that is ahead of the server has something of its own there.
LEMMA AheadIsOwn ==
  ASSUME TypeOK, NEW d \in Device, NEW f \in File, CountersOf(d, f),
         remote[f] # None, ahead(d, f)
  PROVE  own(d, f)
<1>1. docClock(d, f) = doc[d][f].vclock /\ remoteClock(f) = remote[f].vclock
  BY Typed DEF ahead
<1>2. docClock(d, f) \in Clock /\ remoteClock(f) \in Clock
  BY Typed
<1>3. \E e \in Device : docClock(d, f)[e] > remoteClock(f)[e]
  BY <1>1, <1>2 DEF ahead, Dominates, Includes, Clock
<1> QED
  BY <1>1, <1>2, <1>3 DEF ahead, own, CountersOf, Clock

\* Without something of its own it has seen no more than the server.
LEMMA ElseServerHasSeen ==
  ASSUME TypeOK, NEW d \in Device, NEW f \in File, CountersOf(d, f),
         doc[d][f] # None, ~own(d, f)
  PROVE  /\ Includes(remoteClock(f), docClock(d, f))
         /\ docClock(d, f)[d] = remoteClock(f)[d]
<1>1. docClock(d, f) \in Clock /\ remoteClock(f) \in Clock
  BY Typed
<1> QED
  BY <1>1 DEF own, CountersOf, Includes, Clock

-----------------------------------------------------------------------------
\* Each of the five leaves the device's own where it can be had ...
LEMMA OneStays ==
  ASSUME UNCHANGED remote, NEW d \in Device, NEW f \in File, VaultOf(d, f),
         store[d] \subseteq store'[d], stays(d, f)
  PROVE  VaultOf(d, f)' /\ (guards(d, f) => guards(d, f)')
<1>1. doc'[d][f] = doc[d][f] /\ held'[d][f] = held[d][f]
  BY DEF stays
<1>2. docClock(d, f)' = docClock(d, f) /\ remoteClock(f)' = remoteClock(f)
  BY <1>1 DEF docClock, remoteClock, clockOf
<1>3. own(d, f)' <=> own(d, f)
  BY <1>1, <1>2 DEF own
<1>4. VaultOf(d, f)'
  BY <1>1, <1>2, <1>3 DEF VaultOf, CountersOf, ServerOf, OwnOf
<1>5. guards(d, f) => guards(d, f)'
  BY <1>1 DEF guards, hasIt, ahead, setBack
<1> QED
  BY <1>4, <1>5

LEMMA OneRecords ==
  ASSUME TypeOK, UNCHANGED remote, NEW d \in Device, NEW f \in File, VaultOf(d, f),
         records(d, f)
  PROVE  VaultOf(d, f)' /\ (remote[f] # None /\ guards(d, f) => guards(d, f)')
<1> DEFINE v == doc'[d][f]
           o == docClock(d, f)
           r == remoteClock(f)
<1>1. /\ v \in Doc /\ v # None /\ v.vclock \in Clock /\ o \in Clock /\ r \in Clock
      /\ docClock(d, f)' = v.vclock /\ remoteClock(f)' = r
  BY Typed, NoneIsNothing DEF records, docClock, remoteClock, clockOf, Doc
<1>2. v.vclock[d] > r[d] /\ own(d, f)'
  BY <1>1 DEF records, VaultOf, CountersOf, own, Clock
<1>3. held'[d][f] = heldOf(v) /\ held'[d][f].vclock = v.vclock /\ held'[d][f] # None
  <2>1. heldOf(v) \in Baseline
    BY <1>1 DEF heldOf, Doc, Baseline
  <2> QED
    BY <2>1, NoneIsNothing DEF records, heldOf
<1>4. CountersOf(d, f)'
  BY <1>1, <1>2 DEF CountersOf, records, Clock
<1>5. ServerOf(d, f)'
  <2>1. remote[f] # None => r = remote[f].vclock
    BY Typed
  <2>2. v.vclock # r
    BY <1>1, <1>2 DEF Clock
  <2> QED
    BY <1>2, <2>1, <2>2 DEF ServerOf
<1>6. OwnOf(d, f)'
  BY <1>1, <1>2, <1>3 DEF OwnOf, records
<1>7. ASSUME remote[f] # None, guards(d, f) PROVE guards(d, f)'
  <2>1. r = remote[f].vclock
    BY <1>7, Typed
  <2>2. Includes(o, r)
    <3>1. doc[d][f] # None => o = doc[d][f].vclock
      BY Typed
    <3> QED
      BY <1>1, <1>7, <2>1, <3>1 DEF guards, hasIt, ahead, setBack, Dominates, Includes, Clock
  <2>3. Includes(v.vclock, r) /\ ~Includes(r, v.vclock)
    BY <1>1, <1>2, <2>2 DEF records, Includes, Clock
  <2>4. ahead(d, f)'
    BY <1>1, <2>1, <2>3 DEF ahead, Dominates
  <2> QED
    BY <2>4 DEF guards
<1> QED
  BY <1>4, <1>5, <1>6, <1>7 DEF VaultOf

LEMMA OneTakes ==
  ASSUME TypeOK, UNCHANGED remote, NEW d \in Device, NEW f \in File, VaultOf(d, f),
         store[d] \subseteq store'[d], takes(d, f)
  PROVE  VaultOf(d, f)' /\ (f \in live(remote) /\ guards(d, f) => guards(d, f)')
<1> DEFINE r == remote[f]
<1>1. /\ r \in Doc /\ r # None /\ r.vclock \in Clock /\ doc'[d][f] = r
      /\ docClock(d, f)' = r.vclock /\ remoteClock(f)' = r.vclock
      /\ remoteClock(f) = r.vclock
  BY Typed, NoneIsNothing DEF takes, docClock, remoteClock, clockOf, Doc
<1>2. ~own(d, f)'
  BY <1>1 DEF own, Clock
<1>3. VaultOf(d, f)'
  BY <1>1, <1>2 DEF VaultOf, CountersOf, ServerOf, OwnOf, Clock
<1>4. ASSUME f \in live(remote), guards(d, f) PROVE guards(d, f)'
  <2>0. ~r.deleted /\ r.content # None /\ Includes(r.vclock, r.vclock)
    BY <1>1, <1>4, NoneIsNothing DEF live, Includes, Doc, Clock
  <2>1. r.content \in store'[d] => hasIt(d, f)'
    BY <1>1, <2>0 DEF hasIt
  <2>2. CASE hasIt(d, f)
    BY <2>1, <2>2 DEF hasIt, guards
  <2>3. CASE held'[d][f] # held[d][f]
    BY <2>0, <2>1, <2>3 DEF takes, guards
  <2>4. CASE ahead(d, f) /\ held'[d][f] = held[d][f]
    <3>1. own(d, f)
      BY <1>1, <2>4, AheadIsOwn DEF VaultOf
    <3>2. /\ held[d][f] # None /\ held[d][f].vclock[d] > r.vclock[d]
          /\ held[d][f].content = heldOf(doc[d][f]).content
          /\ ~doc[d][f].deleted => doc[d][f].content \in store[d]
      BY <1>1, <3>1 DEF VaultOf, OwnOf
    <3>3. CASE held[d][f].content = r.content
      BY <2>0, <2>1, <3>2, <3>3 DEF heldOf, guards
    <3>4. CASE held[d][f].content # r.content
      BY <1>1, <2>4, <3>2, <3>4 DEF setBack, guards
    <3> QED
      BY <3>3, <3>4
  <2>5. CASE setBack(d, f) /\ held'[d][f] = held[d][f]
    BY <1>1, <2>5 DEF setBack, guards
  <2> QED
    BY <1>4, <2>2, <2>3, <2>4, <2>5 DEF guards
<1> QED
  BY <1>3, <1>4

LEMMA OneMerges ==
  ASSUME TypeOK, UNCHANGED remote, NEW d \in Device, NEW f \in File, VaultOf(d, f),
         store[d] \subseteq store'[d], merges(d, f)
  PROVE  VaultOf(d, f)' /\ (f \in live(remote) /\ guards(d, f) => guards(d, f)')
<1> DEFINE l == doc[d][f]
           r == remote[f]
           v == doc'[d][f]
           m == mergeVC(l.vclock, r.vclock)
<1>1. /\ l \in Doc /\ r \in Doc /\ l # None /\ r # None
      /\ docClock(d, f) = l.vclock /\ remoteClock(f) = r.vclock
      /\ l.vclock \in Clock /\ r.vclock \in Clock
  BY Typed DEF merges, Doc
<1>2. /\ m \in Clock /\ Includes(m, l.vclock) /\ Includes(m, r.vclock)
      /\ \A e \in Device : m[e] = IF l.vclock[e] >= r.vclock[e] THEN l.vclock[e] ELSE r.vclock[e]
  BY <1>1, MergeIsLub DEF mergeVC
<1>3. /\ v = [r EXCEPT !.vclock = m] /\ v \in Doc /\ v # None
      /\ v.vclock = m /\ v.deleted = r.deleted /\ v.content = r.content
      /\ held'[d][f] = held[d][f]
  BY <1>1, <1>2, NoneIsNothing DEF merges, Doc
<1>4. docClock(d, f)' = m /\ remoteClock(f)' = r.vclock
  BY <1>1, <1>3 DEF docClock, remoteClock, clockOf
<1>5. own(d, f)' <=> own(d, f)
  BY <1>1, <1>2, <1>3, <1>4 DEF own, Clock
<1>6. CountersOf(d, f)'
  BY <1>1, <1>2, <1>4 DEF VaultOf, CountersOf, Clock
<1>7. ServerOf(d, f)'
  BY <1>1, <1>3 DEF ServerOf, Doc
<1>8. heldOf(v).content = heldOf(l).content /\ (~v.deleted => ~l.deleted /\ v.content = l.content)
  BY <1>3 DEF merges, sameState, heldOf
<1>9. OwnOf(d, f)'
  BY <1>1, <1>3, <1>4, <1>5, <1>8 DEF VaultOf, OwnOf
<1>10. ASSUME f \in live(remote), guards(d, f) PROVE guards(d, f)'
  <2>1. CASE hasIt(d, f)
    BY <1>1, <1>2, <1>3, <1>10, <2>1 DEF hasIt, guards, live
  <2>2. CASE ahead(d, f)
    <3>1. Includes(m, r.vclock) /\ ~Includes(r.vclock, m)
      BY <1>1, <1>2, <2>2 DEF ahead, Dominates, Includes, Clock
    <3> QED
      BY <1>3, <3>1 DEF ahead, Dominates, guards
  <2>3. CASE setBack(d, f)
    <3>1. m = r.vclock
      BY <1>1, <1>2, <2>3 DEF setBack, Clock
    <3>2. v = r
      BY <1>1, <1>3, <3>1 DEF Doc
    <3> QED
      BY <1>3, <2>3, <3>2 DEF setBack, guards
  <2> QED
    BY <1>10, <2>1, <2>2, <2>3 DEF guards
<1> QED
  BY <1>6, <1>7, <1>9, <1>10 DEF VaultOf

LEMMA OneHolds ==
  ASSUME TypeOK, UNCHANGED remote, NEW d \in Device, NEW f \in File, VaultOf(d, f),
         store[d] \subseteq store'[d], holds(d, f)
  PROVE  VaultOf(d, f)' /\ (f \in live(remote) /\ guards(d, f) => guards(d, f)')
<1> DEFINE l == doc[d][f]
<1>1. /\ l \in Doc /\ l # None /\ l.vclock \in Clock /\ doc'[d][f] = l
      /\ docClock(d, f) = l.vclock
  BY Typed DEF holds, Doc
<1>2. docClock(d, f)' = docClock(d, f) /\ remoteClock(f)' = remoteClock(f)
  BY <1>1 DEF docClock, remoteClock, clockOf
<1>3. own(d, f)' <=> own(d, f)
  BY <1>1, <1>2 DEF own
<1>4. held'[d][f] = heldOf(l) /\ held'[d][f] # None /\ held'[d][f].vclock = l.vclock
  <2>1. heldOf(l) \in Baseline
    BY <1>1 DEF heldOf, Doc, Baseline
  <2> QED
    BY <2>1, NoneIsNothing DEF holds, heldOf
<1>5. CountersOf(d, f)' /\ ServerOf(d, f)'
  BY <1>1, <1>2, <1>3 DEF VaultOf, CountersOf, ServerOf
<1>6. OwnOf(d, f)'
  BY <1>1, <1>2, <1>3, <1>4 DEF VaultOf, OwnOf, own
<1>7. ASSUME f \in live(remote), guards(d, f) PROVE guards(d, f)'
  <2>1. CASE hasIt(d, f)
    BY <1>1, <2>1 DEF hasIt, guards
  <2>2. CASE ahead(d, f)
    BY <1>1, <2>2 DEF ahead, guards
  <2>3. CASE setBack(d, f)
    <3>1. l = remote[f] /\ ~l.deleted /\ l.content \in store'[d]
      BY <1>7, <2>3 DEF setBack, holds, live
    <3>2. hasIt(d, f)'
      BY <1>1, <3>1 DEF hasIt, Includes, Clock
    <3> QED
      BY <3>2 DEF guards
  <2> QED
    BY <1>7, <2>1, <2>2, <2>3 DEF guards
<1> QED
  BY <1>5, <1>6, <1>7 DEF VaultOf

\* ... and a device that guards a file goes on doing so.
LEMMA DeviceMoves ==
  ASSUME TypeOK, Vaults, UNCHANGED remote, NEW d \in Device,
         \A f \in File : moves(d, f),
         \A e \in Device \ {d} : /\ doc'[e] = doc[e] /\ held'[e] = held[e]
                                 /\ store'[e] = store[e],
         store[d] \subseteq store'[d]
  PROVE  Vaults'
<1>1. \A e \in Device, f \in File : VaultOf(e, f)
  BY VaultsByFile DEF Vaults
<1>2. ASSUME NEW e \in Device, NEW f \in File
      PROVE  VaultOf(e, f)' /\ (f \in live(remote) /\ guards(e, f) => guards(e, f)')
  <2>1. CASE e = d
    <3>1. moves(d, f) /\ VaultOf(d, f)
      BY <1>1
    <3> QED
      BY <2>1, <3>1, OneStays, OneRecords, OneTakes, OneMerges, OneHolds DEF moves, live
  <2>2. CASE e # d
    <3>1. stays(e, f) /\ store[e] \subseteq store'[e]
      BY <2>2 DEF stays
    <3> QED
      BY <1>1, <3>1, OneStays
  <2> QED
    BY <2>1, <2>2
<1>3. Counters' /\ CameFromServer' /\ OwnIsHere'
  BY <1>2 DEF Counters, CameFromServer, OwnIsHere, VaultOf, CountersOf, ServerOf, OwnOf
<1>4. Guarded'
  BY <1>2 DEF Vaults, Guarded, live
<1> QED
  BY <1>3, <1>4 DEF Vaults

\* Where no document and no disk changes, a database keeps what its documents
\* name: that is all the guards need.
LEMMA StoresKeep ==
  ASSUME TypeOK, Vaults, UNCHANGED <<doc, held, remote>>,
         \A d \in Device : store[d] \cap referenced(doc[d]) \subseteq store'[d]
  PROVE  Vaults'
<1>1. ASSUME NEW d \in Device, NEW f \in File, doc[d][f] # None, ~doc[d][f].deleted,
             doc[d][f].content \in store[d]
      PROVE  doc[d][f].content \in store'[d]
  <2>1. doc[d][f].content \in referenced(doc[d])
    BY <1>1 DEF referenced, live
  <2> QED
    BY <1>1, <2>1
<1>2. /\ \A d \in Device, f \in File : docClock(d, f)' = docClock(d, f)
      /\ \A f \in File : remoteClock(f)' = remoteClock(f)
  BY DEF docClock, remoteClock, clockOf
<1>3. \A d \in Device, f \in File : own(d, f)' <=> own(d, f)
  BY <1>2 DEF own
<1>4. Counters' /\ CameFromServer'
  BY <1>2, <1>3 DEF Vaults, Counters, CameFromServer
<1>5. OwnIsHere'
  BY <1>1, <1>2, <1>3 DEF Vaults, OwnIsHere, own
<1>6. \A d \in Device, f \in File : guards(d, f) => guards(d, f)'
  BY <1>1 DEF guards, hasIt, ahead, setBack
<1>7. Guarded'
  BY <1>6 DEF Vaults, Guarded, live
<1> QED
  BY <1>4, <1>5, <1>7 DEF Vaults

-----------------------------------------------------------------------------
\* What the three writes leave: the database's documents, the disk, the chunks.
LEMMA Commits ==
  ASSUME TypeOK, NEW d \in Device, NEW f \in File, NEW v \in Doc, Commit(d, f, v)
  PROVE  /\ doc' \in [Device -> Docs] /\ doc'[d][f] = v
         /\ \A g \in File \ {f} : doc'[d][g] = doc[d][g]
         /\ \A e \in Device \ {d} : doc'[e] = doc[e]
  BY DEF Commit, TypeOK, Docs

LEMMA HeldTyped ==
  ASSUME NEW v \in Doc
  PROVE  heldOf(v) \in Baseline
  BY DEF heldOf, Doc, Baseline

LEMMA Holding ==
  ASSUME TypeOK, NEW d \in Device, NEW f \in File, NEW v \in Doc, Hold(d, f, v)
  PROVE  /\ held' \in [Device -> [File -> Baseline \cup {None}]] /\ held'[d][f] = heldOf(v)
         /\ \A g \in File \ {f} : held'[d][g] = held[d][g]
         /\ \A e \in Device \ {d} : held'[e] = held[e]
  BY HeldTyped DEF Hold, TypeOK

LEMMA Puts ==
  ASSUME TypeOK, NEW d \in Device, NEW chunks \in SUBSET Content, NEW files \in SUBSET File,
         PutAbsent(d, chunks, files)
  PROVE  /\ store' \in [Device -> SUBSET Content]
         /\ feed' \in [Device -> SUBSET (File \cup Content)]
         /\ store'[d] = store[d] \cup chunks
         /\ \A e \in Device \ {d} : store'[e] = store[e]
  BY DEF PutAbsent, TypeOK

LEMMA Deletes ==
  ASSUME TypeOK, NEW d \in Device, NEW chunks, DeleteChunks(d, chunks)
  PROVE  /\ store' \in [Device -> SUBSET Content]
         /\ feed' \in [Device -> SUBSET (File \cup Content)]
         /\ store'[d] = store[d] \ chunks
         /\ \A e \in Device \ {d} : store'[e] = store[e]
  BY DEF DeleteChunks, TypeOK

\* No other actor is inside a push, a sweep or the end of a local check.
LEMMA Alone ==
  ASSUME Closed, NEW d \in Device, NEW who, mayRun(d, who)
  PROVE  \A e \in Device :
           /\ push[e] # None => e = d /\ who = "push"
           /\ refs[e] # None => e = d /\ who = "sweep"
           /\ repair[e] # None /\ repair[e].stage = "deleteLocal" => e = d /\ who = "repair"
<1> SUFFICES ASSUME NEW e \in Device
             PROVE  /\ push[e] # None => e = d /\ who = "push"
                    /\ refs[e] # None => e = d /\ who = "sweep"
                    /\ repair[e] # None /\ repair[e].stage = "deleteLocal"
                         => e = d /\ who = "repair"
  OBVIOUS
<1>1. ASSUME push[e] # None PROVE e = d /\ who = "push"
  <2>1. <<"push", <<e, "push">>>> \in inside
    BY <1>1 DEF inside
  <2> QED
    BY <2>1 DEF mayRun, Closed
<1>2. ASSUME refs[e] # None PROVE e = d /\ who = "sweep"
  <2>1. <<"sweep", <<e, "sweep">>>> \in inside
    BY <1>2 DEF inside
  <2> QED
    BY <2>1 DEF mayRun, Closed
<1>3. ASSUME repair[e] # None, repair[e].stage = "deleteLocal" PROVE e = d /\ who = "repair"
  <2>1. window(repair[e]) = "localCheck"
    BY <1>3 DEF window
  <2>2. <<"localCheck", <<e, "repair">>>> \in inside
    BY <1>3, <2>1 DEF inside
  <2> QED
    BY <2>2 DEF mayRun, Closed
<1> QED
  BY <1>1, <1>2, <1>3

JobsRead == PushReads /\ SweepReads /\ RepairReads

LEMMA NothingRead ==
  ASSUME Closed, NEW d \in Device, NEW who \in {"vault", "pull"}, mayRun(d, who),
         UNCHANGED jobs
  PROVE  JobsRead'
<1>1. \A e \in Device : /\ push'[e] = None /\ refs'[e] = None
                        /\ ~(repair'[e] # None /\ repair'[e].stage = "deleteLocal")
  BY Alone DEF jobs
<1> QED
  BY <1>1 DEF JobsRead, PushReads, SweepReads, RepairReads

-----------------------------------------------------------------------------
\* The versions a device records.
LEMMA NextClock ==
  ASSUME TypeOK, NEW d \in Device, NEW f \in File
  PROVE  /\ nextClock(d, f) = incrementVC(docClock(d, f), d)
         /\ nextClock(d, f) \in Clock
         /\ Includes(nextClock(d, f), docClock(d, f))
         /\ nextClock(d, f)[d] > docClock(d, f)[d]
         /\ \A e \in Device \ {d} : nextClock(d, f)[e] = docClock(d, f)[e]
<1>1. nextClock(d, f) = incrementVC(docClock(d, f), d) /\ docClock(d, f) \in Clock
  BY Typed DEF nextClock, docClock, clockOf
<1>2. nextClock(d, f)[d] = docClock(d, f)[d] + 1
  BY <1>1 DEF incrementVC, Clock
<1>3. nextClock(d, f) \in Clock /\ Dominates(nextClock(d, f), docClock(d, f))
      /\ \A e \in Device \ {d} : nextClock(d, f)[e] = docClock(d, f)[e]
  BY <1>1, IncrementDominates
<1> QED
  BY <1>1, <1>2, <1>3 DEF Dominates, Clock

LocalsTyped ==
  /\ doc \in [Device -> Docs] /\ store \in [Device -> SUBSET Content]
  /\ feed \in [Device -> SUBSET (File \cup Content)]
  /\ held \in [Device -> [File -> Baseline \cup {None}]]

ServerTyped == remote \in Docs /\ bodies \subseteq Content

JobsTyped ==
  /\ push \in [Device -> {None} \cup Cycle]
  /\ refs \in [Device -> {None} \cup SUBSET Content]
  /\ repair \in [Device -> {None} \cup Repair]

LEMMA TypeParts ==
  TypeOK <=> LocalsTyped /\ ServerTyped /\ JobsTyped /\ acts \in 0..MaxActs
  BY DEF TypeOK, LocalsTyped, ServerTyped, JobsTyped

LEMMA Together ==
  ASSUME LocalsTyped', ServerTyped', JobsTyped', acts' \in 0..MaxActs, Vaults', JobsRead'
  PROVE  IInv'
  BY DEF IInv, TypeOK, LocalsTyped, ServerTyped, JobsTyped, JobsRead

LEMMA ActCounts ==
  ASSUME TypeOK, act
  PROVE  acts' \in 0..MaxActs
  BY BoundsAssumption DEF TypeOK, act

\* A step of a device that touches one file.
onlyAt(d, f) ==
  /\ \A g \in File \ {f} : doc'[d][g] = doc[d][g] /\ held'[d][g] = held[d][g]
  /\ \A e \in Device \ {d} : /\ doc'[e] = doc[e] /\ held'[e] = held[e]
                             /\ store'[e] = store[e]
  /\ store[d] \subseteq store'[d]

LEMMA FileMoves ==
  ASSUME TypeOK, Vaults, UNCHANGED remote, NEW d \in Device, NEW f \in File,
         onlyAt(d, f), moves(d, f)
  PROVE  Vaults'
<1>1. \A g \in File : moves(d, g)
  <2> SUFFICES ASSUME NEW g \in File, g # f PROVE moves(d, g)
    OBVIOUS
  <2> QED
    BY DEF onlyAt, moves, stays
<1> QED
  BY <1>1, DeviceMoves DEF onlyAt

LEMMA VersionMoves ==
  ASSUME TypeOK, Vaults, UNCHANGED remote, NEW d \in Device, NEW f \in File,
         NEW v \in Doc, NEW chunks \in SUBSET Content,
         Commit(d, f, v), Hold(d, f, v), PutAbsent(d, chunks, {f}),
         ~v.deleted => v.content \in store[d] \cup chunks,
         Includes(v.vclock, docClock(d, f)), v.vclock[d] > docClock(d, f)[d],
         \A e \in Device \ {d} : v.vclock[e] <= remoteClock(f)[e]
  PROVE  LocalsTyped' /\ Vaults'
<1>1. /\ doc' \in [Device -> Docs] /\ doc'[d][f] = v
      /\ \A g \in File \ {f} : doc'[d][g] = doc[d][g]
      /\ \A e \in Device \ {d} : doc'[e] = doc[e]
  BY Commits
<1>2. /\ held' \in [Device -> [File -> Baseline \cup {None}]] /\ held'[d][f] = heldOf(v)
      /\ \A g \in File \ {f} : held'[d][g] = held[d][g]
      /\ \A e \in Device \ {d} : held'[e] = held[e]
  BY Holding
<1>3. /\ store' \in [Device -> SUBSET Content]
      /\ feed' \in [Device -> SUBSET (File \cup Content)]
      /\ store'[d] = store[d] \cup chunks
      /\ \A e \in Device \ {d} : store'[e] = store[e]
  BY Puts
<1>4. records(d, f)
  BY <1>1, <1>2, <1>3 DEF records
<1>5. onlyAt(d, f)
  BY <1>1, <1>2, <1>3 DEF onlyAt
<1> QED
  BY <1>1, <1>2, <1>3, <1>4, <1>5, FileMoves DEF LocalsTyped, moves

LEMMA NextVersion ==
  ASSUME TypeOK, Vaults, NEW d \in Device, NEW f \in File, NEW v \in Doc,
         v.vclock = nextClock(d, f)
  PROVE  /\ Includes(v.vclock, docClock(d, f)) /\ v.vclock[d] > docClock(d, f)[d]
         /\ \A e \in Device \ {d} : v.vclock[e] <= remoteClock(f)[e]
  BY NextClock DEF Vaults, Counters

LEMMA FileRecorded ==
  ASSUME TypeOK, Vaults, UNCHANGED remote, NEW d \in Device, NEW f \in File,
         NEW c \in Content, RecordFile(d, f, c)
  PROVE  LocalsTyped' /\ Vaults'
<1> DEFINE v == [content |-> c, deleted |-> FALSE, vclock |-> nextClock(d, f)]
<1>1. v \in Doc /\ v.vclock = nextClock(d, f) /\ v.content = c
  BY NextClock DEF Doc
<1>2. Commit(d, f, v) /\ Hold(d, f, v) /\ PutAbsent(d, {c}, {f}) /\ {c} \in SUBSET Content
  BY DEF RecordFile
<1>3. v.content \in store[d] \cup {c}
  BY <1>1
<1> HIDE DEF v
<1> QED
  BY <1>1, <1>2, <1>3, NextVersion, VersionMoves

LEMMA DeletionRecorded ==
  ASSUME TypeOK, Vaults, UNCHANGED remote, NEW d \in Device, NEW f \in File,
         doc[d][f] # None, RecordDeletion(d, f)
  PROVE  LocalsTyped' /\ Vaults'
<1> DEFINE v == [doc[d][f] EXCEPT !.deleted = TRUE, !.vclock = nextClock(d, f)]
<1>1. v \in Doc /\ v.vclock = nextClock(d, f) /\ v.deleted = TRUE
  BY NextClock, Typed DEF Doc
<1>2. Commit(d, f, v) /\ Hold(d, f, v) /\ PutAbsent(d, {}, {f})
  BY DEF RecordDeletion
<1>3. {} \in SUBSET Content
  OBVIOUS
<1> HIDE DEF v
<1> QED
  BY <1>1, <1>2, <1>3, NextVersion, VersionMoves

LEMMA EditStep ==
  ASSUME IInv, Closed, NEW d \in Device, NEW f \in File, NEW c \in Content, Edit(d, f, c)
  PROVE  IInv'
<1>1. LocalsTyped' /\ Vaults'
  BY FileRecorded DEF IInv, Edit, server
<1>2. JobsRead'
  BY NothingRead DEF Edit
<1>3. ServerTyped' /\ JobsTyped' /\ acts' \in 0..MaxActs
  BY TypeParts, ActCounts DEF IInv, Edit, server, jobs, ServerTyped, JobsTyped
<1> QED
  BY <1>1, <1>2, <1>3, Together

LEMMA DeleteStep ==
  ASSUME IInv, Closed, NEW d \in Device, NEW f \in File, Delete(d, f)
  PROVE  IInv'
<1>1. LocalsTyped' /\ Vaults'
  BY DeletionRecorded DEF IInv, Delete, server, live
<1>2. JobsRead'
  BY NothingRead DEF Delete
<1>3. ServerTyped' /\ JobsTyped' /\ acts' \in 0..MaxActs
  BY TypeParts, ActCounts DEF IInv, Delete, server, jobs, ServerTyped, JobsTyped
<1> QED
  BY <1>1, <1>2, <1>3, Together

-----------------------------------------------------------------------------
\* The pull: what it accepts is the server's version, or that with the merged
\* clock.
LEMMA Accepted ==
  ASSUME NEW l \in Doc \cup {None}, NEW r \in Doc, NEW v,
         v = acceptedOnPull(l, r) \/ (l = None /\ v = r), v # None
  PROVE  \/ v = r
         \/ /\ l # None /\ sameState(l, r)
            /\ v = [r EXCEPT !.vclock = mergeVC(l.vclock, r.vclock)]
<1>1. CASE l = None
  BY <1>1 DEF acceptedOnPull, resolveOnPull
<1>2. CASE l # None
  <2>1. resolveOnPull(l, r) \in {"take-remote", "silent-merge", "keep-local", "concurrent"}
    <3>1. l.vclock \in Clock /\ r.vclock \in Clock
      BY <1>2 DEF Doc
    <3> QED
      BY <1>2, <3>1, CompareMirrors DEF resolveOnPull, relationOfDocs
  <2>2. resolveOnPull(l, r) = "silent-merge" => sameState(l, r)
    BY <1>2, CompareMirrors DEF resolveOnPull, relationOfDocs, Doc
  <2>3. CASE resolveOnPull(l, r) = "take-remote"
    BY <1>2, <2>3 DEF acceptedOnPull
  <2>4. CASE resolveOnPull(l, r) = "silent-merge"
    BY <1>2, <2>2, <2>4 DEF acceptedOnPull
  <2>5. CASE resolveOnPull(l, r) \in {"keep-local", "concurrent"}
    BY <1>2, <2>5 DEF acceptedOnPull
  <2> QED
    BY <2>1, <2>3, <2>4, <2>5
<1> QED
  BY <1>1, <1>2

LEMMA PullFileStep ==
  ASSUME IInv, Closed, NEW d \in Device, NEW f \in File, PullFile(d, f)
  PROVE  IInv'
<1> DEFINE l == doc[d][f]
           r == remote[f]
           v == accepted(d, f)
<1>0. TypeOK /\ Vaults
  BY DEF IInv
<1>1. /\ l \in Doc \cup {None} /\ r \in Doc /\ r # None /\ v # None
      /\ v = acceptedOnPull(l, r)
  BY <1>0, Typed DEF PullFile, accepted
<1>2. \/ v = r
      \/ l # None /\ sameState(l, r) /\ v = [r EXCEPT !.vclock = mergeVC(l.vclock, r.vclock)]
  BY <1>1, Accepted
<1>3. v \in Doc
  <2>1. l # None => mergeVC(l.vclock, r.vclock) \in Clock
    BY <1>1, MergeIsLub DEF Doc
  <2> QED
    BY <1>1, <1>2, <2>1 DEF Doc
<1>4. Commit(d, f, v) /\ held' = held /\ store' = store /\ remote' = remote
  BY DEF PullFile, server
<1>5. /\ doc' \in [Device -> Docs] /\ doc'[d][f] = v
      /\ \A g \in File \ {f} : doc'[d][g] = doc[d][g]
      /\ \A e \in Device \ {d} : doc'[e] = doc[e]
  BY <1>0, <1>3, <1>4, Commits
<1>6. takes(d, f) \/ merges(d, f)
  BY <1>1, <1>2, <1>4, <1>5 DEF takes, merges
<1>7. onlyAt(d, f)
  BY <1>4, <1>5 DEF onlyAt
<1>8. Vaults'
  BY <1>0, <1>4, <1>6, <1>7, FileMoves DEF moves
<1>9. LocalsTyped'
  BY <1>0, <1>4, <1>5 DEF LocalsTyped, TypeOK, PullFile
<1>10. JobsRead'
  BY NothingRead DEF PullFile
<1>11. ServerTyped' /\ JobsTyped' /\ acts' \in 0..MaxActs
  BY <1>0 DEF PullFile, server, jobs, ServerTyped, JobsTyped, TypeOK
<1> QED
  BY <1>8, <1>9, <1>10, <1>11, Together

\* The choice in a dialog: what is kept with a clock of its own was the
\* device's own before.
LEMMA ConcurrentIsOwn ==
  ASSUME TypeOK, NEW d \in Device, NEW f \in File, CountersOf(d, f), ServerOf(d, f),
         concurrent(d, f)
  PROVE  own(d, f)
<1> DEFINE l == doc[d][f]
           r == remote[f]
<1>1. /\ l \in Doc /\ r \in Doc /\ l # None /\ r # None
      /\ l.vclock \in Clock /\ r.vclock \in Clock
      /\ docClock(d, f) = l.vclock /\ remoteClock(f) = r.vclock
  BY Typed DEF concurrent, Doc
<1>2. ~sameState(l, r) /\ compareVC(l.vclock, r.vclock) \in {"equal", "concurrent"}
  <2>1. compareVC(l.vclock, r.vclock) \in {"equal", "dominates", "dominated", "concurrent"}
    BY <1>1, CompareMirrors
  <2> QED
    BY <1>1, <2>1 DEF concurrent, resolveOnPull, relationOfDocs
<1>3. l.vclock # r.vclock
  BY <1>1, <1>2 DEF ServerOf, sameState
<1>4. Concurrent(l.vclock, r.vclock)
  BY <1>1, <1>2, <1>3, CompareIsOrder
<1> QED
  BY <1>1, <1>4, ElseServerHasSeen DEF Concurrent

LEMMA BothSeen ==
  ASSUME TypeOK, NEW d \in Device, NEW f \in File, CountersOf(d, f), concurrent(d, f),
         NEW both, both = incrementVC(mergeVC(doc[d][f].vclock, remote[f].vclock), d)
  PROVE  /\ both \in Clock
         /\ Includes(both, docClock(d, f)) /\ both[d] > docClock(d, f)[d]
         /\ \A e \in Device \ {d} : both[e] <= remoteClock(f)[e]
<1> DEFINE l == docClock(d, f)
           r == remoteClock(f)
           m == mergeVC(l, r)
<1>1. l = doc[d][f].vclock /\ r = remote[f].vclock /\ l \in Clock /\ r \in Clock
  BY Typed DEF concurrent
<1>2. /\ m \in Clock /\ Includes(m, l)
      /\ \A e \in Device : m[e] = IF l[e] >= r[e] THEN l[e] ELSE r[e]
  BY <1>1, MergeIsLub DEF mergeVC
<1>3. both = incrementVC(m, d)
  BY <1>1
<1> HIDE DEF m
<1>4. /\ both \in Clock /\ Dominates(both, m) /\ both[d] = m[d] + 1
      /\ \A e \in Device \ {d} : both[e] = m[e]
  <2>1. both[d] = m[d] + 1
    BY <1>2, <1>3 DEF incrementVC, Clock
  <2> QED
    BY <1>2, <1>3, <2>1, IncrementDominates
<1>5. Includes(both, l) /\ both[d] > l[d]
  BY <1>1, <1>2, <1>4 DEF Dominates, Includes, Clock
<1>6. ASSUME NEW e \in Device \ {d} PROVE both[e] <= r[e]
  <2>1. l[e] <= r[e] /\ l[e] \in Nat /\ r[e] \in Nat
    BY <1>1 DEF CountersOf, Clock
  <2>2. m[e] <= r[e]
    BY <1>2, <2>1
  <2> QED
    BY <1>4, <2>2
<1> QED
  BY <1>4, <1>5, <1>6

LEMMA ResolveStep ==
  ASSUME IInv, Closed, NEW d \in Device, NEW f \in File, Resolve(d, f)
  PROVE  IInv'
<1> DEFINE l == doc[d][f]
           r == remote[f]
           both  == incrementVC(mergeVC(l.vclock, r.vclock), d)
           kept  == [l EXCEPT !.vclock = both]
           taken == IF r.deleted THEN [r EXCEPT !.vclock = both] ELSE r
           chunks == {r.content} \cap bodies
<1>0. TypeOK /\ Vaults /\ remote' = remote /\ VaultOf(d, f)
  BY VaultsByFile DEF IInv, Resolve, server, Vaults
<1>1. l \in Doc /\ r \in Doc /\ l # None /\ r # None /\ concurrent(d, f)
  BY <1>0, Typed DEF Resolve, concurrent
<1>2. /\ both \in Clock
      /\ Includes(both, docClock(d, f)) /\ both[d] > docClock(d, f)[d]
      /\ \A e \in Device \ {d} : both[e] <= remoteClock(f)[e]
  BY <1>0, <1>1, BothSeen DEF VaultOf
<1>3. own(d, f)
  BY <1>0, <1>1, ConcurrentIsOwn DEF VaultOf
<1>4. PutAbsent(d, chunks, {f}) /\ chunks \in SUBSET Content
  BY <1>0 DEF Resolve, TypeOK
<1>5. \/ /\ Commit(d, f, kept)
         /\ IF held[d][f] # None /\ held[d][f].content = heldOf(kept).content
              THEN Hold(d, f, kept) ELSE UNCHANGED held
      \/ /\ Commit(d, f, taken)
         /\ IF taken.deleted \/ taken.content \in store[d] \cup bodies
              THEN Hold(d, f, taken) ELSE UNCHANGED held
  BY DEF Resolve
<1> HIDE DEF both, chunks
<1>6. ASSUME /\ Commit(d, f, kept)
             /\ IF held[d][f] # None /\ held[d][f].content = heldOf(kept).content
                  THEN Hold(d, f, kept) ELSE UNCHANGED held
      PROVE  LocalsTyped' /\ Vaults'
  <2>1. /\ kept \in Doc /\ kept.vclock = both /\ kept.deleted = l.deleted
        /\ kept.content = l.content /\ heldOf(kept).content = heldOf(l).content
    BY <1>1, <1>2 DEF Doc, heldOf
  <2>2. /\ held[d][f] # None /\ held[d][f].content = heldOf(kept).content
        /\ ~kept.deleted => kept.content \in store[d]
    BY <1>0, <1>3, <2>1 DEF VaultOf, OwnOf
  <2>3. Commit(d, f, kept) /\ Hold(d, f, kept)
    BY <1>6, <2>2
  <2> HIDE DEF kept
  <2> QED
    BY <1>0, <1>2, <1>4, <2>1, <2>2, <2>3, VersionMoves
<1>7. ASSUME /\ r.deleted /\ Commit(d, f, taken)
             /\ IF taken.deleted \/ taken.content \in store[d] \cup bodies
                  THEN Hold(d, f, taken) ELSE UNCHANGED held
      PROVE  LocalsTyped' /\ Vaults'
  <2>1. taken \in Doc /\ taken.vclock = both /\ taken.deleted
    BY <1>1, <1>2, <1>7 DEF Doc
  <2>2. Commit(d, f, taken) /\ Hold(d, f, taken)
    BY <1>7, <2>1
  <2> HIDE DEF taken
  <2> QED
    BY <1>0, <1>2, <1>4, <2>1, <2>2, VersionMoves
<1>8. ASSUME /\ ~r.deleted /\ Commit(d, f, taken)
             /\ IF taken.deleted \/ taken.content \in store[d] \cup bodies
                  THEN Hold(d, f, taken) ELSE UNCHANGED held
      PROVE  LocalsTyped' /\ Vaults'
  <2>1. taken = r /\ Commit(d, f, r)
    BY <1>8
  <2>2. IF r.content \in store[d] \cup bodies THEN Hold(d, f, r) ELSE UNCHANGED held
    BY <1>8, <2>1
  <2>3. /\ doc' \in [Device -> Docs] /\ doc'[d][f] = r
        /\ \A g \in File \ {f} : doc'[d][g] = doc[d][g]
        /\ \A e \in Device \ {d} : doc'[e] = doc[e]
    BY <1>0, <1>1, <2>1, Commits
  <2>4. /\ store' \in [Device -> SUBSET Content]
        /\ feed' \in [Device -> SUBSET (File \cup Content)]
        /\ store'[d] = store[d] \cup chunks
        /\ \A e \in Device \ {d} : store'[e] = store[e]
    BY <1>0, <1>4, Puts
  <2>5. /\ held' \in [Device -> [File -> Baseline \cup {None}]]
        /\ \A g \in File \ {f} : held'[d][g] = held[d][g]
        /\ \A e \in Device \ {d} : held'[e] = held[e]
        /\ \/ held'[d][f] = held[d][f]
           \/ held'[d][f] = heldOf(r) /\ r.content \in store[d] \cup bodies
    <3>1. CASE r.content \in store[d] \cup bodies
      BY <1>0, <1>1, <2>2, <3>1, Holding
    <3>2. CASE r.content \notin store[d] \cup bodies
      BY <1>0, <2>2, <3>2 DEF TypeOK
    <3> QED
      BY <3>1, <3>2
  <2>6. takes(d, f)
    BY <1>1, <2>3, <2>4, <2>5 DEF takes, chunks
  <2>7. onlyAt(d, f)
    BY <2>3, <2>4, <2>5 DEF onlyAt
  <2> QED
    BY <1>0, <2>3, <2>4, <2>5, <2>6, <2>7, FileMoves DEF moves, LocalsTyped
<1>9. LocalsTyped' /\ Vaults'
  BY <1>5, <1>6, <1>7, <1>8
<1>10. JobsRead'
  BY NothingRead DEF Resolve
<1>11. ServerTyped' /\ JobsTyped' /\ acts' \in 0..MaxActs
  BY <1>0 DEF Resolve, server, jobs, ServerTyped, JobsTyped, TypeOK
<1> QED
  BY <1>9, <1>10, <1>11, Together

-----------------------------------------------------------------------------
\* The reconcile: it records only what a baseline explains, and what it adopts
\* is what the disk holds.
LEMMA Decisions ==
  ASSUME TypeOK, NEW d \in Device, NEW f \in File, doc[d][f] # None
  PROVE  /\ decision(d, f) \in {"push", "delete", "conflict"} => held[d][f] # None
         /\ decision(d, f) = "adopt" =>
              /\ held[d][f] # None /\ ~doc[d][f].deleted
              /\ held[d][f].content = doc[d][f].content
<1> DEFINE l == doc[d][f]
           h == held[d][f]
           x == IF h = None THEN None ELSE h.content
<1>1. l \in Doc /\ h \in Baseline \cup {None} /\ x \in Content \cup {None}
  BY Typed DEF Baseline
<1>2. decision(d, f) = reconcileDecision(x, l, h, FALSE)
  BY DEF decision
<1> HIDE DEF x
<1>3. CASE x # None
  <2>1. h # None /\ x = h.content
    BY <1>3 DEF x
  <2>2. decision(d, f) = decisionForFile(x, l, h)
    BY <1>2, <1>3 DEF reconcileDecision
  <2>3. /\ relationOfFile(x, l, h) \in {"identical", "vclock-only-drift", "true-divergent",
                                        "remote-edit", "local-edit"}
        /\ relationOfFile(x, l, h) \in {"identical", "vclock-only-drift"}
             <=> ~l.deleted /\ l.content = x
    BY <1>1, <1>3, FileRelation
  <2>4. decisionForFile(x, l, h) = "adopt" => relationOfFile(x, l, h) = "vclock-only-drift"
    BY <2>3 DEF decisionForFile
  <2> QED
    BY <2>1, <2>2, <2>3, <2>4
<1>4. CASE x = None /\ ~l.deleted
  <2>1. decision(d, f) = decisionForMissing(l, h, FALSE)
    BY <1>2, <1>4 DEF reconcileDecision
  <2>2. decision(d, f) \in {"apply", "conflict", "delete"}
    BY <1>1, <1>4, <2>1, MissingDecision
  <2>3. h = None => decision(d, f) = "apply"
    BY <2>1 DEF decisionForMissing
  <2> QED
    BY <2>2, <2>3
<1>5. CASE x = None /\ l.deleted
  <2>1. decision(d, f) \in {"apply", "nothing"}
    BY <1>2, <1>5 DEF reconcileDecision
  <2> QED
    BY <2>1
<1> QED
  BY <1>1, <1>3, <1>4, <1>5

LEMMA HoldMoves ==
  ASSUME TypeOK, Vaults, UNCHANGED <<remote, doc>>, NEW d \in Device, NEW f \in File,
         doc[d][f] # None, Hold(d, f, doc[d][f]),
         store' \in [Device -> SUBSET Content],
         feed' \in [Device -> SUBSET (File \cup Content)],
         store[d] \subseteq store'[d],
         \A e \in Device \ {d} : store'[e] = store[e],
         ~doc[d][f].deleted => \/ doc[d][f].content \in store'[d]
                               \/ held[d][f] # None /\ held[d][f].content = doc[d][f].content
  PROVE  LocalsTyped' /\ Vaults'
<1>1. doc[d][f] \in Doc
  BY Typed
<1>2. /\ held' \in [Device -> [File -> Baseline \cup {None}]]
      /\ held'[d][f] = heldOf(doc[d][f])
      /\ \A g \in File \ {f} : held'[d][g] = held[d][g]
      /\ \A e \in Device \ {d} : held'[e] = held[e]
  BY <1>1, Holding
<1>3. holds(d, f) /\ onlyAt(d, f)
  BY <1>2 DEF holds, onlyAt
<1> QED
  BY <1>2, <1>3, FileMoves DEF moves, LocalsTyped, TypeOK

LEMMA ReconcileStep ==
  ASSUME IInv, Closed, NEW d \in Device, NEW f \in File, Reconcile(d, f)
  PROVE  IInv'
<1>0. TypeOK /\ Vaults /\ remote' = remote /\ doc[d][f] # None /\ doc[d][f] \in Doc
  BY Typed DEF IInv, Reconcile, server
<1>1. ASSUME TakeDoc(d, f)
      PROVE  LocalsTyped' /\ Vaults'
  <2> DEFINE chunks == IF doc[d][f].deleted THEN {} ELSE {doc[d][f].content}
  <2>1. PutAbsent(d, chunks, {}) /\ chunks \in SUBSET Content /\ {} \in SUBSET File
    BY <1>0, <1>1 DEF TakeDoc, Doc
  <2>2. ~doc[d][f].deleted => doc[d][f].content \in chunks
    OBVIOUS
  <2> HIDE DEF chunks
  <2>3. /\ store' \in [Device -> SUBSET Content]
        /\ feed' \in [Device -> SUBSET (File \cup Content)]
        /\ store'[d] = store[d] \cup chunks
        /\ \A e \in Device \ {d} : store'[e] = store[e]
    BY <1>0, <2>1, Puts
  <2>4. Hold(d, f, doc[d][f]) /\ doc' = doc
    BY <1>1 DEF TakeDoc
  <2> QED
    BY <1>0, <2>2, <2>3, <2>4, HoldMoves
<1>2. ASSUME /\ decision(d, f) = "adopt" /\ Hold(d, f, doc[d][f])
             /\ UNCHANGED <<doc, store, feed>>
      PROVE  LocalsTyped' /\ Vaults'
  <2>1. held[d][f] # None /\ held[d][f].content = doc[d][f].content
    BY <1>0, <1>2, Decisions
  <2>2. /\ store' \in [Device -> SUBSET Content]
        /\ feed' \in [Device -> SUBSET (File \cup Content)]
        /\ store' = store /\ doc' = doc
    BY <1>0, <1>2 DEF TypeOK
  <2> QED
    BY <1>0, <1>2, <2>1, <2>2, HoldMoves
<1>3. ASSUME /\ decision(d, f) \in {"push", "conflict"} /\ held[d][f].content # None
             /\ RecordFile(d, f, held[d][f].content)
      PROVE  LocalsTyped' /\ Vaults'
  <2>1. held[d][f] \in Baseline /\ held[d][f].content \in Content
    BY <1>0, <1>3, Decisions, Typed DEF Baseline
  <2> QED
    BY <1>0, <1>3, <2>1, FileRecorded
<1>4. ASSUME RecordDeletion(d, f)
      PROVE  LocalsTyped' /\ Vaults'
  BY <1>0, <1>4, DeletionRecorded
<1>5. LocalsTyped' /\ Vaults'
  BY <1>1, <1>2, <1>3, <1>4 DEF Reconcile
<1>6. JobsRead'
  BY NothingRead DEF Reconcile
<1>7. ServerTyped' /\ JobsTyped' /\ acts' \in 0..MaxActs
  BY <1>0 DEF Reconcile, server, jobs, ServerTyped, JobsTyped, TypeOK
<1> QED
  BY <1>5, <1>6, <1>7, Together

-----------------------------------------------------------------------------
\* The push sends what dominates the server's version, or is the first one.
LEMMA ProceedsOver ==
  ASSUME NEW l \in Doc, NEW r \in Doc, classifyForPush(l, r) = "proceed"
  PROVE  Dominates(l.vclock, r.vclock)
<1>1. l.vclock \in Clock /\ r.vclock \in Clock /\ r # None
  BY NoneIsNothing DEF Doc
<1>2. compareVC(l.vclock, r.vclock) \in {"equal", "dominates", "dominated", "concurrent"}
  BY <1>1, CompareMirrors
<1>3. compareVC(l.vclock, r.vclock) = "dominates"
  <2>1. CASE sameBody(l, r)
    BY <1>1, <1>2, <2>1 DEF classifyForPush
  <2>2. CASE ~sameBody(l, r)
    BY <1>1, <1>2, <2>2 DEF classifyForPush
  <2> QED
    BY <2>1, <2>2
<1> QED
  BY <1>1, <1>3, CompareIsOrder

LEMMA PushBeginStep ==
  ASSUME IInv, NEW d \in Device, PushBegin(d)
  PROVE  IInv'
<1> DEFINE goes == {f \in feed[d] \cap File : classifyForPush(doc[d][f], remote[f]) = "proceed"}
           cycle == [ids    |-> feed[d],
                     files  |-> [f \in File |-> IF f \in goes THEN doc[d][f] ELSE None],
                     over   |-> remote,
                     chunks |-> feed[d] \cap store[d],
                     sent   |-> FALSE]
<1>0. TypeOK /\ Vaults /\ PushReads /\ SweepReads /\ RepairReads
  BY DEF IInv
<1>1. /\ push' = [push EXCEPT ![d] = cycle] /\ feed' = [feed EXCEPT ![d] = {}]
      /\ UNCHANGED <<doc, store, held, remote, bodies, refs, repair, acts>>
  BY DEF PushBegin, server
<1>2. cycle \in Cycle
  BY <1>0 DEF TypeOK, Docs, Cycle
<1>3. ASSUME NEW f \in File, cycle.files[f] # None
      PROVE  /\ cycle.files[f] = doc[d][f]
             /\ remote[f] # None => Dominates(doc[d][f].vclock, remote[f].vclock)
  <2>1. f \in goes /\ cycle.files[f] = doc[d][f]
    BY <1>3
  <2>2. doc[d][f] \in Doc /\ remote[f] \in Doc \cup {None}
    BY <1>0, <1>3, <2>1, Typed
  <2> QED
    BY <2>1, <2>2, ProceedsOver
<1> HIDE DEF cycle, goes
<1>5. \A e \in Device : push'[e] = push[e] \/ (e = d /\ push'[e] = cycle)
  BY <1>0, <1>1 DEF TypeOK
<1>6. LocalsTyped' /\ ServerTyped' /\ JobsTyped' /\ acts' \in 0..MaxActs
  BY <1>0, <1>1, <1>2, <1>5 DEF LocalsTyped, ServerTyped, JobsTyped, TypeOK
<1>7. Vaults'
  BY <1>0, <1>1, StoresKeep
<1>8. PushReads'
  BY <1>0, <1>1, <1>3, <1>5 DEF PushReads
<1>9. SweepReads' /\ RepairReads'
  BY <1>0, <1>1 DEF SweepReads, RepairReads
<1> QED
  BY <1>6, <1>7, <1>8, <1>9, Together DEF JobsRead

LEMMA PushChunksStep ==
  ASSUME IInv, NEW d \in Device, PushChunks(d)
  PROVE  IInv'
<1>0. TypeOK /\ Vaults /\ PushReads /\ SweepReads /\ RepairReads
  BY DEF IInv
<1>1. /\ push[d] # None /\ push[d] \in Cycle /\ bodies' = bodies \cup push[d].chunks
      /\ push' = [push EXCEPT ![d] = [push[d] EXCEPT !.sent = TRUE]]
      /\ UNCHANGED <<doc, store, feed, held, remote, refs, repair, acts>>
  BY <1>0 DEF PushChunks, locals, TypeOK
<1>2. [push[d] EXCEPT !.sent = TRUE] \in Cycle
      /\ [push[d] EXCEPT !.sent = TRUE].files = push[d].files
  BY <1>1 DEF Cycle
<1>3. \A e \in Device : \/ push'[e] = push[e]
                        \/ /\ push'[e] \in Cycle /\ push'[e].files = push[e].files
                           /\ push[e] # None
  BY <1>0, <1>1, <1>2 DEF TypeOK
<1>4. LocalsTyped' /\ ServerTyped' /\ JobsTyped' /\ acts' \in 0..MaxActs
  BY <1>0, <1>1, <1>3 DEF LocalsTyped, ServerTyped, JobsTyped, TypeOK, Cycle
<1>5. Vaults'
  BY <1>0, <1>1, StoresKeep
<1>6. PushReads'
  BY <1>0, <1>1, <1>3 DEF PushReads
<1>7. SweepReads' /\ RepairReads'
  BY <1>0, <1>1 DEF SweepReads, RepairReads
<1> QED
  BY <1>4, <1>5, <1>6, <1>7, Together DEF JobsRead

LEMMA PushFailsStep ==
  ASSUME IInv, NEW d \in Device, PushFails(d)
  PROVE  IInv'
<1>0. TypeOK /\ Vaults /\ PushReads /\ SweepReads /\ RepairReads
  BY DEF IInv
<1>1. /\ push[d] \in Cycle
      /\ feed' = [feed EXCEPT ![d] = @ \cup (push[d].ids \ (Content \ store[d]))]
      /\ push' = [push EXCEPT ![d] = None]
      /\ UNCHANGED <<doc, store, held, remote, bodies, refs, repair>>
  BY <1>0 DEF PushFails, server, TypeOK
<1>2. \A e \in Device : push'[e] = push[e] \/ push'[e] = None
  BY <1>0, <1>1 DEF TypeOK
<1>3. feed' \in [Device -> SUBSET (File \cup Content)]
  BY <1>0, <1>1 DEF TypeOK, Cycle
<1>4. LocalsTyped' /\ ServerTyped' /\ JobsTyped'
  BY <1>0, <1>1, <1>2, <1>3 DEF LocalsTyped, ServerTyped, JobsTyped, TypeOK
<1>5. acts' \in 0..MaxActs
  BY <1>0, ActCounts DEF PushFails
<1>6. Vaults'
  BY <1>0, <1>1, StoresKeep
<1>7. PushReads' /\ SweepReads' /\ RepairReads'
  BY <1>0, <1>1, <1>2 DEF PushReads, SweepReads, RepairReads
<1> QED
  BY <1>4, <1>5, <1>6, <1>7, Together DEF JobsRead

\* A version that reaches the server is there with its chunk in the database of
\* the device it comes from, and takes nothing of their own from the others.
LEMMA VersionArrives ==
  ASSUME TypeOK, NEW d \in Device, NEW f \in File, \A e \in Device : VaultOf(e, f),
         doc[d][f] # None, remote'[f] = doc[d][f],
         remote[f] # None => Dominates(doc[d][f].vclock, remote[f].vclock),
         UNCHANGED <<doc, store, held>>
  PROVE  /\ \A e \in Device : VaultOf(e, f)'
         /\ ~doc[d][f].deleted => hasIt(d, f)'
<1> DEFINE v == doc[d][f]
           r == remoteClock(f)
<1>1. /\ v \in Doc /\ v # None /\ v.vclock \in Clock /\ r \in Clock
      /\ docClock(d, f) = v.vclock
  BY Typed DEF Doc
<1>2. own(d, f)
  <2>1. CASE remote[f] = None
    BY <2>1 DEF VaultOf, ServerOf
  <2>2. CASE remote[f] # None
    BY <2>2, AheadIsOwn DEF VaultOf, ahead
  <2> QED
    BY <2>1, <2>2
<1>3. Includes(v.vclock, r)
  <2>1. CASE remote[f] = None
    BY <1>1, <2>1 DEF remoteClock, clockOf, ZeroClock, Includes, Clock
  <2>2. CASE remote[f] # None
    BY <2>2, Typed DEF Dominates
  <2> QED
    BY <2>1, <2>2
<1>4. /\ remoteClock(f)' = v.vclock
      /\ \A e \in Device : docClock(e, f)' = docClock(e, f)
  BY <1>1 DEF remoteClock, docClock, clockOf
<1>5. v.vclock[d] > r[d]
  BY <1>1, <1>2 DEF own
<1>6. VaultOf(d, f)' /\ ~own(d, f)'
  <2>1. ~own(d, f)'
    BY <1>1, <1>4 DEF own, Clock
  <2>2. CountersOf(d, f)'
    BY <1>1, <1>4 DEF CountersOf, Clock
  <2> QED
    BY <1>1, <2>1, <2>2 DEF VaultOf, ServerOf, OwnOf
<1>7. ASSUME NEW e \in Device, e # d PROVE VaultOf(e, f)'
  <2> DEFINE o == docClock(e, f)
  <2>1. /\ o \in Clock /\ VaultOf(e, f)
        /\ doc[e][f] # None => o = doc[e][f].vclock
    BY Typed
  <2>2. v.vclock[e] = r[e]
    BY <1>1, <1>3, <1>7 DEF VaultOf, CountersOf, Includes, Clock
  <2>3. o[e] >= r[e] /\ \A x \in Device \ {e} : o[x] <= r[x]
    BY <2>1 DEF VaultOf, CountersOf
  <2>4. CountersOf(e, f)'
    <3>1. \A x \in Device \ {e} : o[x] <= v.vclock[x]
      BY <1>1, <1>3, <2>1, <2>3 DEF Includes, Clock
    <3> QED
      BY <1>4, <2>2, <2>3, <3>1 DEF CountersOf
  <2>5. own(e, f)' <=> own(e, f)
    BY <1>4, <2>2 DEF own
  <2>6. o # v.vclock
    BY <1>1, <1>5, <1>7, <2>1, <2>3 DEF Clock
  <2>7. ServerOf(e, f)'
    BY <1>1, <2>1, <2>6 DEF ServerOf
  <2>8. OwnOf(e, f)'
    BY <1>4, <2>1, <2>2, <2>5 DEF VaultOf, OwnOf
  <2> QED
    BY <2>4, <2>7, <2>8 DEF VaultOf
<1>8. ASSUME ~v.deleted PROVE hasIt(d, f)'
  <2>1. v.content \in store[d]
    BY <1>2, <1>8 DEF VaultOf, OwnOf
  <2>2. Includes(v.vclock, v.vclock)
    BY <1>1 DEF Includes, Clock
  <2> QED
    BY <1>1, <1>8, <2>1, <2>2 DEF hasIt
<1> QED
  BY <1>6, <1>7, <1>8

LEMMA PushFilesStep ==
  ASSUME IInv, Closed, NEW d \in Device, PushFiles(d)
  PROVE  IInv'
<1> DEFINE goes == {f \in File : push[d].files[f] # None}
           wins == {f \in goes : remote[f] = push[d].over[f]}
<1>0. TypeOK /\ Vaults /\ PushReads /\ SweepReads /\ RepairReads
  BY DEF IInv
<1>1. /\ push[d] # None /\ push[d] \in Cycle
      /\ remote' = [f \in File |-> IF f \in wins THEN push[d].files[f] ELSE remote[f]]
      /\ feed' = [feed EXCEPT ![d] = @ \cup (goes \ wins)]
      /\ push' = [push EXCEPT ![d] = None]
      /\ UNCHANGED <<doc, store, held, bodies, refs, repair, acts>>
  BY <1>0 DEF PushFiles, TypeOK
<1>2. wins \subseteq goes /\ goes \subseteq File
  OBVIOUS
<1>3. ASSUME NEW f \in wins
      PROVE  /\ push[d].files[f] = doc[d][f] /\ doc[d][f] # None /\ f \in File
             /\ remote[f] # None => Dominates(doc[d][f].vclock, remote[f].vclock)
  BY <1>0, <1>1, <1>3 DEF PushReads
<1>4. \A f \in File \ wins : remote'[f] = remote[f]
  BY <1>1
<1>5. \A f \in wins : remote'[f] = doc[d][f]
  BY <1>1, <1>3
<1>6. \A f \in File : \A e \in Device : VaultOf(e, f)
  BY <1>0, VaultsByFile DEF Vaults
<1> HIDE DEF wins, goes
<1>7. ASSUME NEW f \in wins
      PROVE  /\ \A e \in Device : VaultOf(e, f)'
             /\ ~doc[d][f].deleted => hasIt(d, f)'
  BY <1>0, <1>1, <1>3, <1>5, <1>6, <1>7, VersionArrives
<1>8. ASSUME NEW f \in File \ wins, NEW e \in Device
      PROVE  VaultOf(e, f)' /\ (guards(e, f) => guards(e, f)')
  <2>1. remote'[f] = remote[f] /\ VaultOf(e, f)
    BY <1>4, <1>6
  <2>2. docClock(e, f)' = docClock(e, f) /\ remoteClock(f)' = remoteClock(f)
    BY <1>1, <2>1 DEF docClock, remoteClock, clockOf
  <2>3. own(e, f)' <=> own(e, f)
    BY <1>1, <2>2 DEF own
  <2>4. VaultOf(e, f)'
    BY <1>1, <2>1, <2>2, <2>3 DEF VaultOf, CountersOf, ServerOf, OwnOf
  <2>5. guards(e, f) => guards(e, f)'
    BY <1>1, <2>1 DEF guards, hasIt, ahead, setBack
  <2> QED
    BY <2>4, <2>5
<1>9. Counters' /\ CameFromServer' /\ OwnIsHere'
  BY <1>7, <1>8 DEF Counters, CameFromServer, OwnIsHere, VaultOf, CountersOf, ServerOf, OwnOf
<1>10. Guarded'
  <2> SUFFICES ASSUME NEW f \in File, (f \in live(remote))'
               PROVE  \E e \in Device : guards(e, f)'
    BY DEF Guarded
  <2>1. CASE f \in wins
    BY <1>5, <1>7, <2>1 DEF live, guards
  <2>2. CASE f \notin wins
    <3>1. f \in live(remote)
      BY <1>4, <2>2 DEF live
    <3>2. PICK e \in Device : guards(e, f)
      BY <1>0, <3>1 DEF Vaults, Guarded
    <3> QED
      BY <1>8, <2>2, <3>2
  <2> QED
    BY <2>1, <2>2
<1>11. \A e \in Device : /\ push'[e] = None /\ refs'[e] = None
                         /\ ~(repair'[e] # None /\ repair'[e].stage = "deleteLocal")
  <2>1. \A e \in Device : /\ push[e] # None => e = d
                          /\ refs[e] = None
                          /\ ~(repair[e] # None /\ repair[e].stage = "deleteLocal")
    BY Alone DEF PushFiles
  <2>2. push'[d] = None /\ \A e \in Device \ {d} : push'[e] = push[e]
    BY <1>0, <1>1 DEF TypeOK
  <2>3. refs' = refs /\ repair' = repair
    BY <1>1
  <2>4. \A e \in Device : push'[e] = None
    BY <2>1, <2>2
  <2> QED
    BY <2>1, <2>3, <2>4
<1>12. JobsRead'
  BY <1>11 DEF JobsRead, PushReads, SweepReads, RepairReads
<1>13. remote' \in Docs
  BY <1>0, <1>1 DEF TypeOK, Docs, Cycle
<1>14. LocalsTyped' /\ ServerTyped' /\ JobsTyped' /\ acts' \in 0..MaxActs
  <2>1. feed' \in [Device -> SUBSET (File \cup Content)]
    BY <1>0, <1>1, <1>2 DEF TypeOK
  <2> QED
    BY <1>0, <1>1, <1>11, <1>13, <2>1 DEF LocalsTyped, ServerTyped, JobsTyped, TypeOK
<1> QED
  BY <1>9, <1>10, <1>12, <1>14, Together DEF Vaults

-----------------------------------------------------------------------------
\* The sweep and the repair change no document and no disk.
LEMMA Upkept ==
  ASSUME IInv, UNCHANGED <<doc, held, remote, push>>,
         store' \in [Device -> SUBSET Content],
         feed' \in [Device -> SUBSET (File \cup Content)],
         bodies' \subseteq Content,
         refs' \in [Device -> {None} \cup SUBSET Content],
         repair' \in [Device -> {None} \cup Repair],
         acts' \in 0..MaxActs,
         \A d \in Device : store[d] \cap referenced(doc[d]) \subseteq store'[d],
         \A d \in Device : refs'[d] \in {None, refs[d], referenced(doc[d])},
         \A d \in Device : repair'[d] # repair[d] /\ repair'[d] # None
                             /\ repair'[d].stage = "deleteLocal" =>
                               repair'[d].toDeleteLocal \cap referenced(doc[d]) = {}
  PROVE  IInv'
<1>0. TypeOK /\ Vaults /\ PushReads /\ SweepReads /\ RepairReads
  BY DEF IInv
<1>1. LocalsTyped' /\ ServerTyped' /\ JobsTyped'
  BY <1>0 DEF LocalsTyped, ServerTyped, JobsTyped, TypeOK
<1>2. Vaults'
  BY <1>0, StoresKeep
<1>3. PushReads'
  BY <1>0 DEF PushReads
<1>4. SweepReads'
  BY <1>0 DEF SweepReads
<1>5. RepairReads'
  <2> SUFFICES ASSUME NEW d \in Device, repair'[d] # None, repair'[d].stage = "deleteLocal"
               PROVE  repair'[d].toDeleteLocal \cap referenced(doc[d]) = {}
    BY DEF RepairReads
  <2>1. CASE repair'[d] = repair[d]
    BY <1>0, <2>1 DEF RepairReads
  <2>2. CASE repair'[d] # repair[d]
    BY <2>2
  <2> QED
    BY <2>1, <2>2
<1> QED
  BY <1>1, <1>2, <1>3, <1>4, <1>5, Together DEF JobsRead

LEMMA ReferencedTyped ==
  ASSUME TypeOK, NEW d \in Device
  PROVE  referenced(doc[d]) \subseteq Content
<1> SUFFICES ASSUME NEW f \in live(doc[d]) PROVE doc[d][f].content \in Content
  BY DEF referenced
<1>1. f \in File /\ doc[d][f] # None
  BY DEF live
<1>2. doc[d][f] \in Doc
  BY <1>1, Typed
<1> QED
  BY <1>2 DEF Doc

LEMMA SweepBeginStep ==
  ASSUME IInv, NEW d \in Device, SweepBegin(d)
  PROVE  IInv'
<1>0. TypeOK
  BY DEF IInv
<1>1. /\ refs' = [refs EXCEPT ![d] = referenced(doc[d])]
      /\ UNCHANGED <<doc, store, feed, held, remote, bodies, push, repair, acts>>
  BY DEF SweepBegin, locals, server
<1>2. referenced(doc[d]) \in SUBSET Content
  BY <1>0, ReferencedTyped
<1>3. /\ refs' \in [Device -> {None} \cup SUBSET Content]
      /\ refs'[d] = referenced(doc[d]) /\ \A e \in Device \ {d} : refs'[e] = refs[e]
  BY <1>0, <1>1, <1>2 DEF TypeOK
<1>4. \A e \in Device : refs'[e] \in {None, refs[e], referenced(doc[e])}
  BY <1>3
<1> QED
  BY <1>0, <1>1, <1>3, <1>4, Upkept DEF TypeOK

LEMMA SweepStep ==
  ASSUME IInv, NEW d \in Device, SweepOrphanChunks(d)
  PROVE  IInv'
<1>0. TypeOK /\ SweepReads
  BY DEF IInv
<1>1. /\ refs[d] # None /\ DeleteChunks(d, store[d] \ refs[d])
      /\ refs' = [refs EXCEPT ![d] = None]
      /\ UNCHANGED <<doc, held, remote, bodies, push, repair, acts>>
  BY DEF SweepOrphanChunks, server
<1>2. /\ store' \in [Device -> SUBSET Content]
      /\ feed' \in [Device -> SUBSET (File \cup Content)]
      /\ store'[d] = store[d] \ (store[d] \ refs[d])
      /\ \A e \in Device \ {d} : store'[e] = store[e]
  BY <1>0, <1>1, Deletes
<1>3. refs[d] = referenced(doc[d])
  BY <1>0, <1>1 DEF SweepReads
<1>4. \A e \in Device : store[e] \cap referenced(doc[e]) \subseteq store'[e]
  BY <1>2, <1>3
<1>5. /\ refs' \in [Device -> {None} \cup SUBSET Content]
      /\ \A e \in Device : refs'[e] \in {None, refs[e]}
  BY <1>0, <1>1 DEF TypeOK
<1> QED
  BY <1>0, <1>1, <1>2, <1>4, <1>5, Upkept DEF TypeOK

\* A step of one repair: what it may do to the stores and to its own record.
LEMMA Repaired ==
  ASSUME IInv, UNCHANGED <<doc, held, remote, push, refs>>, NEW d \in Device,
         store' \in [Device -> SUBSET Content],
         feed' \in [Device -> SUBSET (File \cup Content)],
         bodies' \subseteq Content, acts' \in 0..MaxActs,
         NEW r \in {None} \cup Repair, repair' = [repair EXCEPT ![d] = r],
         r # None /\ r.stage = "deleteLocal" =>
           r.toDeleteLocal \cap referenced(doc[d]) = {},
         store[d] \cap referenced(doc[d]) \subseteq store'[d],
         \A e \in Device \ {d} : store'[e] = store[e]
  PROVE  IInv'
<1>0. TypeOK
  BY DEF IInv
<1>1. /\ repair' \in [Device -> {None} \cup Repair] /\ repair'[d] = r
      /\ \A e \in Device \ {d} : repair'[e] = repair[e]
  BY <1>0 DEF TypeOK
<1>2. \A e \in Device : repair'[e] # repair[e] /\ repair'[e] # None
                          /\ repair'[e].stage = "deleteLocal" =>
                            repair'[e].toDeleteLocal \cap referenced(doc[e]) = {}
  BY <1>1
<1>3. \A e \in Device : store[e] \cap referenced(doc[e]) \subseteq store'[e]
  OBVIOUS
<1>4. refs' \in [Device -> {None} \cup SUBSET Content]
      /\ \A e \in Device : refs'[e] \in {None, refs[e], referenced(doc[e])}
  BY <1>0 DEF TypeOK
<1> QED
  BY <1>1, <1>2, <1>3, <1>4, Upkept

LEMMA DriftTyped ==
  ASSUME TypeOK, NEW d \in Device, NEW used \in SUBSET Content
  PROVE  drift(d, used) \in Repair /\ drift(d, used).stage = "copy"
<1>1. localOnly(d) \in SUBSET Content /\ remoteOnly(d) \in SUBSET Content
  BY DEF TypeOK, localOnly, remoteOnly
<1> QED
  BY <1>1 DEF drift, Repair

LEMMA AnalyzeStep ==
  ASSUME IInv, NEW d \in Device, Analyze(d)
  PROVE  IInv'
<1> DEFINE first == drift(d, {})
           used  == liveLocalChunkRefs(d)
           r == [first EXCEPT !.stage = "analysis", !.used = used, !.toPush = {},
                   !.toPull = {}, !.toDeleteLocal = {}, !.toDeleteRemote = {}]
<1>0. TypeOK
  BY DEF IInv
<1>1. first \in Repair /\ used \in SUBSET Content
  BY <1>0, DriftTyped, ReferencedTyped DEF liveLocalChunkRefs
<1>2. /\ repair' = [repair EXCEPT ![d] = r]
      /\ UNCHANGED <<doc, store, feed, held, remote, bodies, push, refs, acts>>
  BY DEF Analyze, locals, server
<1> HIDE DEF first, used
<1>3. r \in Repair /\ r.stage = "analysis"
  BY <1>1 DEF Repair
<1> HIDE DEF r
<1> QED
  BY <1>0, <1>2, <1>3, Repaired DEF TypeOK

LEMMA CopyStep ==
  ASSUME IInv, NEW d \in Device, repair[d] # None, NEW fails, CopyDocs(d, fails),
         UNCHANGED <<push, refs>>, acts' \in 0..MaxActs
  PROVE  IInv'
<1>0. TypeOK /\ repair[d] \in Repair
  BY DEF IInv, TypeOK
<1> DEFINE r == [repair[d] EXCEPT !.stage = "localCheck"]
           sent  == IF fails = "push" THEN {} ELSE repair[d].toPush
           asked == IF fails = "pull" THEN {} ELSE repair[d].toPull
<1>1. r \in Repair /\ r.stage = "localCheck"
  BY <1>0 DEF Repair
<1>2. sent \in SUBSET Content /\ asked \in SUBSET Content
  BY <1>0 DEF Repair
<1>3. /\ bodies' = bodies \cup (sent \cap store[d])
      /\ store' = [store EXCEPT ![d] = @ \cup (asked \cap bodies)]
      /\ feed' = [feed EXCEPT ![d] = @ \cup (asked \cap bodies)]
      /\ repair' = [repair EXCEPT ![d] = r]
      /\ UNCHANGED <<doc, held, remote>>
  BY DEF CopyDocs, pushDocs, pullDocs
<1> HIDE DEF r, sent, asked
<1>4. /\ store' \in [Device -> SUBSET Content]
      /\ feed' \in [Device -> SUBSET (File \cup Content)]
      /\ bodies' \subseteq Content
      /\ store'[d] = store[d] \cup (asked \cap bodies)
      /\ \A e \in Device \ {d} : store'[e] = store[e]
  BY <1>0, <1>2, <1>3 DEF TypeOK
<1> QED
  BY <1>1, <1>3, <1>4, Repaired

LEMMA RepairStepStep ==
  ASSUME IInv, NEW d \in Device, RepairStep(d)
  PROVE  IInv'
<1>0. /\ TypeOK /\ RepairReads /\ repair[d] # None /\ repair[d] \in Repair
      /\ UNCHANGED <<push, refs, acts>>
  BY DEF IInv, TypeOK, RepairStep
<1>1. ASSUME PlanFromReport(d) PROVE IInv'
  <2>1. repair[d].used \in SUBSET Content
    BY <1>0 DEF Repair
  <2>2. drift(d, repair[d].used) \in Repair /\ drift(d, repair[d].used).stage = "copy"
    BY <1>0, <2>1, DriftTyped
  <2>3. /\ repair' = [repair EXCEPT ![d] = drift(d, repair[d].used)]
        /\ UNCHANGED <<doc, store, feed, held, remote, bodies>>
    BY <1>1 DEF PlanFromReport, locals, server
  <2> QED
    BY <1>0, <2>2, <2>3, Repaired DEF TypeOK
<1>2. ASSUME CopyDocs(d, "none") PROVE IInv'
  BY <1>0, <1>2, CopyStep DEF TypeOK
<1>3. ASSUME LocalCheck(d) PROVE IInv'
  <2> DEFINE r == [repair[d] EXCEPT !.stage = "deleteLocal",
                                    !.toDeleteLocal = @ \ liveLocalChunkRefs(d)]
  <2>1. r \in Repair /\ r.toDeleteLocal \cap referenced(doc[d]) = {}
    BY <1>0 DEF Repair, liveLocalChunkRefs
  <2>2. repair' = [repair EXCEPT ![d] = r]
    BY <1>3 DEF LocalCheck
  <2>3. UNCHANGED <<doc, store, feed, held, remote, bodies>>
    BY <1>3 DEF LocalCheck, locals, server
  <2> HIDE DEF r
  <2> QED
    BY <1>0, <2>1, <2>2, <2>3, Repaired DEF TypeOK
<1>4. ASSUME repair[d].stage = "deleteLocal", DeleteLocal(d) PROVE IInv'
  <2> DEFINE r == [repair[d] EXCEPT !.stage = "remoteCheck"]
  <2>1. r \in Repair /\ r.stage = "remoteCheck"
    BY <1>0 DEF Repair
  <2>2. /\ DeleteChunks(d, repair[d].toDeleteLocal) /\ repair' = [repair EXCEPT ![d] = r]
        /\ UNCHANGED <<doc, held, remote, bodies>>
    BY <1>4 DEF DeleteLocal, server
  <2> HIDE DEF r
  <2>3. /\ store' \in [Device -> SUBSET Content]
        /\ feed' \in [Device -> SUBSET (File \cup Content)]
        /\ store'[d] = store[d] \ repair[d].toDeleteLocal
        /\ \A e \in Device \ {d} : store'[e] = store[e]
    BY <1>0, <2>2, Deletes
  <2>4. repair[d].toDeleteLocal \cap referenced(doc[d]) = {}
    BY <1>0, <1>4 DEF RepairReads
  <2>5. store[d] \cap referenced(doc[d]) \subseteq store'[d]
    BY <2>3, <2>4
  <2> QED
    BY <1>0, <2>1, <2>2, <2>3, <2>5, Repaired DEF TypeOK
<1>5. ASSUME RemoteCheck(d) PROVE IInv'
  <2> DEFINE r == [repair[d] EXCEPT !.stage = "deleteRemote",
                                    !.toDeleteRemote = @ \ liveRemoteChunkRefs]
  <2>1. r \in Repair /\ r.stage = "deleteRemote"
    BY <1>0 DEF Repair
  <2>2. repair' = [repair EXCEPT ![d] = r]
    BY <1>5 DEF RemoteCheck
  <2>3. UNCHANGED <<doc, store, feed, held, remote, bodies>>
    BY <1>5 DEF RemoteCheck, locals, server
  <2> HIDE DEF r
  <2> QED
    BY <1>0, <2>1, <2>2, <2>3, Repaired DEF TypeOK
<1>6. ASSUME DeleteRemoteDocs(d) PROVE IInv'
  <2>1. /\ bodies' = bodies \ repair[d].toDeleteRemote
        /\ repair' = [repair EXCEPT ![d] = None]
        /\ UNCHANGED <<doc, store, feed, held, remote>>
    BY <1>6 DEF DeleteRemoteDocs, locals
  <2>2. bodies' \subseteq Content
    BY <1>0, <2>1 DEF TypeOK
  <2> QED
    BY <1>0, <2>1, <2>2, Repaired DEF TypeOK
<1> QED
  BY <1>1, <1>2, <1>3, <1>4, <1>5, <1>6 DEF RepairStep

LEMMA RepairFailsStep ==
  ASSUME IInv, NEW d \in Device, RepairFails(d)
  PROVE  IInv'
<1>0. TypeOK /\ repair[d] # None /\ UNCHANGED <<push, refs>> /\ acts' \in 0..MaxActs
  BY ActCounts DEF IInv, RepairFails
<1>1. ASSUME NEW one, CopyDocs(d, one) PROVE IInv'
  BY <1>0, <1>1, CopyStep
<1>2. ASSUME repair' = [repair EXCEPT ![d] = None], UNCHANGED <<locals, server>> PROVE IInv'
  BY <1>0, <1>2, Repaired DEF TypeOK, locals, server
<1> QED
  BY <1>1, <1>2 DEF RepairFails

LEMMA PullAllStep ==
  ASSUME IInv, Closed, NEW d \in Device, PullAll(d), acts' \in 0..MaxActs
  PROVE  IInv'
<1>0. TypeOK /\ Vaults
  BY DEF IInv
<1>1. /\ doc' = [doc EXCEPT ![d] = [f \in File |-> IF remote[f] = None THEN doc[d][f]
                                                                       ELSE remote[f]]]
      /\ store' = [store EXCEPT ![d] = @ \cup bodies]
      /\ feed'  = [feed EXCEPT ![d] = @ \cup bodies \cup {f \in File : remote[f] # None}]
      /\ UNCHANGED <<held, remote, bodies, push, refs, repair>>
  BY DEF PullAll, server, jobs
<1>2. /\ doc' \in [Device -> Docs]
      /\ \A f \in File : doc'[d][f] = IF remote[f] = None THEN doc[d][f] ELSE remote[f]
      /\ \A e \in Device \ {d} : doc'[e] = doc[e]
  BY <1>0, <1>1 DEF TypeOK, Docs
<1>3. /\ store' \in [Device -> SUBSET Content]
      /\ feed' \in [Device -> SUBSET (File \cup Content)]
      /\ store[d] \subseteq store'[d] /\ \A e \in Device \ {d} : store'[e] = store[e]
  BY <1>0, <1>1 DEF TypeOK
<1>4. \A f \in File : moves(d, f)
  BY <1>1, <1>2 DEF moves, stays, takes
<1>5. Vaults'
  BY <1>0, <1>1, <1>2, <1>3, <1>4, DeviceMoves
<1>6. repair[d] = None /\ \A e \in Device : /\ push[e] = None /\ refs[e] = None
                           /\ ~(repair[e] # None /\ repair[e].stage = "deleteLocal")
  BY Alone DEF PullAll
<1>7. JobsRead'
  BY <1>1, <1>6 DEF JobsRead, PushReads, SweepReads, RepairReads
<1>8. LocalsTyped' /\ ServerTyped' /\ JobsTyped'
  BY <1>0, <1>1, <1>2, <1>3 DEF LocalsTyped, ServerTyped, JobsTyped, TypeOK
<1> QED
  BY <1>5, <1>7, <1>8, Together

-----------------------------------------------------------------------------
LEMMA StartsSo == Init => IInv
<1> SUFFICES ASSUME Init PROVE IInv
  OBVIOUS
<1>1. TypeOK
  BY BoundsAssumption DEF Init, TypeOK, Docs
<1>2. /\ \A d \in Device, f \in File : doc[d][f] = None /\ docClock(d, f) = ZeroClock
      /\ \A f \in File : remote[f] = None /\ remoteClock(f) = ZeroClock
  BY DEF Init, docClock, remoteClock, clockOf
<1>3. Counters
  BY <1>2 DEF Counters, ZeroClock
<1>4. CameFromServer /\ OwnIsHere /\ Guarded
  BY <1>2 DEF CameFromServer, OwnIsHere, own, Guarded, live
<1>5. PushReads /\ SweepReads /\ RepairReads
  BY DEF Init, PushReads, SweepReads, RepairReads
<1> QED
  BY <1>1, <1>3, <1>4, <1>5 DEF IInv, Vaults

LEMMA StaysSo == Closed /\ IInv /\ [Next]_vars => IInv'
<1> SUFFICES ASSUME Closed, IInv, [Next]_vars PROVE IInv'
  OBVIOUS
<1>1. CASE UNCHANGED vars
  <2>1. UNCHANGED <<doc, store, feed, held, remote, bodies, push, refs, repair, acts>>
    BY <1>1 DEF vars, locals, server, jobs
  <2> QED
    BY <2>1, Upkept DEF IInv, TypeOK
<1>2. ASSUME NEW d \in Device, NEW f \in File,
             Delete(d, f) \/ (\E c \in Content : Edit(d, f, c))
      PROVE  IInv'
  BY <1>2, EditStep, DeleteStep
<1>3. ASSUME NEW d \in Device, Sync(d) PROVE IInv'
  BY <1>3, PushBeginStep, PushChunksStep, PushFilesStep, PullFileStep, ReconcileStep,
     ResolveStep DEF Sync
<1>4. ASSUME NEW d \in Device, Upkeep(d) PROVE IInv'
  <2>1. ASSUME PullAllAtRest(d) PROVE IInv'
    <3>1. PullAll(d) /\ acts' \in 0..MaxActs
      BY <2>1 DEF PullAllAtRest, IInv, TypeOK
    <3> QED
      BY <3>1, PullAllStep
  <2> QED
    BY <1>4, <2>1, SweepBeginStep, SweepStep, AnalyzeStep, RepairStepStep DEF Upkeep
<1>5. ASSUME NEW d \in Device, PushFails(d) \/ RepairFails(d) PROVE IInv'
  BY <1>5, PushFailsStep, RepairFailsStep
<1>6. ASSUME NEW d \in Device, PullAllMidSync(d) PROVE IInv'
  <2>1. PullAll(d) /\ acts' \in 0..MaxActs
    BY <1>6, ActCounts DEF PullAllMidSync, IInv
  <2> QED
    BY <2>1, PullAllStep
<1> QED
  BY <1>1, <1>2, <1>3, <1>4, <1>5, <1>6 DEF Next

\* What guards a file is what Recoverable asks for.
LEMMA GuardsSuffice ==
  ASSUME TypeOK, Vaults, NEW f \in live(remote), NEW d \in Device, guards(d, f)
  PROVE  \/ remote[f].content \in store[d]
         \/ newer(d, f)
         \/ toBeRecorded(d, f)
<1> DEFINE l == doc[d][f]
           r == remote[f]
           h == held[d][f]
<1>1. f \in File /\ r # None /\ ~r.deleted
  BY DEF live
<1>2. /\ r \in Doc /\ l \in Doc \cup {None} /\ r.vclock \in Clock /\ r.content \in Content
      /\ h \in Baseline \cup {None}
  BY <1>1, Typed DEF Doc
<1>3. CASE hasIt(d, f)
  BY <1>3 DEF hasIt
<1>4. CASE ahead(d, f)
  <2>1. VaultOf(d, f)
    BY <1>1, VaultsByFile DEF Vaults
  <2>2. own(d, f)
    BY <1>1, <1>4, <2>1, AheadIsOwn DEF VaultOf
  <2> QED
    BY <1>4, <2>1, <2>2 DEF VaultOf, OwnOf, ahead, newer
<1>5. CASE setBack(d, f)
  <2>1. /\ l = r /\ h \in Baseline /\ h # None /\ h.vclock \in Clock
        /\ h.vclock[d] > r.vclock[d] /\ h.content # r.content
    BY <1>2, <1>5 DEF setBack, Baseline
  <2>2. ~Includes(r.vclock, h.vclock)
    BY <1>2, <2>1 DEF Includes, Clock
  <2>3. compareVC(h.vclock, r.vclock) \in {"dominates", "concurrent"}
        /\ compareVC(r.vclock, h.vclock) \in {"dominated", "concurrent"}
    <3>1. Dominates(h.vclock, r.vclock) \/ Concurrent(h.vclock, r.vclock)
      BY <2>2 DEF Dominates, Concurrent
    <3> QED
      BY <1>2, <2>1, <3>1, CompareIsOrder, CompareMirrors
  <2>4. decision(d, f) = reconcileDecision(h.content, r, h, FALSE)
    BY <2>1 DEF decision
  <2>5. CASE h.content # None
    <3>1. ~sameState(diskVersion(h.content, h), r) /\ diskVersion(h.content, h).vclock = h.vclock
      BY <1>1, <2>1 DEF sameState, diskVersion, baseClock
    <3>2. relationOfFile(h.content, r, h) \in {"true-divergent", "local-edit"}
      BY <2>3, <3>1 DEF relationOfFile
    <3>3. decision(d, f) = decisionForFile(h.content, r, h)
      BY <2>4, <2>5 DEF reconcileDecision
    <3>4. decision(d, f) \in {"conflict", "push"}
      BY <1>1, <3>2, <3>3 DEF decisionForFile
    <3> QED
      BY <1>1, <2>1, <3>4 DEF toBeRecorded
  <2>6. CASE h.content = None
    <3>1. decision(d, f) = decisionForMissing(r, h, FALSE)
      BY <1>1, <2>4, <2>6 DEF reconcileDecision
    <3>2. decision(d, f) \in {"conflict", "delete"}
      BY <2>1, <2>3, <2>6, <3>1 DEF decisionForMissing
    <3> QED
      BY <1>1, <2>1, <3>2 DEF toBeRecorded
  <2> QED
    BY <2>5, <2>6
<1> QED
  BY <1>3, <1>4, <1>5 DEF guards

(***************************************************************************)
(* The bytes of a live file of the server are never everywhere gone        *)
(* (chunk-gc.ts, chunk-repair.ts, the push and the pull), for any number   *)
(* of devices, files, contents and acts, whatever runs inside an analysis, *)
(* between the phases of a repair and before its deletions on the server;  *)
(* inside a push, a sweep or the end of a local check nothing may.         *)
(***************************************************************************)
THEOREM NothingIsLost ==
  ASSUME Closed
  PROVE  Spec => []Recoverable
<1>1. Closed
  OBVIOUS
<1>2. IInv => Recoverable
  <2> SUFFICES ASSUME IInv, NEW f \in live(remote)
               PROVE  \/ remote[f].content \in bodies \cup UNION {store[d] : d \in Device}
                      \/ \E d \in Device : newer(d, f) \/ toBeRecorded(d, f)
    BY DEF Recoverable
  <2>1. f \in File
    BY DEF live
  <2>2. PICK d \in Device : guards(d, f)
    BY <2>1 DEF IInv, Vaults, Guarded
  <2> QED
    BY <2>2, GuardsSuffice DEF IInv
<1>3. IInv /\ [Next]_vars => IInv'
  BY <1>1, StaysSo
<1> QED
  BY <1>2, <1>3, StartsSo, PTL DEF Spec

=============================================================================
