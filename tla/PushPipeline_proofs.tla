------------------------ MODULE PushPipeline_proofs -------------------------
(***************************************************************************)
(* PushPipeline for every set of files and contents and every bound: the   *)
(* type invariant; no version forgotten and no divergence dropped; chunks  *)
(* before files; and a server whose versions are only replaced by newer    *)
(* ones. What each assumes of the environment is said with it.             *)
(***************************************************************************)
EXTENDS PushPipeline, TLAPS

-----------------------------------------------------------------------------
(* Of the laws of clocks (ChunkStore_proofs), those the proofs below use.  *)

LEMMA CompareIsOrder ==
  ASSUME NEW a \in Clock, NEW b \in Clock
  PROVE  /\ compareVC(a, b) = "equal" <=> a = b
         /\ compareVC(a, b) = "dominates" <=> Dominates(a, b)
         /\ compareVC(a, b) = "dominated" <=> Dominates(b, a)
         /\ compareVC(a, b) = "concurrent" <=> Concurrent(a, b)
<1>1. /\ Includes(a, b) <=> ~\E d \in Device : a[d] < b[d]
      /\ Includes(b, a) <=> ~\E d \in Device : a[d] > b[d]
  BY DEF Clock, Includes
<1>2. Includes(a, b) /\ Includes(b, a) <=> a = b
  BY DEF Clock, Includes
<1> QED
  BY <1>1, <1>2 DEF compareVC, Dominates, Concurrent

LEMMA MergeIsLub ==
  ASSUME NEW a \in Clock, NEW b \in Clock
  PROVE  /\ mergeVC(a, b) \in Clock
         /\ Includes(mergeVC(a, b), a)
         /\ Includes(mergeVC(a, b), b)
         /\ \A c \in Clock : Includes(c, a) /\ Includes(c, b)
                               => Includes(c, mergeVC(a, b))
  BY DEF Clock, Includes, mergeVC

LEMMA IncrementDominates ==
  ASSUME NEW a \in Clock, NEW d \in Device
  PROVE  /\ incrementVC(a, d) \in Clock
         /\ Dominates(incrementVC(a, d), a)
         /\ \A e \in Device \ {d} : incrementVC(a, d)[e] = a[e]
<1>1. incrementVC(a, d) \in Clock /\ incrementVC(a, d)[d] = a[d] + 1
  BY DEF Clock, incrementVC
<1>2. \A e \in Device \ {d} : incrementVC(a, d)[e] = a[e]
  BY DEF Clock, incrementVC
<1>3. Includes(incrementVC(a, d), a)
  BY <1>1, <1>2 DEF Clock, Includes
<1>4. ~Includes(a, incrementVC(a, d))
  BY <1>1 DEF Clock, Includes
<1> QED
  BY <1>1, <1>2, <1>3, <1>4 DEF Dominates

-----------------------------------------------------------------------------
LEMMA DocTypes ==
  ASSUME NEW d \in Doc, NEW e \in Doc
  PROVE  /\ d.content \in Content /\ d.deleted \in BOOLEAN /\ d.vclock \in Clock
         /\ mergeVC(d.vclock, e.vclock) \in Clock
         /\ incrementVC(d.vclock, Self) \in Clock
         /\ decidedClock(d, e) \in Clock
         /\ takenRemote(d, e) \in Doc
         /\ fakeTombstone(d) \in Doc
<1>1. d.content \in Content /\ d.deleted \in BOOLEAN /\ d.vclock \in Clock /\ e.vclock \in Clock
  BY DEF Doc
<1>2. Self \in Device
  BY DevicesAssumption
<1>3. mergeVC(d.vclock, e.vclock) \in Clock
  BY <1>1, MergeIsLub
<1>4. incrementVC(d.vclock, Self) \in Clock /\ decidedClock(d, e) \in Clock
  BY <1>1, <1>2, <1>3, IncrementDominates DEF decidedClock
<1>5. ZeroClock \in Clock
  BY DEF ZeroClock, Clock
<1>6. takenRemote(d, e) \in Doc /\ fakeTombstone(d) \in Doc
  BY <1>1, <1>4, <1>5 DEF takenRemote, fakeTombstone, Doc
<1> QED
  BY <1>1, <1>3, <1>4, <1>6

LEMMA AcceptedType ==
  ASSUME NEW l \in Doc \cup {None}, NEW r \in Doc,
         resolveOnPull(l, r) \in {"take-remote", "silent-merge"}
  PROVE  acceptedOnPull(l, r) \in Doc
<1>1. CASE resolveOnPull(l, r) = "take-remote"
  BY <1>1 DEF acceptedOnPull
<1>2. CASE resolveOnPull(l, r) = "silent-merge"
  <2>1. l \in Doc
    BY <1>2 DEF resolveOnPull
  <2>2. mergeVC(l.vclock, r.vclock) \in Clock
    BY <2>1, DocTypes
  <2> QED
    BY <1>2, <2>2 DEF acceptedOnPull, Doc
<1> QED
  BY <1>1, <1>2

(***************************************************************************)
(* The two operators that write the local database and open dialogs keep   *)
(* the types of what they write.                                           *)
(***************************************************************************)
LEMMA CommitType ==
  ASSUME PushTypeOK, NEW f \in File, NEW doc \in Doc, CommitLocal(f, doc)
  PROVE  /\ localDoc' \in [File -> Doc \cup {None}]
         /\ localSeq' \in [File -> Nat] /\ seq' \in Nat
  BY DEF PushTypeOK, CommitLocal

LEMMA OfferType ==
  ASSUME PushTypeOK, NEW conflict \in [File -> Conflict \cup {None}], OfferAll(conflict)
  PROVE  /\ asked' \in [File -> Conflict \cup {None}]
         /\ stash' \in [File -> Conflict \cup {None}]
  BY DEF PushTypeOK, OfferAll

LEMMA OfferOneType ==
  ASSUME PushTypeOK, NEW f \in File, NEW c \in Conflict, Offer(f, c)
  PROVE  /\ asked' \in [File -> Conflict \cup {None}]
         /\ stash' \in [File -> Conflict \cup {None}]
<1>1. [noneFor EXCEPT ![f] = c] \in [File -> Conflict \cup {None}]
  BY DEF noneFor
<1> QED
  BY <1>1, OfferType DEF Offer

(***************************************************************************)
(* The type invariant, for the steps outside the cycle ...                 *)
(***************************************************************************)
LEMMA EnvironmentType ==
  ASSUME PushTypeOK, Environment
  PROVE  PushTypeOK'
<1>0. Self \in Device /\ Peer \in Device /\ ZeroClock \in Clock
  BY DevicesAssumption DEF ZeroClock, Clock
<1>1. ASSUME NEW f \in File, NEW c \in Content, RecordEdit(f, c)
      PROVE  PushTypeOK'
  <2>1. ownClock(f) \in Clock
    BY <1>0 DEF ownClock, Doc, PushTypeOK
  <2>2. incrementVC(ownClock(f), Self) \in Clock
    BY <1>0, <2>1, IncrementDominates
  <2> DEFINE d == [content |-> c, deleted |-> FALSE,
                   vclock |-> incrementVC(ownClock(f), Self)]
  <2>3. d \in Doc
    BY <2>2 DEF Doc
  <2>4. CommitLocal(f, d)
    BY <1>1 DEF RecordEdit
  <2>5. /\ localDoc' \in [File -> Doc \cup {None}]
        /\ localSeq' \in [File -> Nat] /\ seq' \in Nat
    BY <2>3, <2>4, CommitType
  <2> QED
    BY <1>1, <2>5 DEF RecordEdit, PushTypeOK, late, saved, server, dialog, cycle
<1>2. ASSUME NEW f \in File, RecordDeletion(f)
      PROVE  PushTypeOK'
  <2> DEFINE d == [localDoc[f] EXCEPT !.deleted = TRUE, !.vclock = incrementVC(@, Self)]
  <2>1. localDoc[f] \in Doc
    BY <1>2 DEF RecordDeletion, PushTypeOK
  <2>2. d \in Doc
    BY <2>1, DocTypes DEF Doc
  <2>3. CommitLocal(f, d)
    BY <1>2 DEF RecordDeletion
  <2>4. /\ localDoc' \in [File -> Doc \cup {None}]
        /\ localSeq' \in [File -> Nat] /\ seq' \in Nat
    BY <2>2, <2>3, CommitType
  <2> QED
    BY <1>2, <2>4 DEF RecordDeletion, PushTypeOK, late, saved, server, dialog, cycle
<1>3. ASSUME NEW f \in File, Answer(f)
      PROVE  PushTypeOK'
  <2> DEFINE kept  == [localDoc[f] EXCEPT
                         !.vclock = decidedClock(asked[f].local, asked[f].remote)]
             taken == takenRemote(asked[f].local, asked[f].remote)
  <2>1. /\ localDoc[f] \in Doc
        /\ asked[f].local \in Doc /\ asked[f].remote \in Doc
    BY <1>3 DEF Answer, shownStands, Conflict, PushTypeOK
  <2>2. kept \in Doc /\ taken \in Doc
    BY <2>1, DocTypes DEF Doc
  <2>3. CommitLocal(f, kept) \/ CommitLocal(f, taken)
    BY <1>3 DEF Answer
  <2>4. /\ localDoc' \in [File -> Doc \cup {None}]
        /\ localSeq' \in [File -> Nat] /\ seq' \in Nat
    BY <2>2, <2>3, CommitType
  <2> QED
    BY <1>3, <2>4 DEF Answer, PushTypeOK, late, saved, server, cycle, bounds
<1>4. ASSUME NEW f \in File, AnswerSuperseded(f) \/ Defer(f)
      PROVE  PushTypeOK'
  BY <1>4 DEF AnswerSuperseded, Defer, PushTypeOK, late, local, saved, server, cycle, bounds
<1>5. ASSUME NEW f \in File, NEW c \in Content, NEW deleted \in BOOLEAN,
             PeerWrites(f, c, deleted)
      PROVE  PushTypeOK'
  <2> DEFINE known == IF remoteDoc[f] = None THEN ZeroClock ELSE remoteDoc[f].vclock
             d     == [content |-> c, deleted |-> deleted,
                       vclock |-> [known EXCEPT ![Peer] = peerMade[f] + 1]]
  <2>1. known \in Clock /\ peerMade[f] + 1 \in Nat
    BY <1>0 DEF PushTypeOK, Doc
  <2>2. d \in Doc
    BY <1>0, <2>1 DEF Doc, Clock
  <2>3. remoteDoc' = [remoteDoc EXCEPT ![f] = d]
    BY <1>5 DEF PeerWrites
  <2>4. remoteDoc' \in [File -> Doc \cup {None}]
    BY <2>2, <2>3 DEF PushTypeOK
  <2>5. remoteBody' \subseteq Content /\ peerWrites' \in Nat
    BY <1>5 DEF PeerWrites, PushTypeOK
  <2> QED
    BY <1>5, <2>4, <2>5 DEF PeerWrites, PushTypeOK, late, local, saved, dialog, cycle
<1>6. CASE BackfillNow
  BY <1>6 DEF BackfillNow, EnqueueTargets, Entry, RACE_STALE_ESCALATION_THRESHOLD,
              PushTypeOK, late, local, server, dialog, cycle, bounds
<1> QED
  BY <1>1, <1>2, <1>3, <1>4, <1>5, <1>6 DEF Environment, UserAnswers

(***************************************************************************)
(* ... for the pull ...                                                    *)
(***************************************************************************)
LEMMA PullType ==
  ASSUME PushTypeOK, PullStep
  PROVE  PushTypeOK'
<1>1. ASSUME NEW f \in File, PullFile(f)
      PROVE  PushTypeOK'
  <2> DEFINE verdict == resolveOnPull(localDoc[f], remoteDoc[f])
  <2>1. remoteDoc[f] \in Doc /\ localDoc[f] \in Doc \cup {None}
    BY <1>1 DEF PullFile, PushTypeOK
  <2>2. pulled' \in [File -> Nat]
    BY <1>1 DEF PullFile, PushTypeOK
  <2>3. CASE verdict \in {"take-remote", "silent-merge"}
    <3>1. acceptedOnPull(localDoc[f], remoteDoc[f]) \in Doc
      BY <2>1, <2>3, AcceptedType
    <3>2. CommitLocal(f, acceptedOnPull(localDoc[f], remoteDoc[f]))
      BY <1>1, <2>3 DEF PullFile
    <3>3. /\ localDoc' \in [File -> Doc \cup {None}]
          /\ localSeq' \in [File -> Nat] /\ seq' \in Nat
      BY <3>1, <3>2, CommitType
    <3>4. echo' \in [File -> Nat]
      BY <1>1, <2>3 DEF PullFile, PushTypeOK
    <3>5. /\ asked' \in [File -> Conflict \cup {None}]
          /\ pendingConflict' \in [File -> Kind \cup {None}]
          /\ stash' = stash /\ presented' = presented
      BY <1>1, <2>3 DEF PullFile, AutoResolve, PushTypeOK, late, dialog
    <3> QED
      BY <1>1, <2>2, <3>3, <3>4, <3>5 DEF PullFile, PushTypeOK, late, saved, server, cycle, bounds
  <2>4. CASE verdict = "concurrent"
    <3>1. localDoc[f] \in Doc
      BY <2>1, <2>4 DEF resolveOnPull
    <3> DEFINE c == [local |-> localDoc[f], remote |-> remoteDoc[f]]
    <3>2. c \in Conflict /\ Offer(f, c)
      BY <1>1, <2>1, <2>4, <3>1 DEF PullFile, Conflict
    <3>3. /\ asked' \in [File -> Conflict \cup {None}]
          /\ stash' \in [File -> Conflict \cup {None}]
      BY <3>2, OfferOneType
    <3>4. pendingConflict' \in [File -> Kind \cup {None}] /\ presented' \subseteq File
      BY <1>1, <2>4 DEF PullFile, PushTypeOK, kindOf, Kind
    <3> QED
      BY <1>1, <2>2, <2>4, <3>3, <3>4 DEF PullFile, PushTypeOK, late, saved, server, cycle, bounds
  <2>5. CASE verdict = "keep-local"
    BY <1>1, <2>2, <2>5 DEF PullFile, PushTypeOK, late, saved, server, dialog, cycle, bounds
  <2> QED
    BY <1>1, <2>3, <2>4, <2>5 DEF PullFile
<1>2. ASSUME NEW f \in File, EnsureChunks(f)
      PROVE  PushTypeOK'
  BY <1>2 DEF EnsureChunks, PushTypeOK, late, saved, server, dialog, cycle, bounds, Doc
<1>3. ASSUME NEW f \in File, PresentAgain(f)
      PROVE  PushTypeOK'
  <2>1. CASE stillConflicts(f)
    <3> DEFINE c == [local  |-> localDoc[f],
                     remote |-> IF pendingConflict[f] = "pull-delete-vs-edit"
                                  THEN fakeTombstone(localDoc[f]) ELSE remoteDoc[f]]
    <3>1. localDoc[f] \in Doc
      BY <2>1 DEF stillConflicts, PushTypeOK
    <3>2. c.remote \in Doc
      BY <2>1, <3>1, DocTypes DEF stillConflicts, PushTypeOK
    <3>3. c \in Conflict
      BY <3>1, <3>2 DEF Conflict
    <3>4. Offer(f, c) /\ presented' = presented \cup {f} /\ UNCHANGED pendingConflict
      BY <1>3, <2>1 DEF PresentAgain
    <3>5. /\ asked' \in [File -> Conflict \cup {None}]
          /\ stash' \in [File -> Conflict \cup {None}]
      BY <3>3, <3>4, OfferOneType
    <3> QED
      BY <1>3, <3>4, <3>5 DEF PresentAgain, PushTypeOK, late, local, saved, server, cycle, bounds
  <2>2. CASE ~stillConflicts(f)
    BY <1>3, <2>2 DEF PresentAgain, PushTypeOK, late, local, saved, server, cycle, bounds
  <2> QED
    BY <2>1, <2>2
<1>4. ASSUME NEW f \in File, RecheckStashed(f)
      PROVE  PushTypeOK'
  <2> DEFINE l == localDoc[f]
             r == stash[f].remote
  <2>1. l \in Doc /\ r \in Doc
    BY <1>4 DEF RecheckStashed, PushTypeOK, Conflict
  <2>2. stash' \in [File -> Conflict \cup {None}]
    BY <1>4 DEF RecheckStashed, PushTypeOK
  <2>3. CASE offeredAgain(l, r) /\ asked' = [asked EXCEPT ![f] = [local |-> l, remote |-> r]]
                /\ UNCHANGED <<seq, localDoc, localSeq>>
    <3>1. asked' \in [File -> Conflict \cup {None}]
      BY <2>1, <2>3 DEF PushTypeOK, Conflict
    <3> QED
      BY <1>4, <2>2, <2>3, <3>1 DEF RecheckStashed, PushTypeOK, late, saved, server, cycle, bounds
  <2>4. CASE CommitLocal(f, takenRemote(l, r)) /\ UNCHANGED asked
    <3>1. takenRemote(l, r) \in Doc
      BY <2>1, DocTypes
    <3>2. /\ localDoc' \in [File -> Doc \cup {None}]
          /\ localSeq' \in [File -> Nat] /\ seq' \in Nat
      BY <2>4, <3>1, CommitType
    <3> QED
      BY <1>4, <2>2, <2>4, <3>2 DEF RecheckStashed, PushTypeOK, late, saved, server, cycle, bounds
  <2>5. CASE UNCHANGED <<seq, localDoc, localSeq, asked>>
    BY <1>4, <2>2, <2>5 DEF RecheckStashed, PushTypeOK, late, saved, server, cycle, bounds
  <2> QED
    BY <1>4, <2>3, <2>4, <2>5 DEF RecheckStashed
<1>5. ASSUME NEW f \in File, VaultCatchesUp(f)
      PROVE  PushTypeOK'
  BY <1>5 DEF VaultCatchesUp, DropConflict, AutoResolve, PushTypeOK, local, saved, server, cycle,
              bounds
<1> QED
  BY <1>1, <1>2, <1>3, <1>4, <1>5 DEF PullStep

(***************************************************************************)
(* ... for the cycle ...                                                   *)
(***************************************************************************)
LEMMA EntryTypes ==
  ASSUME PushTypeOK, NEW f \in File
  PROVE  /\ conflictEntry(f) \in Entry
         /\ [reason |-> "divergent", attempts |-> attemptsNext(f)] \in Entry
<1>1. attemptsOf(f) \in 0..RACE_STALE_ESCALATION_THRESHOLD
  BY NoneIsNoEntry DEF attemptsOf, PushTypeOK, Entry, RACE_STALE_ESCALATION_THRESHOLD
<1>2. attemptsNext(f) \in 0..RACE_STALE_ESCALATION_THRESHOLD
  BY <1>1 DEF attemptsNext, RACE_STALE_ESCALATION_THRESHOLD
<1> QED
  BY <1>2 DEF conflictEntry, Entry

LEMMA CycleType ==
  ASSUME PushTypeOK, CycleStep
  PROVE  PushTypeOK'
<1>1. CASE Warmup
  BY <1>1 DEF Warmup, PushTypeOK, late, local, server, dialog, bounds, Stage
<1>2. CASE Backfill
  <2>1. unpushed' \in [File -> Entry \cup {None}]
    <3>1. [reason |-> "race-stale", attempts |-> 0] \in Entry
      BY DEF Entry, RACE_STALE_ESCALATION_THRESHOLD
    <3> QED
      BY <1>2, <3>1 DEF Backfill, EnqueueTargets, PushTypeOK
  <2>2. backfilled' \in BOOLEAN /\ failures' \in Nat
    <3>1. failures' \in Nat
      BY <1>2 DEF Backfill, PushTypeOK
    <3>2. backfilled' = backfilled \/ backfilled' = TRUE
      BY <1>2 DEF Backfill
    <3>3. backfilled' \in BOOLEAN
      BY <3>2, Zenon DEF PushTypeOK
    <3> QED
      BY <3>1, <3>3
  <2>3. stage' \in Stage
    BY <1>2 DEF Backfill, Stage
  <2>4. UNCHANGED <<local, cursor, echo, pulled, server, dialog, late, upTo, batch, revOf,
                    bodies, add, remove, edits, peerWrites>>
    BY <1>2 DEF Backfill
  <2> QED
    BY <2>1, <2>2, <2>3, <2>4 DEF PushTypeOK, late, local, server, dialog
<1>3. CASE Enumerate
  BY <1>3 DEF Enumerate, changedBodies, sweepPullWritten, PushTypeOK, late, local, saved, server, dialog, bounds, Stage,
              zeroFor, noneFor
<1>4. CASE ClassifyFiles
  <2> DEFINE class(f)  == classifyForPush(batch[f], remoteDoc[f])
             inBatch   == {f \in File : batch[f] # None}
             proceed   == {f \in inBatch : class(f) = "proceed" /\ ~escalates(f)}
             divergent == {f \in inBatch :
                             \/ class(f) = "divergent"
                             \/ class(f) = "proceed" /\ escalates(f)}
             shown     == [f \in File |->
                             IF f \in divergent /\ remoteDoc[f] # None
                               THEN [local |-> batch[f], remote |-> remoteDoc[f]] ELSE None]
  <2>1. shown \in [File -> Conflict \cup {None}]
    BY DEF PushTypeOK, Conflict
  <2>2. OfferAll(shown)
    BY <1>4 DEF ClassifyFiles
  <2>3. /\ asked' \in [File -> Conflict \cup {None}]
        /\ stash' \in [File -> Conflict \cup {None}]
    BY <2>1, <2>2, OfferType
  <2>4. add' \in [File -> Entry \cup {None}] /\ remove' \subseteq File
    <3>1. add' = [f \in File |->
             IF f \in divergent
               THEN [reason |-> "divergent", attempts |-> attemptsNext(f)] ELSE None]
      BY <1>4 DEF ClassifyFiles
    <3>2. remove' \subseteq File
      BY <1>4 DEF ClassifyFiles
    <3> HIDE DEF divergent
    <3> QED
      BY <3>1, <3>2, EntryTypes
  <2>5. /\ batch' \in [File -> Doc \cup {None}] /\ revOf' \in [File -> Nat]
        /\ stage' \in Stage
    <3>1. /\ batch' = [f \in File |-> IF f \in proceed THEN batch[f] ELSE None]
          /\ revOf' = [f \in File |->
               IF f \in proceed /\ remoteDoc[f] # None THEN remoteRev[f] ELSE 0]
          /\ stage' = IF proceed = {} /\ bodies = {} THEN "commit" ELSE "revs"
      BY <1>4 DEF ClassifyFiles
    <3> HIDE DEF proceed
    <3> QED
      BY <3>1 DEF PushTypeOK, Stage
  <2>6. UNCHANGED <<local, saved, echo, pulled, server, pendingConflict, presented, late,
                    backfilled, upTo, bodies, bounds>>
    BY <1>4 DEF ClassifyFiles
  <2> QED
    BY <2>3, <2>4, <2>5, <2>6 DEF PushTypeOK, late, local, saved, server, bounds
<1>5. CASE FetchRevs
  BY <1>5 DEF FetchRevs, revFor, PushTypeOK, late, local, saved, server, dialog, bounds, Stage
<1>6. CASE SendChunks
  <2>1. PICK failed \in SUBSET bodies :
          /\ remoteBody' = remoteBody \cup (bodies \ failed)
          /\ batch' = [f \in File |->
               IF f \in {g \in File : batch[g] # None /\ batch[g].content \in failed}
                 THEN None ELSE batch[f]]
          /\ add' = [f \in File |->
               IF f \in {g \in File : batch[g] # None /\ batch[g].content \in failed}
                 THEN conflictEntry(f) ELSE add[f]]
    BY <1>6 DEF SendChunks
  <2>2. add' \in [File -> Entry \cup {None}]
    BY <2>1, EntryTypes DEF PushTypeOK
  <2> QED
    BY <1>6, <2>1, <2>2 DEF SendChunks, PushTypeOK, late, local, saved, dialog, bounds, Stage
<1>7. CASE SendFiles
  <2> DEFINE sent == {f \in File : batch[f] # None}
  <2>1. PICK refused \in SUBSET sent :
          LET taken == {f \in sent \ refused : current(f)}
              stale == {f \in sent \ refused : ~current(f)}
          IN /\ ServerTakes(taken)
             /\ remove' = remove \cup taken
             /\ add' = [f \in File |-> IF f \in stale THEN conflictEntry(f) ELSE add[f]]
    BY <1>7 DEF SendFiles
  <2>2. add' \in [File -> Entry \cup {None}]
    BY <2>1, EntryTypes DEF PushTypeOK
  <2>3. remoteDoc' \in [File -> Doc \cup {None}] /\ remoteRev' \in [File -> Nat]
    BY <2>1 DEF ServerTakes, PushTypeOK
  <2>4. remove' \subseteq File
    BY <2>1 DEF PushTypeOK
  <2> QED
    BY <1>7, <2>2, <2>3, <2>4 DEF SendFiles, PushTypeOK, late, local, saved, dialog, bounds, Stage
<1>8. CASE Commit
  BY <1>8 DEF Commit, lastSeq, PushTypeOK, late, local, server, dialog, bounds, Stage, zeroFor, noneFor
<1> QED
  BY <1>1, <1>2, <1>3, <1>4, <1>5, <1>6, <1>7, <1>8 DEF CycleStep

(***************************************************************************)
(* ... and for the failures.                                               *)
(***************************************************************************)
LEMMA FailureType ==
  ASSUME PushTypeOK, Failure
  PROVE  PushTypeOK'
<1>1. CASE CycleFails
  BY <1>1 DEF CycleFails, DropCycle, PushTypeOK, late, local, saved, server, dialog, Stage,
              zeroFor, noneFor
<1>2. CASE AnswerLost
  <2>1. remoteDoc' \in [File -> Doc \cup {None}] /\ remoteRev' \in [File -> Nat]
    BY <1>2 DEF AnswerLost, ServerTakes, PushTypeOK
  <2>2. remoteBody' \subseteq Content
    BY <1>2 DEF AnswerLost, PushTypeOK
  <2> QED
    BY <1>2, <2>1, <2>2 DEF AnswerLost, DropCycle, PushTypeOK, late, local, saved, dialog, Stage,
                            zeroFor, noneFor
<1>3. CASE SessionRestarts
  BY <1>3 DEF SessionRestarts, DropCycle, PushTypeOK, late, local, saved, server, Stage,
              zeroFor, noneFor
<1>4. CASE ProcessRestarts
  BY <1>4 DEF ProcessRestarts, DropCycle, PushTypeOK, late, local, saved, server, Stage,
              zeroFor, noneFor
<1>5. CASE WarmupFails
  BY <1>5 DEF WarmupFails, PushTypeOK, late, local, saved, server, dialog, Stage
<1>6. ASSUME NEW f \in File, AnswerFails(f)
      PROVE  PushTypeOK'
  BY <1>6 DEF AnswerFails, DropConflict, AutoResolve, PushTypeOK, local, saved, server, cycle
<1> QED
  BY <1>1, <1>2, <1>3, <1>4, <1>5, <1>6 DEF Failure

LEMMA InitType == Init => PushTypeOK
<1>1. /\ noneFor \in [File -> Doc \cup {None}] /\ noneFor \in [File -> Entry \cup {None}]
      /\ noneFor \in [File -> Conflict \cup {None}]
      /\ noneFor \in [File -> Kind \cup {None}]
  BY DEF noneFor
<1>2. /\ zeroFor \in [File -> Nat] /\ [c \in Content |-> 0] \in [Content -> Nat]
      /\ "warmup" \in Stage /\ 0 \in Nat
  BY DEF Stage, zeroFor
<1> QED
  BY <1>1, <1>2 DEF Init, PushTypeOK

LEMMA TypeStep ==
  ASSUME PushTypeOK, [Next]_vars
  PROVE  PushTypeOK'
<1>1. CASE UNCHANGED vars
  BY <1>1 DEF PushTypeOK, late, vars, local, saved, server, dialog, cycle, bounds
<1> QED
  BY <1>1, EnvironmentType, PullType, CycleType, FailureType DEF Next

(***************************************************************************)
(* Every variable of the push keeps its type, in particular an entry of    *)
(* the unpushed set is always a well-formed one, whatever interleaving of  *)
(* the cycle, the pull, the user and the failures.                         *)
(***************************************************************************)
THEOREM PushTypeCorrect == Spec => []PushTypeOK
<1>1. Init => PushTypeOK
  BY InitType
<1>2. PushTypeOK /\ [Next]_vars => PushTypeOK'
  BY TypeStep
<1> QED
  BY <1>1, <1>2, PTL DEF Spec

-----------------------------------------------------------------------------
(***************************************************************************)
(* NoForgottenPush. First what the push judges of a version the server     *)
(* has, of one the pull has accepted, and of one that has not seen the     *)
(* peer's last version.                                                    *)
(***************************************************************************)
LEMMA PushSkipsSame ==
  ASSUME NEW d \in Doc
  PROVE  classifyForPush(d, d) = "skip"
<1>1. compareVC(d.vclock, d.vclock) = "equal"
  BY DocTypes, CompareIsOrder
<1> QED
  BY <1>1, NoneIsNothing DEF classifyForPush, sameBody

LEMMA PushSkipsAccepted ==
  ASSUME NEW l \in Doc \cup {None}, NEW r \in Doc,
         resolveOnPull(l, r) \in {"take-remote", "silent-merge"}
  PROVE  classifyForPush(acceptedOnPull(l, r), r) = "skip"
<1>1. CASE resolveOnPull(l, r) = "take-remote"
  BY <1>1, PushSkipsSame DEF acceptedOnPull
<1>2. CASE resolveOnPull(l, r) = "silent-merge"
  <2> DEFINE m == mergeVC(l.vclock, r.vclock)
             a == [r EXCEPT !.vclock = m]
  <2>1. l \in Doc
    BY <1>2 DEF resolveOnPull
  <2>2. m \in Clock /\ r.vclock \in Clock /\ Includes(m, r.vclock)
    BY <2>1, DocTypes, MergeIsLub
  <2>3. compareVC(m, r.vclock) \in {"equal", "dominates"}
    <3>1. m = r.vclock \/ Dominates(m, r.vclock)
      BY <2>2 DEF Dominates, Includes, Clock
    <3> QED
      BY <2>2, <3>1, CompareIsOrder
  <2>4. a = acceptedOnPull(l, r)
    BY <1>2 DEF acceptedOnPull
  <2>5. a.vclock = m /\ sameBody(a, r)
    BY DEF Doc, sameBody
  <2>6. classifyForPush(a, r) = "skip"
    BY <2>3, <2>5, NoneIsNothing DEF classifyForPush
  <2> QED
    BY <2>4, <2>6
<1> QED
  BY <1>1, <1>2

LEMMA PushHoldsUnseen ==
  ASSUME NEW l \in Doc, NEW r \in Doc, l.vclock[Peer] < r.vclock[Peer]
  PROVE  classifyForPush(l, r) # "proceed"
<1>1. l.vclock \in Clock /\ r.vclock \in Clock /\ Peer \in Device
  BY DocTypes, DevicesAssumption
<1>2. ~Dominates(l.vclock, r.vclock)
  BY <1>1 DEF Dominates, Includes, Clock
<1>3. compareVC(l.vclock, r.vclock) \in {"concurrent", "dominated"}
  <2>1. Dominates(r.vclock, l.vclock) \/ Concurrent(l.vclock, r.vclock)
    BY <1>1, <1>2 DEF Dominates, Concurrent, Includes, Clock
  <2> QED
    BY <1>1, <2>1, CompareIsOrder
<1> QED
  BY <1>3, NoneIsNothing DEF classifyForPush

\* What the push skips, the server has.
LEMMA SkippedIsOnServer ==
  ASSUME NEW l, NEW r, classifyForPush(l, r) # "proceed"
  PROVE  r # None
  BY DEF classifyForPush

(***************************************************************************)
(* The parts of the invariant about the versions, below. A step that       *)
(* leaves them all alone keeps them; so does a local write outside the     *)
(* pull, whose row is past the cursor and past the cycle.                  *)
(***************************************************************************)
VersionInv == SequencesOrdered /\ EchoesKnown /\ CycleAccounts /\ NoForgottenPush

LEMMA VersionsUntouched ==
  ASSUME VersionInv, UNCHANGED <<local, saved, echo, remoteDoc, cycle>>
  PROVE  VersionInv'
  BY DEF VersionInv, SequencesOrdered, EchoesKnown, CycleAccounts, NoForgottenPush,
         InCycle, atRest, onServer, local, saved, cycle

LEMMA LocalWriteKeepsVersions ==
  ASSUME PushTypeOK, VersionInv, NEW f \in File, NEW doc \in Doc, CommitLocal(f, doc),
         UNCHANGED <<saved, echo, remoteDoc, cycle>>
  PROVE  VersionInv'
<1>1. /\ seq' = seq + 1 /\ localSeq'[f] = seq + 1 /\ seq \in Nat
      /\ \A g \in File : localSeq[g] \in Nat /\ echo[g] \in Nat
      /\ cursor \in Nat /\ upTo \in Nat
      /\ \A g \in File \ {f} : localDoc'[g] = localDoc[g] /\ localSeq'[g] = localSeq[g]
  BY DEF CommitLocal, PushTypeOK
<1>2. /\ cursor' = cursor /\ unpushed' = unpushed /\ echo' = echo /\ remoteDoc' = remoteDoc
      /\ upTo' = upTo /\ stage' = stage /\ batch' = batch /\ add' = add
  BY DEF saved, cycle
<1>3. /\ cursor <= seq /\ upTo <= seq
      /\ InCycle => cursor <= upTo
      /\ \A g \in File : localSeq[g] <= seq /\ echo[g] <= seq
  BY DEF VersionInv, SequencesOrdered
<1>4. SequencesOrdered'
  <2>1. cursor' <= seq' /\ upTo' <= seq' /\ (InCycle => cursor <= upTo)'
    BY <1>1, <1>2, <1>3 DEF InCycle
  <2>2. \A g \in File : localSeq'[g] <= seq' /\ echo'[g] <= seq'
    BY <1>1, <1>2, <1>3
  <2> QED
    BY <2>1, <2>2 DEF SequencesOrdered
<1>5. EchoesKnown'
  <2> SUFFICES ASSUME NEW g \in File, echo'[g] # 0
               PROVE  /\ ~InCycle'
                      /\ localDoc'[g] # None /\ localSeq'[g] > cursor'
                      /\ localSeq'[g] <= echo'[g] => onServer(g)'
    BY DEF EchoesKnown
  <2>1. /\ ~InCycle /\ localDoc[g] # None /\ localSeq[g] > cursor
        /\ localSeq[g] <= echo[g] => onServer(g)
    BY <1>2 DEF VersionInv, EchoesKnown
  <2>2. CASE g = f
    <3>1. localDoc'[g] # None /\ localSeq'[g] > cursor' /\ ~(localSeq'[g] <= echo'[g])
      BY <1>1, <1>2, <1>3, <2>2, NoneIsNothing DEF CommitLocal, PushTypeOK
    <3> QED
      BY <1>2, <2>1, <3>1 DEF InCycle
  <2>3. CASE g # f
    BY <1>1, <1>2, <2>1, <2>3 DEF InCycle, onServer
  <2> QED
    BY <2>2, <2>3
<1>6. CycleAccounts'
  BY <1>1, <1>2, <1>3 DEF VersionInv, CycleAccounts, InCycle, onServer
<1>7. NoForgottenPush'
  BY <1>1, <1>2, <1>3 DEF VersionInv, NoForgottenPush, atRest, onServer
<1> QED
  BY <1>4, <1>5, <1>6, <1>7 DEF VersionInv

(***************************************************************************)
(* The clocks: the user's and the vault's own versions count no more of    *)
(* the peer's than the versions they were made from.                       *)
(***************************************************************************)
LEMMA DerivedClocksKnown ==
  ASSUME NEW f \in File, peerMade[f] \in Nat, NEW l \in Doc, NEW r \in Doc,
         PeerKnown(f, l), PeerKnown(f, r)
  PROVE  /\ PeerKnown(f, fakeTombstone(l)) /\ PeerKnown(f, takenRemote(l, r))
         /\ decidedClock(l, r)[Peer] <= peerMade[f]
         /\ mergeVC(l.vclock, r.vclock)[Peer] <= peerMade[f]
<1>1. /\ Self \in Device /\ Peer \in Device /\ Self # Peer
      /\ l.vclock \in Clock /\ r.vclock \in Clock /\ l # None /\ r # None
  BY DevicesAssumption, DocTypes, NoneIsNothing
<1>2. l.vclock[Peer] <= peerMade[f] /\ r.vclock[Peer] <= peerMade[f]
  BY <1>1 DEF PeerKnown
<1>3. mergeVC(l.vclock, r.vclock)[Peer] <= peerMade[f]
  BY <1>1, <1>2 DEF mergeVC
<1>4. decidedClock(l, r)[Peer] = mergeVC(l.vclock, r.vclock)[Peer]
  BY <1>1, MergeIsLub, IncrementDominates DEF decidedClock
<1>5. PeerKnown(f, takenRemote(l, r))
  <2>1. takenRemote(l, r).vclock \in {r.vclock, decidedClock(l, r)}
    BY DEF takenRemote, Doc
  <2> QED
    BY <1>2, <1>3, <1>4, <2>1 DEF PeerKnown
<1>6. PeerKnown(f, fakeTombstone(l))
  <2>1. fakeTombstone(l).vclock[Peer] = 0
    BY <1>1 DEF fakeTombstone, ZeroClock, Doc
  <2> QED
    BY <2>1 DEF PeerKnown
<1> QED
  BY <1>3, <1>4, <1>5, <1>6

LEMMA OfferKeepsClocks ==
  ASSUME PushTypeOK, ClocksKnown, NEW conflict,
         conflict \in [File -> Conflict \cup {None}],
         \A f \in File : ConflictKnown(f, conflict[f]),
         OfferAll(conflict), peerMade' = peerMade
  PROVE  \A f \in File : ConflictKnown(f, asked[f])' /\ ConflictKnown(f, stash[f])'
<1> SUFFICES ASSUME NEW f \in File
             PROVE  ConflictKnown(f, asked[f])' /\ ConflictKnown(f, stash[f])'
  OBVIOUS
<1>1. /\ asked'[f] = asked[f] \/ asked'[f] = conflict[f]
      /\ stash'[f] = stash[f] \/ stash'[f] = conflict[f]
  BY DEF OfferAll
<1>2. ConflictKnown(f, asked[f]) /\ ConflictKnown(f, stash[f]) /\ ConflictKnown(f, conflict[f])
  BY DEF ClocksKnown
<1> QED
  BY <1>1, <1>2 DEF ConflictKnown, PeerKnown

(***************************************************************************)
(* ClocksKnown is inductive with the types alone. One step per action that *)
(* touches a document, a dialog or a clock.                                *)
(***************************************************************************)
LEMMA ClocksStay ==
  ASSUME ClocksKnown,
         UNCHANGED <<localDoc, remoteDoc, batch, peerMade, asked, stash>>
  PROVE  ClocksKnown'
  BY DEF ClocksKnown, ConflictKnown, PeerKnown

LEMMA LocalWriteKeepsClocks ==
  ASSUME PushTypeOK, ClocksKnown, NEW f \in File, NEW doc \in Doc, PeerKnown(f, doc),
         CommitLocal(f, doc), UNCHANGED <<remoteDoc, batch, peerMade>>,
         \A g \in File : /\ asked'[g] \in {asked[g], None}
                         /\ stash'[g] \in {stash[g], asked[g], None}
  PROVE  ClocksKnown'
<1>1. \A g \in File : localDoc'[g] = IF g = f THEN doc ELSE localDoc[g]
  BY DEF CommitLocal, PushTypeOK
<1>2. \A g \in File : PeerKnown(g, localDoc[g])'
  BY <1>1 DEF ClocksKnown, PeerKnown
<1>3. \A g \in File : PeerKnown(g, remoteDoc[g])' /\ PeerKnown(g, batch[g])'
  BY DEF ClocksKnown, PeerKnown
<1>4. \A g \in File : ConflictKnown(g, asked[g])' /\ ConflictKnown(g, stash[g])'
  BY DEF ClocksKnown, ConflictKnown, PeerKnown
<1> QED
  BY <1>2, <1>3, <1>4 DEF ClocksKnown

\* A vault edit, and a vault deletion, raise only this device's counter.
LEMMA OwnEditKnown ==
  ASSUME PushTypeOK, ClocksKnown, NEW f \in File
  PROVE  incrementVC(ownClock(f), Self)[Peer] <= peerMade[f]
<1>1. Self \in Device /\ Peer \in Device /\ Self # Peer /\ peerMade[f] \in Nat
  BY DevicesAssumption DEF PushTypeOK
<1>2. ownClock(f) \in Clock /\ ownClock(f)[Peer] <= peerMade[f]
  <2>1. CASE localDoc[f] = None
    BY <1>1, <2>1 DEF ownClock, ZeroClock, Clock
  <2>2. CASE localDoc[f] # None
    BY <1>1, <2>2 DEF ownClock, ClocksKnown, PeerKnown, PushTypeOK, Doc
  <2> QED
    BY <2>1, <2>2
<1> QED
  BY <1>1, <1>2, IncrementDominates

LEMMA EnvironmentClocks ==
  ASSUME PushTypeOK, ClocksKnown, Environment
  PROVE  ClocksKnown'
<1>0. Self \in Device /\ Peer \in Device /\ Self # Peer
  BY DevicesAssumption
<1>1. ASSUME NEW f \in File, NEW c \in Content, RecordEdit(f, c)
      PROVE  ClocksKnown'
  <2> DEFINE d == [content |-> c, deleted |-> FALSE,
                   vclock |-> incrementVC(ownClock(f), Self)]
  <2>1. ownClock(f) \in Clock
    BY <1>0 DEF ownClock, PushTypeOK, ZeroClock, Clock, Doc
  <2>2. d \in Doc
    BY <1>0, <2>1, IncrementDominates DEF Doc
  <2>3. PeerKnown(f, d)
    BY OwnEditKnown DEF PeerKnown
  <2>4. CommitLocal(f, d) /\ UNCHANGED <<remoteDoc, batch, peerMade, asked, stash>>
    BY <1>1 DEF RecordEdit, server, dialog, cycle
  <2> QED
    BY <2>2, <2>3, <2>4, LocalWriteKeepsClocks
<1>2. ASSUME NEW f \in File, RecordDeletion(f)
      PROVE  ClocksKnown'
  <2> DEFINE d == [localDoc[f] EXCEPT !.deleted = TRUE, !.vclock = incrementVC(@, Self)]
  <2>1. localDoc[f] \in Doc /\ ownClock(f) = localDoc[f].vclock
    BY <1>2 DEF RecordDeletion, PushTypeOK, ownClock
  <2>2. d \in Doc /\ d.vclock = incrementVC(ownClock(f), Self)
    BY <2>1, DocTypes DEF Doc
  <2>3. PeerKnown(f, d)
    BY <2>2, OwnEditKnown DEF PeerKnown
  <2>4. CommitLocal(f, d) /\ UNCHANGED <<remoteDoc, batch, peerMade, asked, stash>>
    BY <1>2 DEF RecordDeletion, server, dialog, cycle
  <2> QED
    BY <2>2, <2>3, <2>4, LocalWriteKeepsClocks
<1>3. ASSUME NEW f \in File, Answer(f)
      PROVE  ClocksKnown'
  <2> DEFINE l == asked[f].local
             r == asked[f].remote
             kept  == [localDoc[f] EXCEPT !.vclock = decidedClock(l, r)]
             taken == takenRemote(l, r)
  <2>1. localDoc[f] \in Doc /\ l \in Doc /\ r \in Doc /\ peerMade[f] \in Nat
    BY <1>3 DEF Answer, shownStands, Conflict, PushTypeOK
  <2>2. PeerKnown(f, l) /\ PeerKnown(f, r)
    BY <1>3 DEF Answer, ClocksKnown, ConflictKnown
  <2>3. kept \in Doc /\ kept.vclock = decidedClock(l, r) /\ taken \in Doc
    BY <2>1, DocTypes DEF Doc
  <2>4. PeerKnown(f, kept) /\ PeerKnown(f, taken)
    BY <2>1, <2>2, <2>3, DerivedClocksKnown DEF PeerKnown
  <2>5. /\ UNCHANGED <<remoteDoc, batch, peerMade, stash>>
        /\ \A g \in File : asked'[g] \in {asked[g], None}
    BY <1>3 DEF Answer, PushTypeOK, server, cycle
  <2>6. CommitLocal(f, kept) \/ CommitLocal(f, taken)
    BY <1>3 DEF Answer
  <2> QED
    BY <2>3, <2>4, <2>5, <2>6, LocalWriteKeepsClocks
<1>4. ASSUME NEW f \in File, AnswerSuperseded(f) \/ Defer(f)
      PROVE  ClocksKnown'
  <2>1. /\ UNCHANGED <<localDoc, remoteDoc, batch, peerMade>>
        /\ \A g \in File : /\ asked'[g] \in {asked[g], None}
                           /\ stash'[g] \in {stash[g], asked[g]}
    BY <1>4 DEF AnswerSuperseded, Defer, PushTypeOK, local, server, cycle
  <2> QED
    BY <2>1 DEF ClocksKnown, ConflictKnown, PeerKnown
<1>5. ASSUME NEW f \in File, NEW c \in Content, NEW deleted \in BOOLEAN,
             PeerWrites(f, c, deleted)
      PROVE  ClocksKnown'
  <2>1. /\ \A g \in File : peerMade[g] \in Nat /\ peerMade'[g] \in Nat
                           /\ peerMade[g] <= peerMade'[g]
        /\ peerMade'[f] = peerMade[f] + 1
        /\ UNCHANGED <<localDoc, batch, asked, stash>>
    BY <1>5 DEF PeerWrites, PushTypeOK, local, dialog, cycle
  <2>3. \A g \in File : PeerKnown(g, localDoc[g])' /\ PeerKnown(g, batch[g])'
    <3> TAKE g \in File
    <3>1. /\ localDoc[g] # None => localDoc[g].vclock[Peer] \in Nat
          /\ batch[g] # None => batch[g].vclock[Peer] \in Nat
      BY <1>0 DEF PushTypeOK, Doc, Clock
    <3> QED
      BY <2>1, <3>1 DEF ClocksKnown, PeerKnown
  <2>4. \A g \in File : ConflictKnown(g, asked[g])' /\ ConflictKnown(g, stash[g])'
    <3> TAKE g \in File
    <3>1. /\ asked[g] # None => /\ asked[g].local.vclock[Peer] \in Nat
                                /\ asked[g].remote.vclock[Peer] \in Nat
          /\ stash[g] # None => /\ stash[g].local.vclock[Peer] \in Nat
                                /\ stash[g].remote.vclock[Peer] \in Nat
      BY <1>0 DEF PushTypeOK, Conflict, Doc, Clock
    <3> QED
      BY <2>1, <3>1 DEF ClocksKnown, ConflictKnown, PeerKnown
  <2>5. \A g \in File : PeerKnown(g, remoteDoc[g])'
    <3> TAKE g \in File
    <3>1. CASE g = f
      <4> DEFINE known == IF remoteDoc[f] = None THEN ZeroClock ELSE remoteDoc[f].vclock
      <4>1. known \in Clock
        BY <1>0 DEF ZeroClock, Clock, PushTypeOK, Doc
      <4>2. remoteDoc'[f] = [content |-> c, deleted |-> deleted,
                             vclock |-> [known EXCEPT ![Peer] = peerMade[f] + 1]]
        BY <1>5 DEF PeerWrites, PushTypeOK
      <4>3. remoteDoc'[f].vclock[Peer] = peerMade[f] + 1
        BY <1>0, <4>1, <4>2 DEF Clock
      <4> QED
        BY <2>1, <3>1, <4>3 DEF PeerKnown
    <3>2. CASE g # f
      <4>1. remoteDoc'[g] = remoteDoc[g]
        BY <1>5, <3>2 DEF PeerWrites, PushTypeOK
      <4>2. remoteDoc[g] # None => remoteDoc[g].vclock[Peer] \in Nat
        BY <1>0 DEF PushTypeOK, Doc, Clock
      <4> QED
        BY <2>1, <4>1, <4>2 DEF ClocksKnown, PeerKnown
    <3> QED
      BY <3>1, <3>2
  <2> QED
    BY <2>3, <2>4, <2>5 DEF ClocksKnown
<1>6. CASE BackfillNow
  BY <1>6, ClocksStay DEF BackfillNow, local, server, dialog, cycle
<1> QED
  BY <1>1, <1>2, <1>3, <1>4, <1>5, <1>6 DEF Environment, UserAnswers

LEMMA PullClocks ==
  ASSUME PushTypeOK, ClocksKnown, PullStep
  PROVE  ClocksKnown'
<1>1. ASSUME NEW f \in File, PullFile(f)
      PROVE  ClocksKnown'
  <2> DEFINE verdict == resolveOnPull(localDoc[f], remoteDoc[f])
             a       == acceptedOnPull(localDoc[f], remoteDoc[f])
             c       == [local |-> localDoc[f], remote |-> remoteDoc[f]]
  <2>1. /\ remoteDoc[f] \in Doc /\ localDoc[f] \in Doc \cup {None} /\ peerMade[f] \in Nat
        /\ UNCHANGED <<remoteDoc, batch, peerMade>>
    BY <1>1 DEF PullFile, PushTypeOK, server, cycle
  <2>2. PeerKnown(f, localDoc[f]) /\ PeerKnown(f, remoteDoc[f])
    BY DEF ClocksKnown
  <2>3. CASE verdict \in {"take-remote", "silent-merge"}
    <3>1. a \in Doc
      BY <2>1, <2>3, AcceptedType
    <3>2. PeerKnown(f, a)
      <4>1. CASE verdict = "take-remote"
        BY <2>2, <4>1 DEF acceptedOnPull
      <4>2. CASE verdict = "silent-merge"
        <5>1. localDoc[f] \in Doc
          BY <2>1, <4>2 DEF resolveOnPull
        <5>2. a.vclock = mergeVC(localDoc[f].vclock, remoteDoc[f].vclock)
          BY <2>1, <4>2 DEF acceptedOnPull, Doc
        <5> QED
          BY <2>1, <2>2, <5>1, <5>2, DerivedClocksKnown DEF PeerKnown
      <4> QED
        BY <2>3, <4>1, <4>2
    <3>3. CommitLocal(f, a) /\ stash' = stash
      BY <1>1, <2>3 DEF PullFile
    <3>4. \A g \in File : asked'[g] \in {asked[g], None}
      BY <1>1, <2>3 DEF PullFile, AutoResolve, PushTypeOK
    <3> QED
      BY <2>1, <3>1, <3>2, <3>3, <3>4, LocalWriteKeepsClocks
  <2>4. CASE verdict = "concurrent"
    <3>1. localDoc[f] \in Doc
      BY <2>1, <2>4 DEF resolveOnPull
    <3> DEFINE shown == [noneFor EXCEPT ![f] = c]
    <3>2. shown \in [File -> Conflict \cup {None}] /\ OfferAll(shown)
      BY <1>1, <2>1, <2>4, <3>1 DEF PullFile, Offer, Conflict, noneFor
    <3>3. \A g \in File : ConflictKnown(g, shown[g])
      BY <2>2 DEF ConflictKnown, noneFor
    <3>4. \A g \in File : ConflictKnown(g, asked[g])' /\ ConflictKnown(g, stash[g])'
      BY <2>1, <3>2, <3>3, OfferKeepsClocks
    <3>5. UNCHANGED localDoc
      BY <1>1, <2>4 DEF PullFile
    <3> QED
      BY <2>1, <3>4, <3>5 DEF ClocksKnown, PeerKnown
  <2>5. CASE verdict = "keep-local"
    BY <1>1, <2>1, <2>5, ClocksStay DEF PullFile, dialog
  <2> QED
    BY <1>1, <2>3, <2>4, <2>5 DEF PullFile
<1>2. ASSUME NEW f \in File, EnsureChunks(f)
      PROVE  ClocksKnown'
  BY <1>2, ClocksStay DEF EnsureChunks, server, dialog, cycle
<1>3. ASSUME NEW f \in File, PresentAgain(f)
      PROVE  ClocksKnown'
  <2>1. UNCHANGED <<localDoc, remoteDoc, batch, peerMade>>
    BY <1>3 DEF PresentAgain, local, server, cycle
  <2>2. CASE stillConflicts(f)
    <3> DEFINE r     == IF pendingConflict[f] = "pull-delete-vs-edit"
                          THEN fakeTombstone(localDoc[f]) ELSE remoteDoc[f]
               c     == [local  |-> localDoc[f], remote |-> r]
               shown == [noneFor EXCEPT ![f] = c]
    <3>1. localDoc[f] \in Doc /\ peerMade[f] \in Nat
      BY <2>2 DEF stillConflicts, PushTypeOK
    <3>2. PeerKnown(f, localDoc[f]) /\ PeerKnown(f, remoteDoc[f])
      BY DEF ClocksKnown
    <3>3. r \in Doc /\ PeerKnown(f, r)
      BY <2>2, <3>1, <3>2, DocTypes, DerivedClocksKnown DEF stillConflicts, PushTypeOK
    <3>4. shown \in [File -> Conflict \cup {None}] /\ OfferAll(shown)
      BY <1>3, <2>2, <3>1, <3>3 DEF PresentAgain, Offer, Conflict, noneFor
    <3>5. \A g \in File : ConflictKnown(g, shown[g])
      BY <3>2, <3>3 DEF ConflictKnown, noneFor
    <3>6. \A g \in File : ConflictKnown(g, asked[g])' /\ ConflictKnown(g, stash[g])'
      BY <2>1, <3>4, <3>5, OfferKeepsClocks
    <3> QED
      BY <2>1, <3>6 DEF ClocksKnown, PeerKnown
  <2>3. CASE ~stillConflicts(f)
    BY <1>3, <2>1, <2>3, ClocksStay DEF PresentAgain
  <2> QED
    BY <2>2, <2>3
<1>4. ASSUME NEW f \in File, RecheckStashed(f)
      PROVE  ClocksKnown'
  <2> DEFINE l == localDoc[f]
             r == stash[f].remote
  <2>1. l \in Doc /\ r \in Doc /\ peerMade[f] \in Nat
    BY <1>4 DEF RecheckStashed, PushTypeOK, Conflict
  <2>2. PeerKnown(f, l) /\ PeerKnown(f, r)
    BY <1>4 DEF RecheckStashed, ClocksKnown, ConflictKnown
  <2>3. /\ UNCHANGED <<remoteDoc, batch, peerMade>>
        /\ \A g \in File : stash'[g] \in {stash[g], None}
    BY <1>4 DEF RecheckStashed, PushTypeOK, server, cycle
  <2>4. CASE asked' = [asked EXCEPT ![f] = [local |-> l, remote |-> r]] /\ UNCHANGED localDoc
    <3>1. \A g \in File : asked'[g] = IF g = f THEN [local |-> l, remote |-> r] ELSE asked[g]
      BY <2>4 DEF PushTypeOK
    <3>2. ASSUME NEW g \in File PROVE ConflictKnown(g, asked[g])'
      <4>1. CASE g = f
        <5>1. asked'[g].local = l /\ asked'[g].remote = r
          BY <3>1, <4>1
        <5> QED
          BY <2>2, <2>3, <4>1, <5>1 DEF ConflictKnown, PeerKnown
      <4>2. CASE g # f
        BY <2>3, <3>1, <4>2 DEF ClocksKnown, ConflictKnown, PeerKnown
      <4> QED
        BY <4>1, <4>2
    <3>3. \A g \in File : ConflictKnown(g, stash[g])'
      BY <2>3 DEF ClocksKnown, ConflictKnown, PeerKnown
    <3> QED
      BY <2>3, <2>4, <3>2, <3>3 DEF ClocksKnown, PeerKnown
  <2>5. CASE CommitLocal(f, takenRemote(l, r)) /\ UNCHANGED asked
    <3>1. takenRemote(l, r) \in Doc /\ PeerKnown(f, takenRemote(l, r))
      BY <2>1, <2>2, DocTypes, DerivedClocksKnown
    <3> QED
      BY <2>3, <2>5, <3>1, LocalWriteKeepsClocks
  <2>6. CASE UNCHANGED <<localDoc, asked>>
    BY <2>3, <2>6 DEF ClocksKnown, ConflictKnown, PeerKnown
  <2> QED
    BY <1>4, <2>4, <2>5, <2>6 DEF RecheckStashed
<1>5. ASSUME NEW f \in File, VaultCatchesUp(f)
      PROVE  ClocksKnown'
  <2>1. /\ UNCHANGED <<localDoc, remoteDoc, batch, peerMade, stash>>
        /\ \A g \in File : asked'[g] \in {asked[g], None}
    BY <1>5 DEF VaultCatchesUp, DropConflict, AutoResolve, PushTypeOK, local, server, cycle
  <2> QED
    BY <2>1 DEF ClocksKnown, ConflictKnown, PeerKnown
<1> QED
  BY <1>1, <1>2, <1>3, <1>4, <1>5 DEF PullStep

LEMMA CycleClocks ==
  ASSUME PushTypeOK, ClocksKnown, CycleStep
  PROVE  ClocksKnown'
<1>1. CASE Warmup
  BY <1>1, ClocksStay DEF Warmup, local, server, dialog
<1>2. CASE Backfill
  BY <1>2, ClocksStay DEF Backfill, local, server, dialog
<1>3. CASE Enumerate
  <2>1. /\ UNCHANGED <<localDoc, remoteDoc, peerMade, asked, stash>>
        /\ \A f \in File : batch'[f] \in {localDoc[f], None}
    BY <1>3 DEF Enumerate, local, server, dialog
  <2> QED
    BY <2>1 DEF ClocksKnown, ConflictKnown, PeerKnown
<1>4. CASE ClassifyFiles
  <2> DEFINE class(f)  == classifyForPush(batch[f], remoteDoc[f])
             inBatch   == {f \in File : batch[f] # None}
             divergent == {f \in inBatch :
                             \/ class(f) = "divergent"
                             \/ class(f) = "proceed" /\ escalates(f)}
             shown     == [f \in File |->
                             IF f \in divergent /\ remoteDoc[f] # None
                               THEN [local |-> batch[f], remote |-> remoteDoc[f]] ELSE None]
  <2>1. /\ UNCHANGED <<localDoc, remoteDoc, peerMade>>
        /\ \A f \in File : batch'[f] \in {batch[f], None}
    BY <1>4 DEF ClassifyFiles, local, server
  <2>2. shown \in [File -> Conflict \cup {None}] /\ OfferAll(shown)
    BY <1>4 DEF ClassifyFiles, PushTypeOK, Conflict
  <2>3. \A f \in File : ConflictKnown(f, shown[f])
    BY DEF ClocksKnown, ConflictKnown
  <2> HIDE DEF shown
  <2>4. \A f \in File : ConflictKnown(f, asked[f])' /\ ConflictKnown(f, stash[f])'
    BY <2>1, <2>2, <2>3, OfferKeepsClocks
  <2> QED
    BY <2>1, <2>4 DEF ClocksKnown, PeerKnown
<1>5. CASE FetchRevs
  BY <1>5, ClocksStay DEF FetchRevs, local, server, dialog
<1>6. CASE SendChunks
  <2>1. /\ UNCHANGED <<localDoc, remoteDoc, peerMade, asked, stash>>
        /\ \A f \in File : batch'[f] \in {batch[f], None}
    BY <1>6 DEF SendChunks, local, dialog
  <2> QED
    BY <2>1 DEF ClocksKnown, ConflictKnown, PeerKnown
<1>7. CASE SendFiles
  <2>1. /\ UNCHANGED <<localDoc, batch, peerMade, asked, stash>>
        /\ \A f \in File : remoteDoc'[f] \in {remoteDoc[f], batch[f]}
    BY <1>7 DEF SendFiles, ServerTakes, local, dialog
  <2> QED
    BY <2>1 DEF ClocksKnown, ConflictKnown, PeerKnown
<1>8. CASE Commit
  <2>1. /\ UNCHANGED <<localDoc, remoteDoc, peerMade, asked, stash>>
        /\ \A f \in File : batch'[f] = None
    BY <1>8 DEF Commit, local, server, dialog, noneFor
  <2> QED
    BY <2>1 DEF ClocksKnown, ConflictKnown, PeerKnown
<1> QED
  BY <1>1, <1>2, <1>3, <1>4, <1>5, <1>6, <1>7, <1>8 DEF CycleStep

LEMMA FailureClocks ==
  ASSUME PushTypeOK, ClocksKnown, Failure
  PROVE  ClocksKnown'
<1>1. /\ UNCHANGED <<localDoc, peerMade>>
      /\ \A f \in File : /\ batch'[f] \in {batch[f], None}
                         /\ remoteDoc'[f] \in {remoteDoc[f], batch[f]}
                         /\ asked'[f] \in {asked[f], None}
                         /\ stash'[f] \in {stash[f], None}
  <2>1. CASE CycleFails
    BY <2>1 DEF CycleFails, DropCycle, noneFor, local, server, dialog
  <2>2. CASE AnswerLost
    BY <2>2 DEF AnswerLost, ServerTakes, DropCycle, noneFor, local, dialog
  <2>3. CASE SessionRestarts
    BY <2>3 DEF SessionRestarts, DropCycle, noneFor, local, server
  <2>4. CASE ProcessRestarts
    BY <2>4 DEF ProcessRestarts, DropCycle, noneFor, local, server
  <2>5. CASE WarmupFails
    BY <2>5 DEF WarmupFails, local, server, dialog
  <2>6. CASE \E f \in File : AnswerFails(f)
    BY <2>6 DEF AnswerFails, DropConflict, AutoResolve, PushTypeOK, local, server, cycle
  <2> QED
    BY <2>1, <2>2, <2>3, <2>4, <2>5, <2>6 DEF Failure
<1> QED
  BY <1>1 DEF ClocksKnown, ConflictKnown, PeerKnown

(***************************************************************************)
(* The versions. Outside the cycle: a vault edit, a deletion and an answer *)
(* are local writes; a version the peer writes has not been seen by any    *)
(* local one, so the push holds it back.                                   *)
(***************************************************************************)
LEMMA EnvironmentVersions ==
  ASSUME PushTypeOK, ClocksKnown, VersionInv, Environment
  PROVE  VersionInv'
<1>0. Self \in Device /\ Peer \in Device
  BY DevicesAssumption
<1>1. ASSUME NEW f \in File, NEW c \in Content, RecordEdit(f, c)
      PROVE  VersionInv'
  <2> DEFINE d == [content |-> c, deleted |-> FALSE,
                   vclock |-> incrementVC(ownClock(f), Self)]
  <2>1. ownClock(f) \in Clock
    BY <1>0 DEF ownClock, PushTypeOK, ZeroClock, Clock, Doc
  <2>2. d \in Doc
    BY <1>0, <2>1, IncrementDominates DEF Doc
  <2>3. CommitLocal(f, d) /\ UNCHANGED <<saved, echo, remoteDoc, cycle>>
    BY <1>1 DEF RecordEdit, server
  <2> QED
    BY <2>2, <2>3, LocalWriteKeepsVersions
<1>2. ASSUME NEW f \in File, RecordDeletion(f)
      PROVE  VersionInv'
  <2> DEFINE d == [localDoc[f] EXCEPT !.deleted = TRUE, !.vclock = incrementVC(@, Self)]
  <2>1. localDoc[f] \in Doc
    BY <1>2 DEF RecordDeletion, PushTypeOK
  <2>2. d \in Doc
    BY <2>1, DocTypes DEF Doc
  <2>3. CommitLocal(f, d) /\ UNCHANGED <<saved, echo, remoteDoc, cycle>>
    BY <1>2 DEF RecordDeletion, server
  <2> QED
    BY <2>2, <2>3, LocalWriteKeepsVersions
<1>3. ASSUME NEW f \in File, Answer(f)
      PROVE  VersionInv'
  <2> DEFINE kept  == [localDoc[f] EXCEPT
                         !.vclock = decidedClock(asked[f].local, asked[f].remote)]
             taken == takenRemote(asked[f].local, asked[f].remote)
  <2>1. localDoc[f] \in Doc /\ asked[f].local \in Doc /\ asked[f].remote \in Doc
    BY <1>3 DEF Answer, shownStands, Conflict, PushTypeOK
  <2>2. kept \in Doc /\ taken \in Doc
    BY <2>1, DocTypes DEF Doc
  <2>3. CommitLocal(f, kept) \/ CommitLocal(f, taken)
    BY <1>3 DEF Answer
  <2>4. UNCHANGED <<saved, echo, remoteDoc, cycle>>
    BY <1>3 DEF Answer, server
  <2> QED
    BY <2>2, <2>3, <2>4, LocalWriteKeepsVersions
<1>4. ASSUME NEW f \in File, AnswerSuperseded(f) \/ Defer(f)
      PROVE  VersionInv'
  BY <1>4, VersionsUntouched DEF AnswerSuperseded, Defer, server
<1>5. ASSUME NEW f \in File, NEW c \in Content, NEW deleted \in BOOLEAN,
             PeerWrites(f, c, deleted)
      PROVE  VersionInv'
  <2> DEFINE known == IF remoteDoc[f] = None THEN ZeroClock ELSE remoteDoc[f].vclock
             r     == [content |-> c, deleted |-> deleted,
                       vclock |-> [known EXCEPT ![Peer] = peerMade[f] + 1]]
  <2>1. known \in Clock /\ peerMade[f] \in Nat
    BY <1>0 DEF ZeroClock, Clock, PushTypeOK, Doc
  <2>2. r \in Doc /\ r.vclock[Peer] = peerMade[f] + 1
    BY <1>0, <2>1 DEF Doc, Clock
  <2>3. /\ remoteDoc' = [remoteDoc EXCEPT ![f] = r]
        /\ UNCHANGED <<local, saved, echo, cycle>>
    BY <1>5 DEF PeerWrites
  <2>4. localDoc[f] # None => onServer(f)'
    <3> SUFFICES ASSUME localDoc[f] # None PROVE onServer(f)'
      OBVIOUS
    <3>1. localDoc[f] \in Doc /\ localDoc[f].vclock[Peer] < r.vclock[Peer]
      BY <1>0, <2>1, <2>2 DEF PushTypeOK, ClocksKnown, PeerKnown, Doc, Clock
    <3>2. classifyForPush(localDoc[f], r) # "proceed" /\ r # None
      BY <2>2, <3>1, PushHoldsUnseen, NoneIsNothing
    <3>3. remoteDoc'[f] = r /\ localDoc'[f] = localDoc[f]
      BY <2>3 DEF PushTypeOK, local
    <3> QED
      BY <3>2, <3>3 DEF onServer
  <2>5. \A g \in File \ {f} : onServer(g)' <=> onServer(g)
    BY <2>3 DEF PushTypeOK, onServer, local
  <2>6. \A g \in File : localDoc[g] # None /\ onServer(g) => onServer(g)'
    BY <2>4, <2>5
  <2>7. SequencesOrdered'
    BY <2>3 DEF VersionInv, SequencesOrdered, InCycle, local, saved, cycle
  <2>8. EchoesKnown'
    BY <2>3, <2>6 DEF VersionInv, EchoesKnown, InCycle, local, saved, cycle
  <2>9. CycleAccounts'
    BY <2>3, <2>6 DEF VersionInv, CycleAccounts, InCycle, local, cycle
  <2>10. NoForgottenPush'
    BY <2>3, <2>6 DEF VersionInv, NoForgottenPush, atRest, local, saved
  <2> QED
    BY <2>7, <2>8, <2>9, <2>10 DEF VersionInv
<1>6. CASE BackfillNow
  <2>1. /\ UNCHANGED <<local, cursor, echo, server, cycle>>
        /\ \A f \in File : unpushed'[f] = None => unpushed[f] = None
    BY <1>6 DEF BackfillNow, EnqueueTargets, PushTypeOK
  <2> QED
    BY <2>1 DEF VersionInv, SequencesOrdered, EchoesKnown, CycleAccounts, NoForgottenPush,
                InCycle, atRest, onServer, local, server, cycle
<1> QED
  BY <1>1, <1>2, <1>3, <1>4, <1>5, <1>6 DEF Environment, UserAnswers

(***************************************************************************)
(* The pull, between cycles: what it commits the server has, and its echo  *)
(* record says so until the next cycle.                                    *)
(***************************************************************************)
LEMMA PullVersions ==
  ASSUME "pull" \notin MidCycle, PushTypeOK, VersionInv, PullStep
  PROVE  VersionInv'
<1>1. ASSUME NEW f \in File, PullFile(f)
      PROVE  VersionInv'
  <2> DEFINE verdict == resolveOnPull(localDoc[f], remoteDoc[f])
             a       == acceptedOnPull(localDoc[f], remoteDoc[f])
  <2>1. /\ remoteDoc[f] \in Doc /\ localDoc[f] \in Doc \cup {None}
        /\ UNCHANGED <<saved, remoteDoc, cycle>> /\ ~InCycle
    BY <1>1 DEF PullFile, PushTypeOK, server, mayWrite, InCycle
  <2>2. CASE verdict \in {"take-remote", "silent-merge"}
    <3>1. /\ seq' = seq + 1 /\ localSeq'[f] = seq + 1 /\ localDoc'[f] = a /\ echo'[f] = seq + 1
          /\ \A g \in File \ {f} : /\ localDoc'[g] = localDoc[g]
                                   /\ localSeq'[g] = localSeq[g] /\ echo'[g] = echo[g]
      BY <1>1, <2>2 DEF PullFile, CommitLocal, PushTypeOK
    <3>2. /\ seq \in Nat /\ cursor \in Nat /\ upTo \in Nat /\ cursor <= seq /\ upTo <= seq
          /\ \A g \in File : /\ localSeq[g] \in Nat /\ echo[g] \in Nat
                             /\ localSeq[g] <= seq /\ echo[g] <= seq
      BY DEF PushTypeOK, VersionInv, SequencesOrdered
    <3>3. a \in Doc /\ onServer(f)'
      BY <2>1, <2>2, <3>1, AcceptedType, PushSkipsAccepted, NoneIsNothing DEF onServer
    <3>4. cursor' = cursor /\ unpushed' = unpushed /\ upTo' = upTo /\ ~InCycle'
      BY <2>1 DEF saved, cycle, InCycle
    <3>5. SequencesOrdered'
      <4>1. \A g \in File : localSeq'[g] <= seq' /\ echo'[g] <= seq'
        BY <3>1, <3>2
      <4>2. cursor' <= seq' /\ upTo' <= seq'
        BY <3>1, <3>2, <3>4
      <4> QED
        BY <3>4, <4>1, <4>2 DEF SequencesOrdered
    <3>6. EchoesKnown'
      <4> SUFFICES ASSUME NEW g \in File, echo'[g] # 0
                   PROVE  /\ localDoc'[g] # None /\ localSeq'[g] > cursor'
                          /\ localSeq'[g] <= echo'[g] => onServer(g)'
        BY <3>4 DEF EchoesKnown
      <4>1. CASE g = f
        BY <3>1, <3>2, <3>3, <3>4, <4>1, NoneIsNothing
      <4>2. CASE g # f
        <5>1. /\ localDoc[g] # None /\ localSeq[g] > cursor
              /\ localSeq[g] <= echo[g] => onServer(g)
          BY <3>1, <4>2 DEF VersionInv, EchoesKnown
        <5>2. onServer(g)' <=> onServer(g)
          BY <2>1, <3>1, <4>2 DEF onServer
        <5> QED
          BY <3>1, <3>4, <4>2, <5>1, <5>2
      <4> QED
        BY <4>1, <4>2
    <3>7. CycleAccounts'
      BY <3>4 DEF CycleAccounts
    <3>8. NoForgottenPush'
      BY <2>1, <3>1, <3>2, <3>3, <3>4 DEF VersionInv, NoForgottenPush, atRest, onServer
    <3> QED
      BY <3>5, <3>6, <3>7, <3>8 DEF VersionInv
  <2>3. CASE verdict \in {"concurrent", "keep-local"}
    <3>1. UNCHANGED <<local, saved, echo, remoteDoc, cycle>>
      BY <1>1, <2>3 DEF PullFile, local, server
    <3> QED
      BY <3>1, VersionsUntouched
  <2> QED
    BY <1>1, <2>2, <2>3 DEF PullFile
<1>2. ASSUME NEW f \in File, EnsureChunks(f)
      PROVE  VersionInv'
  <2>1. /\ seq' = seq + 1 /\ seq \in Nat
        /\ UNCHANGED <<localDoc, localSeq, saved, echo, remoteDoc, cycle>>
    BY <1>2 DEF EnsureChunks, PushTypeOK, server
  <2>2. SequencesOrdered'
    <3>1. /\ cursor \in Nat /\ upTo \in Nat /\ cursor <= seq /\ upTo <= seq
          /\ \A g \in File : /\ localSeq[g] \in Nat /\ echo[g] \in Nat
                             /\ localSeq[g] <= seq /\ echo[g] <= seq
          /\ InCycle => cursor <= upTo
      BY DEF PushTypeOK, VersionInv, SequencesOrdered
    <3>2. /\ cursor' = cursor /\ upTo' = upTo /\ echo' = echo /\ localSeq' = localSeq
          /\ InCycle' <=> InCycle
      BY <2>1 DEF saved, cycle, InCycle
    <3>3. \A g \in File : localSeq'[g] <= seq' /\ echo'[g] <= seq'
      BY <2>1, <3>1, <3>2
    <3>4. cursor' <= seq' /\ upTo' <= seq' /\ (InCycle' => cursor' <= upTo')
      BY <2>1, <3>1, <3>2
    <3> QED
      BY <3>3, <3>4 DEF SequencesOrdered
  <2>3. EchoesKnown' /\ CycleAccounts' /\ NoForgottenPush'
    BY <2>1 DEF VersionInv, EchoesKnown, CycleAccounts, NoForgottenPush,
                InCycle, atRest, onServer, saved, cycle
  <2> QED
    BY <2>2, <2>3 DEF VersionInv
<1>3. ASSUME NEW f \in File, PresentAgain(f)
      PROVE  VersionInv'
  BY <1>3, VersionsUntouched DEF PresentAgain, server
<1>4. ASSUME NEW f \in File, RecheckStashed(f)
      PROVE  VersionInv'
  <2> DEFINE l == localDoc[f]
             r == stash[f].remote
  <2>1. /\ l \in Doc /\ r \in Doc
        /\ UNCHANGED <<bodySeq, saved, echo, remoteDoc, cycle>>
    BY <1>4 DEF RecheckStashed, PushTypeOK, Conflict, server
  <2>2. CASE CommitLocal(f, takenRemote(l, r))
    BY <2>1, <2>2, DocTypes, LocalWriteKeepsVersions
  <2>3. CASE UNCHANGED <<seq, localDoc, localSeq>>
    BY <2>1, <2>3, VersionsUntouched DEF local
  <2> QED
    BY <1>4, <2>2, <2>3 DEF RecheckStashed
<1>5. ASSUME NEW f \in File, VaultCatchesUp(f)
      PROVE  VersionInv'
  BY <1>5, VersionsUntouched DEF VaultCatchesUp, server
<1> QED
  BY <1>1, <1>2, <1>3, <1>4, <1>5 DEF PullStep

(***************************************************************************)
(* The rows of a cycle reach the server. A version past the cursor of the  *)
(* cycle is the pushed one or a newer one; any other that was sent is the  *)
(* local version itself, which the server then has.                        *)
(***************************************************************************)
LEMMA RowsReachServer ==
  ASSUME PushTypeOK, VersionInv, InCycle, NEW rows \in SUBSET File, ServerTakes(rows),
         \A f \in rows : batch[f] # None, UNCHANGED <<localDoc, localSeq>>
  PROVE  \A f \in File : localDoc[f] # None /\ localSeq[f] <= upTo =>
           /\ f \in rows => onServer(f)'
           /\ onServer(f) => onServer(f)'
<1> SUFFICES ASSUME NEW f \in File, localDoc[f] # None, localSeq[f] <= upTo
             PROVE  /\ f \in rows => onServer(f)'
                    /\ onServer(f) => onServer(f)'
  OBVIOUS
<1>1. batch[f] \in {None, localDoc[f]} /\ localDoc[f] \in Doc
  BY DEF VersionInv, CycleAccounts, PushTypeOK
<1>2. remoteDoc'[f] = IF f \in rows THEN batch[f] ELSE remoteDoc[f]
  BY DEF ServerTakes
<1>3. CASE f \in rows
  <2>1. remoteDoc'[f] = localDoc'[f] /\ localDoc'[f] \in Doc
    BY <1>1, <1>2, <1>3
  <2>2. onServer(f)'
    BY <2>1, PushSkipsSame, NoneIsNothing DEF onServer
  <2> QED
    BY <2>2
<1>4. CASE f \notin rows
  BY <1>2, <1>4 DEF onServer
<1> QED
  BY <1>3, <1>4

(***************************************************************************)
(* The cycle, step by step: what it reads it sends, drops as already on    *)
(* the server, or enters in the set it will commit with its cursor.        *)
(***************************************************************************)
LEMMA CycleVersions ==
  ASSUME "file" \notin ServerErrors, PushTypeOK, VersionInv, CycleStep
  PROVE  VersionInv'
<1>0. /\ cursor \in Nat /\ upTo \in Nat /\ seq \in Nat /\ cursor <= seq /\ upTo <= seq
      /\ InCycle => cursor <= upTo
      /\ \A f \in File : /\ localSeq[f] \in Nat /\ echo[f] \in Nat
                         /\ localSeq[f] <= seq /\ echo[f] <= seq
  BY DEF PushTypeOK, VersionInv, SequencesOrdered
<1>1. CASE Warmup
  <2>1. /\ UNCHANGED <<local, cursor, echo, remoteDoc, upTo>>
        /\ ~InCycle /\ ~InCycle'
        /\ \A f \in File : unpushed'[f] = None =>
             unpushed[f] = None \/ classifyForPush(localDoc[f], remoteDoc[f]) = "skip"
    BY <1>1 DEF Warmup, InCycle, server
  <2>2. \A f \in File :
          classifyForPush(localDoc[f], remoteDoc[f]) = "skip" => onServer(f)
    BY SkippedIsOnServer DEF onServer
  <2>3. \A f \in File : onServer(f)' <=> onServer(f)
    BY <2>1 DEF onServer, local
  <2>4. SequencesOrdered' /\ EchoesKnown' /\ CycleAccounts'
    BY <2>1, <2>3 DEF VersionInv, SequencesOrdered, EchoesKnown, CycleAccounts, local
  <2>5. NoForgottenPush'
    BY <2>1, <2>2, <2>3 DEF VersionInv, NoForgottenPush, atRest, local
  <2> QED
    BY <2>4, <2>5 DEF VersionInv
<1>2. CASE Backfill
  <2>1. /\ UNCHANGED <<local, cursor, echo, remoteDoc, upTo>>
        /\ ~InCycle /\ ~InCycle'
        /\ \A f \in File : unpushed'[f] = None => unpushed[f] = None
    BY <1>2 DEF Backfill, EnqueueTargets, InCycle, server
  <2>2. \A f \in File : onServer(f)' <=> onServer(f)
    BY <2>1 DEF onServer, local
  <2> QED
    BY <2>1, <2>2 DEF VersionInv, SequencesOrdered, EchoesKnown, CycleAccounts,
                      NoForgottenPush, atRest, local
<1>3. CASE Enumerate
  <2>1. /\ UNCHANGED <<localDoc, localSeq, seq, cursor, unpushed, remoteDoc>>
        /\ upTo' = seq /\ stage' = "classify" /\ InCycle' /\ ~InCycle
        /\ \A f \in File :
             /\ batch'[f] = IF (changed(f) /\ ~isPullEcho(f)) \/ unpushed[f] # None
                              THEN localDoc[f] ELSE None
             /\ echo'[f] = IF changed(f) THEN 0 ELSE echo[f]
    BY <1>3 DEF Enumerate, sweepPullWritten, InCycle, local, saved, server
  <2>2. \A f \in File : onServer(f)' <=> onServer(f)
    BY <2>1 DEF onServer
  <2>3. SequencesOrdered'
    <3>1. \A f \in File : localSeq'[f] <= seq' /\ echo'[f] <= seq'
      BY <1>0, <2>1
    <3> QED
      BY <1>0, <2>1, <3>1 DEF SequencesOrdered
  <2>4. \A f \in File : echo'[f] = 0
    BY <2>1 DEF VersionInv, EchoesKnown, changed
  <2>5. CycleAccounts'
    <3> SUFFICES ASSUME NEW f \in File, localDoc[f] # None
                 PROVE  /\ batch'[f] \in {None, localDoc[f]}
                        /\ batch'[f] = localDoc[f] \/ onServer(f)
      BY <2>1, <2>2 DEF CycleAccounts
    <3>1. CASE batch'[f] = localDoc[f]
      BY <3>1
    <3>2. CASE batch'[f] # localDoc[f]
      <4>1. batch'[f] = None /\ unpushed[f] = None /\ (changed(f) => isPullEcho(f))
        BY <2>1, <3>2
      <4>2. CASE ~changed(f)
        <5>1. atRest(f)
          BY <1>0, <4>1, <4>2 DEF atRest, changed
        <5> QED
          BY <4>1, <5>1 DEF VersionInv, NoForgottenPush
      <4>3. CASE changed(f)
        <5>1. localSeq[f] <= echo[f] /\ echo[f] # 0
          BY <1>0, <4>1, <4>3 DEF changed, isPullEcho
        <5> QED
          BY <4>1, <5>1 DEF VersionInv, EchoesKnown
      <4> QED
        BY <4>2, <4>3
    <3> QED
      BY <3>1, <3>2
  <2>6. EchoesKnown' /\ NoForgottenPush'
    BY <2>1, <2>2, <2>4 DEF VersionInv, EchoesKnown, NoForgottenPush, atRest
  <2> QED
    BY <2>3, <2>5, <2>6 DEF VersionInv
<1>4. CASE ClassifyFiles
  <2> DEFINE class(f)  == classifyForPush(batch[f], remoteDoc[f])
             inBatch   == {f \in File : batch[f] # None}
             proceed   == {f \in inBatch : class(f) = "proceed" /\ ~escalates(f)}
             divergent == {f \in inBatch :
                             \/ class(f) = "divergent"
                             \/ class(f) = "proceed" /\ escalates(f)}
  <2>1. /\ UNCHANGED <<local, saved, echo, remoteDoc, upTo>>
        /\ stage = "classify" /\ InCycle /\ InCycle' /\ stage' \in {"revs", "commit"}
        /\ stage' = "commit" => proceed = {}
        /\ \A f \in File : batch'[f] = IF f \in proceed THEN batch[f] ELSE None
        /\ \A f \in File : f \in divergent => add'[f] # None
    <3>1. \A f \in File : [reason |-> "divergent", attempts |-> attemptsNext(f)] # None
      BY EntryTypes, NoneIsNoEntry
    <3>2. add' = [f \in File |->
             IF f \in divergent
               THEN [reason |-> "divergent", attempts |-> attemptsNext(f)] ELSE None]
      BY <1>4 DEF ClassifyFiles
    <3>3. \A f \in File : f \in divergent => add'[f] # None
      <4> HIDE DEF divergent
      <4> QED
        BY <3>1, <3>2
    <3>4. /\ stage = "classify"
          /\ stage' = IF proceed = {} /\ bodies = {} THEN "commit" ELSE "revs"
          /\ batch' = [f \in File |-> IF f \in proceed THEN batch[f] ELSE None]
          /\ UNCHANGED <<local, saved, echo, remoteDoc, upTo>>
      BY <1>4 DEF ClassifyFiles, server
    <3> HIDE DEF proceed, divergent
    <3> QED
      BY <3>3, <3>4 DEF InCycle
  <2>2. \A f \in File : onServer(f)' <=> onServer(f)
    BY <2>1 DEF onServer, local
  <2>3. CycleAccounts'
    <3> SUFFICES ASSUME NEW f \in File, localDoc[f] # None, localSeq[f] <= upTo
                 PROVE  /\ batch'[f] \in {None, localDoc[f]}
                        /\ \/ stage' # "commit" /\ batch'[f] = localDoc[f]
                           \/ add'[f] # None
                           \/ onServer(f)
      BY <2>1, <2>2 DEF CycleAccounts, local
    <3>1. batch[f] \in {None, localDoc[f]} /\ (batch[f] = localDoc[f] \/ onServer(f))
      BY <2>1 DEF VersionInv, CycleAccounts
    <3>2. batch'[f] \in {None, localDoc[f]}
      BY <2>1, <3>1
    <3>3. CASE batch[f] = localDoc[f]
      <4>1. CASE f \in proceed
        BY <2>1, <3>3, <4>1, <3>2
      <4>2. CASE f \in divergent
        BY <2>1, <3>2, <4>2
      <4>3. CASE f \notin proceed /\ f \notin divergent
        <5>1. classifyForPush(localDoc[f], remoteDoc[f]) # "proceed"
          BY <3>3, <4>3
        <5> QED
          BY <3>2, <5>1, SkippedIsOnServer DEF onServer
      <4> QED
        BY <4>1, <4>2, <4>3
    <3>4. CASE onServer(f)
      BY <3>2, <3>4
    <3> QED
      BY <3>1, <3>3, <3>4
  <2>4. SequencesOrdered' /\ EchoesKnown' /\ NoForgottenPush'
    BY <2>1, <2>2 DEF VersionInv, SequencesOrdered, EchoesKnown, NoForgottenPush, atRest,
                      local, saved
  <2> QED
    BY <2>3, <2>4 DEF VersionInv
<1>5. CASE FetchRevs
  <2>1. /\ UNCHANGED <<local, saved, echo, remoteDoc, upTo, batch, add>>
        /\ stage = "revs" /\ stage' = "chunks" /\ InCycle /\ InCycle'
    BY <1>5 DEF FetchRevs, InCycle, server
  <2>2. \A f \in File : onServer(f)' <=> onServer(f)
    BY <2>1 DEF onServer, local
  <2> QED
    BY <2>1, <2>2 DEF VersionInv, SequencesOrdered, EchoesKnown, CycleAccounts,
                      NoForgottenPush, atRest, local, saved
<1>6. CASE SendChunks
  <2>1. /\ UNCHANGED <<local, saved, echo, remoteDoc, upTo>>
        /\ stage = "chunks" /\ stage' = "files" /\ InCycle /\ InCycle'
        /\ \A f \in File : \/ batch'[f] = batch[f] /\ add'[f] = add[f]
                           \/ batch'[f] = None /\ add'[f] # None
    <3>1. \A f \in File : conflictEntry(f) # None
      BY EntryTypes, NoneIsNoEntry
    <3> QED
      BY <1>6, <3>1 DEF SendChunks, InCycle
  <2>2. \A f \in File : onServer(f)' <=> onServer(f)
    BY <2>1 DEF onServer, local
  <2>3. CycleAccounts'
    BY <2>1, <2>2 DEF VersionInv, CycleAccounts, local
  <2>4. SequencesOrdered' /\ EchoesKnown' /\ NoForgottenPush'
    BY <2>1, <2>2 DEF VersionInv, SequencesOrdered, EchoesKnown, NoForgottenPush, atRest,
                      local, saved
  <2> QED
    BY <2>3, <2>4 DEF VersionInv
<1>7. CASE SendFiles
  <2> DEFINE sent  == {f \in File : batch[f] # None}
             taken == {f \in sent : current(f)}
  <2>1. /\ ServerTakes(taken)
        /\ \A f \in File : add'[f] = IF f \in sent \ taken THEN conflictEntry(f) ELSE add[f]
        /\ UNCHANGED <<local, saved, echo, upTo, batch>>
        /\ stage = "files" /\ stage' = "commit" /\ InCycle /\ InCycle'
    BY <1>7 DEF SendFiles, InCycle
  <2>2. \A f \in File : conflictEntry(f) # None
    BY EntryTypes, NoneIsNoEntry
  <2>3. taken \in SUBSET File /\ \A f \in taken : batch[f] # None
    OBVIOUS
  <2>4. UNCHANGED <<localDoc, localSeq>>
    BY <2>1 DEF local
  <2>5. \A f \in File : localDoc[f] # None /\ localSeq[f] <= upTo =>
          /\ f \in taken => onServer(f)'
          /\ onServer(f) => onServer(f)'
    <3> HIDE DEF taken
    <3> QED
      BY <2>1, <2>3, <2>4, RowsReachServer
  <2>6. CycleAccounts'
    <3> SUFFICES ASSUME NEW f \in File, localDoc[f] # None, localSeq[f] <= upTo
                 PROVE  /\ batch[f] \in {None, localDoc[f]}
                        /\ add'[f] # None \/ onServer(f)'
      BY <2>1 DEF CycleAccounts, local
    <3>1. /\ batch[f] \in {None, localDoc[f]}
          /\ batch[f] = localDoc[f] \/ add[f] # None \/ onServer(f)
      BY <2>1 DEF VersionInv, CycleAccounts
    <3>2. CASE batch[f] = localDoc[f]
      <4>1. CASE f \in taken
        BY <2>5, <3>1, <4>1
      <4>2. CASE f \notin taken
        BY <2>1, <2>2, <3>1, <3>2, <4>2
      <4> QED
        BY <4>1, <4>2
    <3>3. CASE add[f] # None
      BY <2>1, <2>2, <3>1, <3>3
    <3>4. CASE onServer(f)
      BY <2>5, <3>1, <3>4
    <3> QED
      BY <3>1, <3>2, <3>3, <3>4
  <2>7. NoForgottenPush'
    BY <1>0, <2>1, <2>5 DEF VersionInv, NoForgottenPush, atRest, local, saved
  <2>8. SequencesOrdered' /\ EchoesKnown'
    BY <2>1 DEF VersionInv, SequencesOrdered, EchoesKnown, local, saved
  <2> QED
    BY <2>6, <2>7, <2>8 DEF VersionInv
<1>8. CASE Commit
  <2>1. /\ UNCHANGED <<local, echo, remoteDoc>>
        /\ cursor' = upTo /\ upTo' = 0
        /\ stage = "commit" /\ InCycle /\ ~InCycle'
        /\ \A f \in File : unpushed'[f] = None => add[f] = None
    BY <1>8 DEF Commit, lastSeq, InCycle, server
  <2>2. \A f \in File : onServer(f)' <=> onServer(f)
    BY <2>1 DEF onServer, local
  <2>3. SequencesOrdered' /\ CycleAccounts'
    BY <1>0, <2>1 DEF VersionInv, SequencesOrdered, CycleAccounts, local
  <2>4. EchoesKnown'
    BY <2>1 DEF VersionInv, EchoesKnown
  <2>5. NoForgottenPush'
    BY <2>1, <2>2 DEF VersionInv, CycleAccounts, NoForgottenPush, atRest, local
  <2> QED
    BY <2>3, <2>4, <2>5 DEF VersionInv
<1> QED
  BY <1>1, <1>2, <1>3, <1>4, <1>5, <1>6, <1>7, <1>8 DEF CycleStep

\* A failure commits nothing: the cursor and the set stay where they were.
LEMMA FailureVersions ==
  ASSUME PushTypeOK, VersionInv, Failure
  PROVE  VersionInv'
<1>0. cursor \in Nat /\ upTo \in Nat /\ seq \in Nat /\ cursor <= seq /\ upTo <= seq
      /\ (InCycle => cursor <= upTo)
  BY DEF PushTypeOK, VersionInv, SequencesOrdered
<1>1. CASE AnswerLost
  <2> DEFINE rows == IF stage = "files" THEN {f \in File : batch[f] # None /\ current(f)} ELSE {}
  <2>1. /\ InCycle /\ ~InCycle' /\ upTo' = 0
        /\ UNCHANGED <<local, saved, echo>>
    BY <1>1 DEF AnswerLost, DropCycle, InCycle
  <2>2. CASE stage = "files"
    <3>1. ServerTakes(rows) /\ rows \in SUBSET File /\ \A f \in rows : batch[f] # None
      BY <1>1, <2>2 DEF AnswerLost
    <3>2. UNCHANGED <<localDoc, localSeq>>
      BY <2>1 DEF local
    <3>3. \A f \in File : localDoc[f] # None /\ localSeq[f] <= upTo =>
            (onServer(f) => onServer(f)')
      <4> HIDE DEF rows
      <4> QED
        BY <2>1, <3>1, <3>2, RowsReachServer
    <3>4. \A f \in File : echo[f] = 0 /\ localSeq[f] \in Nat
      BY <2>1 DEF VersionInv, EchoesKnown, PushTypeOK
    <3>5. NoForgottenPush'
      BY <1>0, <2>1, <3>3, <3>4 DEF VersionInv, NoForgottenPush, atRest, local, saved
    <3>6. SequencesOrdered' /\ EchoesKnown' /\ CycleAccounts'
      BY <1>0, <2>1, <3>4 DEF VersionInv, SequencesOrdered, EchoesKnown, CycleAccounts,
                              local, saved
    <3> QED
      BY <3>5, <3>6 DEF VersionInv
  <2>3. CASE stage # "files"
    <3>1. UNCHANGED remoteDoc
      BY <1>1, <2>3 DEF AnswerLost
    <3>2. \A f \in File : onServer(f)' <=> onServer(f)
      BY <2>1, <3>1 DEF onServer, local
    <3> QED
      BY <1>0, <2>1, <3>2 DEF VersionInv, SequencesOrdered, EchoesKnown, CycleAccounts,
                              NoForgottenPush, atRest, local, saved
  <2> QED
    BY <2>2, <2>3
<1>2. CASE CycleFails \/ SessionRestarts \/ ProcessRestarts
  <2>1. /\ UNCHANGED <<local, saved, remoteDoc>> /\ ~InCycle' /\ upTo' = 0
        /\ (InCycle /\ echo' = echo) \/ echo' = zeroFor
    BY <1>2 DEF CycleFails, SessionRestarts, ProcessRestarts, DropCycle, InCycle, server
  <2>2. \A f \in File : onServer(f)' <=> onServer(f)
    BY <2>1 DEF onServer, local
  <2>3. \A f \in File : echo'[f] = 0
    BY <2>1 DEF VersionInv, EchoesKnown, zeroFor
  <2>4. \A f \in File : localSeq[f] <= seq /\ seq \in Nat
    BY <1>0 DEF VersionInv, SequencesOrdered
  <2>5. SequencesOrdered' /\ EchoesKnown' /\ CycleAccounts'
    BY <1>0, <2>1, <2>3, <2>4 DEF SequencesOrdered, EchoesKnown, CycleAccounts, local, saved
  <2>6. NoForgottenPush'
    BY <2>1, <2>2 DEF VersionInv, NoForgottenPush, atRest, local, saved
  <2> QED
    BY <2>5, <2>6 DEF VersionInv
<1>3. CASE WarmupFails
  <2>1. /\ UNCHANGED <<local, saved, echo, remoteDoc, upTo>> /\ ~InCycle /\ ~InCycle'
    BY <1>3 DEF WarmupFails, InCycle, server
  <2>2. \A f \in File : onServer(f)' <=> onServer(f)
    BY <2>1 DEF onServer, local
  <2> QED
    BY <2>1, <2>2 DEF VersionInv, SequencesOrdered, EchoesKnown, CycleAccounts,
                      NoForgottenPush, atRest, local, saved
<1>4. CASE \E f \in File : AnswerFails(f)
  BY <1>4, VersionsUntouched DEF AnswerFails, server
<1> QED
  BY <1>1, <1>2, <1>3, <1>4 DEF Failure

LEMMA PushInvInit == Init => PushInv
<1> SUFFICES ASSUME Init PROVE PushInv
  OBVIOUS
<1>1. PushTypeOK
  BY InitType
<1>2. /\ cursor = 0 /\ upTo = 0 /\ seq = 0 /\ stage = "warmup"
      /\ \A f \in File : /\ localDoc[f] = None /\ remoteDoc[f] = None /\ batch[f] = None
                         /\ asked[f] = None /\ stash[f] = None
                         /\ localSeq[f] = 0 /\ echo[f] = 0
  BY DEF Init, noneFor, zeroFor
<1>3. ClocksKnown
  BY <1>2 DEF ClocksKnown, ConflictKnown, PeerKnown
<1>4. SequencesOrdered /\ EchoesKnown /\ CycleAccounts /\ NoForgottenPush
  BY <1>2 DEF SequencesOrdered, EchoesKnown, CycleAccounts, NoForgottenPush, atRest, InCycle
<1> QED
  BY <1>1, <1>3, <1>4 DEF PushInv

LEMMA PushInvStep ==
  ASSUME "pull" \notin MidCycle, "file" \notin ServerErrors, PushInv, [Next]_vars
  PROVE  PushInv'
<1>0. PushTypeOK /\ ClocksKnown /\ VersionInv
  BY DEF PushInv, VersionInv
<1>1. PushTypeOK'
  BY <1>0, TypeStep
<1>2. ClocksKnown'
  <2>1. CASE UNCHANGED vars
    BY <1>0, <2>1, ClocksStay DEF vars, local, server, dialog, cycle
  <2> QED
    BY <1>0, <2>1, EnvironmentClocks, PullClocks, CycleClocks, FailureClocks DEF Next
<1>3. VersionInv'
  <2>1. CASE UNCHANGED vars
    BY <1>0, <2>1, VersionsUntouched DEF vars, server
  <2> QED
    BY <1>0, <2>1, EnvironmentVersions, PullVersions, CycleVersions, FailureVersions DEF Next
<1> QED
  BY <1>1, <1>2, <1>3 DEF PushInv, VersionInv

(***************************************************************************)
(* The accounting of a push cycle (PushPipeline.runCycle): every version   *)
(* the cycle has read is in its hands, in what it will put aside, or on    *)
(* the server, whatever edits, peers and failures fall between its round   *)
(* trips. Proved for any files, contents, edits and failures, where the    *)
(* pull commits nothing while a push cycle is open and the server refuses  *)
(* no file row; without either it does not hold (README, section 4).       *)
(***************************************************************************)
THEOREM EveryVersionAccounted ==
  ASSUME "pull" \notin MidCycle, "file" \notin ServerErrors
  PROVE  Spec => []PushInv
<1>1. PushInv /\ [Next]_vars => PushInv'
  BY PushInvStep
<1> QED
  BY <1>1, PushInvInit, PTL DEF Spec

(***************************************************************************)
(* No version this device recorded is forgotten: what the cursor has       *)
(* passed and the unpushed set does not hold is on the server. Proved for  *)
(* any files, contents, edits and failures, where the pull commits nothing *)
(* while a push cycle is open and the server refuses no file row; without  *)
(* either a version can be forgotten (README, section 4).                  *)
(***************************************************************************)
THEOREM NothingForgotten ==
  ASSUME "pull" \notin MidCycle, "file" \notin ServerErrors
  PROVE  Spec => []NoForgottenPush
<1>1. PushInv => NoForgottenPush
  BY DEF PushInv
<1> QED
  BY <1>1, EveryVersionAccounted, PTL
-----------------------------------------------------------------------------
(***************************************************************************)
(* ChunksFirst. A chunk the cursor has passed is on the server; one past   *)
(* it is in the hands of the next cycle; so whatever a cycle reads it can  *)
(* send after its chunk. What a dialog offers of the server was there too. *)
(***************************************************************************)
Alive(d) == d # None /\ ~d.deleted

Stored(d) == Alive(d) => d.content \in remoteBody
OfferStored(c) == c # None => Stored(c.remote)

BeforeChunks == stage \in {"classify", "revs", "chunks"}
Sent(c) == c \in remoteBody \/ (BeforeChunks /\ c \in bodies)

ChunksPassed ==
  /\ cursor <= seq /\ upTo <= seq /\ \A c \in Content : bodySeq[c] <= seq
  /\ \A c \in Content : bodySeq[c] # 0 /\ bodySeq[c] <= cursor => c \in remoteBody
  /\ InCycle => \A c \in Content : bodySeq[c] # 0 /\ bodySeq[c] <= upTo => Sent(c)

VersionsStored ==
  /\ \A f \in File : Stored(remoteDoc[f]) /\ OfferStored(asked[f]) /\ OfferStored(stash[f])
  /\ \A f \in File : Alive(localDoc[f]) =>
       bodySeq[localDoc[f].content] # 0 \/ localDoc[f].content \in remoteBody
  /\ InCycle => \A f \in File : Alive(batch[f]) => Sent(batch[f].content)

ChunkInv == ChunksPassed /\ VersionsStored

\* A step that leaves all this alone but for more chunks on the server.
LEMMA MoreChunks ==
  ASSUME ChunkInv, UNCHANGED <<localDoc, bodySeq, cursor>>,
         remoteBody \subseteq remoteBody', seq' = seq,
         \A f \in File : /\ remoteDoc'[f] = remoteDoc[f] \/ (Stored(remoteDoc[f]))'
                         /\ asked'[f] # asked[f] => OfferStored(asked'[f])
                         /\ stash'[f] # stash[f] => OfferStored(stash'[f]),
         upTo' <= seq,
         \/ ~InCycle'
         \/ UNCHANGED <<stage, upTo, batch, bodies>>
  PROVE  ChunkInv'
<1>1. VersionsStored'
  <2>1. \A f \in File : (Stored(remoteDoc[f]))'
    BY DEF ChunkInv, VersionsStored, Stored
  <2>2. \A f \in File : (OfferStored(asked[f]) /\ OfferStored(stash[f]))'
    BY DEF ChunkInv, VersionsStored, OfferStored, Stored
  <2>3. (InCycle => \A f \in File : Alive(batch[f]) => Sent(batch[f].content))'
    BY DEF ChunkInv, VersionsStored, InCycle, Sent, BeforeChunks, Alive
  <2> QED
    BY <2>1, <2>2, <2>3 DEF ChunkInv, VersionsStored, Alive
<1>2. ChunksPassed'
  BY DEF ChunkInv, ChunksPassed, InCycle, Sent, BeforeChunks
<1> QED
  BY <1>1, <1>2 DEF ChunkInv

\* A local write of a version whose chunk is at hand, with its own row if new.
LEMMA LocalWriteHasChunk ==
  ASSUME PushTypeOK, ChunkInv, NEW f \in File, NEW doc \in Doc, CommitLocal(f, doc),
         UNCHANGED <<cursor, remoteDoc, remoteBody, cycle>>,
         \A c \in Content : bodySeq'[c] = bodySeq[c] \/ (bodySeq[c] = 0 /\ bodySeq'[c] = seq + 1),
         ~doc.deleted => bodySeq'[doc.content] # 0 \/ doc.content \in remoteBody,
         \A g \in File : /\ asked'[g] # asked[g] => OfferStored(asked'[g])
                         /\ stash'[g] # stash[g] => OfferStored(stash'[g])
  PROVE  ChunkInv'
<1>1. /\ seq' = seq + 1 /\ localDoc'[f] = doc /\ seq \in Nat /\ cursor \in Nat /\ upTo \in Nat
      /\ \A g \in File \ {f} : localDoc'[g] = localDoc[g]
      /\ \A c \in Content : bodySeq[c] \in Nat
      /\ upTo' = upTo /\ stage' = stage /\ batch' = batch /\ bodies' = bodies
  BY DEF CommitLocal, PushTypeOK, cycle
<1>2. ChunksPassed'
  <2>1. \A c \in Content : /\ bodySeq'[c] <= seq'
                           /\ bodySeq'[c] # 0 /\ bodySeq'[c] <= seq => bodySeq'[c] = bodySeq[c]
    BY <1>1 DEF ChunkInv, ChunksPassed
  <2>2. upTo' <= seq' /\ upTo <= seq
    BY <1>1 DEF ChunkInv, ChunksPassed
  <2>3. ASSUME NEW c \in Content, bodySeq'[c] # 0, bodySeq'[c] <= cursor PROVE c \in remoteBody
    BY <1>1, <2>1, <2>3 DEF ChunkInv, ChunksPassed
  <2> QED
    BY <1>1, <2>1, <2>2, <2>3 DEF ChunkInv, ChunksPassed, InCycle, Sent, BeforeChunks
<1>3. VersionsStored'
  <2>1. \A g \in File : (Stored(remoteDoc[g]) /\ OfferStored(asked[g]) /\ OfferStored(stash[g]))'
    BY DEF ChunkInv, VersionsStored, OfferStored, Stored
  <2>2. \A g \in File : (Alive(localDoc[g]) =>
          bodySeq[localDoc[g].content] # 0 \/ localDoc[g].content \in remoteBody)'
    <3> SUFFICES ASSUME NEW g \in File, Alive(localDoc'[g])
                 PROVE  bodySeq'[localDoc'[g].content] # 0 \/ localDoc'[g].content \in remoteBody
      BY DEF Alive
    <3>1. CASE g = f
      BY <1>1, <3>1 DEF Alive
    <3>2. CASE g # f
      <4>1. localDoc'[g] = localDoc[g] /\ localDoc[g].content \in Content
        BY <1>1, <3>2 DEF PushTypeOK, Alive, Doc
      <4> QED
        BY <1>1, <4>1 DEF ChunkInv, VersionsStored
    <3> QED
      BY <3>1, <3>2
  <2>3. (InCycle => \A g \in File : Alive(batch[g]) => Sent(batch[g].content))'
    BY <1>1 DEF ChunkInv, VersionsStored, InCycle, Sent, BeforeChunks, Alive
  <2> QED
    BY <2>1, <2>2, <2>3 DEF VersionsStored
<1> QED
  BY <1>2, <1>3 DEF ChunkInv

LEMMA OffersStored ==
  ASSUME PushTypeOK, ChunkInv, NEW conflict, OfferAll(conflict),
         \A g \in File : OfferStored(conflict[g])
  PROVE  \A g \in File : /\ asked'[g] # asked[g] => OfferStored(asked'[g])
                         /\ stash'[g] # stash[g] => OfferStored(stash'[g])
  BY DEF OfferAll

LEMMA OfferStores ==
  ASSUME PushTypeOK, ChunkInv, NEW f \in File, NEW c, OfferStored(c), Offer(f, c)
  PROVE  \A g \in File : /\ asked'[g] # asked[g] => OfferStored(asked'[g])
                         /\ stash'[g] # stash[g] => OfferStored(stash'[g])
<1>1. \A g \in File : OfferStored([noneFor EXCEPT ![f] = c][g])
  <2>1. OfferStored(None)
    BY DEF OfferStored
  <2>2. \A g \in File : [noneFor EXCEPT ![f] = c][g] \in {None, c}
    BY DEF noneFor
  <2> QED
    BY <2>1, <2>2
<1> QED
  BY <1>1, OffersStored DEF Offer

LEMMA EnvironmentChunks ==
  ASSUME PushTypeOK, ChunkInv, Environment
  PROVE  ChunkInv'
<1>0. /\ Self \in Device /\ Peer \in Device /\ OfferStored(None) /\ upTo <= seq /\ seq \in Nat
      /\ \A g \in File : OfferStored(asked[g]) /\ OfferStored(stash[g])
  BY DevicesAssumption DEF OfferStored, ChunkInv, ChunksPassed, VersionsStored, PushTypeOK
<1>1. ASSUME NEW f \in File, NEW c \in Content, RecordEdit(f, c)
      PROVE  ChunkInv'
  <2> DEFINE d == [content |-> c, deleted |-> FALSE,
                   vclock |-> incrementVC(ownClock(f), Self)]
  <2>1. ownClock(f) \in Clock
    BY <1>0 DEF ownClock, PushTypeOK, ZeroClock, Clock, Doc
  <2>2. d \in Doc
    BY <1>0, <2>1, IncrementDominates DEF Doc
  <2>3. CommitLocal(f, d) /\ UNCHANGED <<cursor, remoteDoc, remoteBody, cycle, asked, stash>>
    BY <1>1 DEF RecordEdit, saved, server, dialog
  <2>4. /\ \A b \in Content : bodySeq'[b] = bodySeq[b] \/ (bodySeq[b] = 0 /\ bodySeq'[b] = seq + 1)
        /\ bodySeq'[c] # 0
    BY <1>0, <1>1 DEF RecordEdit, PushTypeOK
  <2>5. d.content = c
    OBVIOUS
  <2> HIDE DEF d
  <2> QED
    BY <2>2, <2>3, <2>4, <2>5, LocalWriteHasChunk
<1>2. ASSUME NEW f \in File, RecordDeletion(f)
      PROVE  ChunkInv'
  <2> DEFINE d == [localDoc[f] EXCEPT !.deleted = TRUE, !.vclock = incrementVC(@, Self)]
  <2>1. localDoc[f] \in Doc
    BY <1>2 DEF RecordDeletion, PushTypeOK
  <2>2. d \in Doc /\ d.deleted = TRUE
    BY <2>1, DocTypes DEF Doc
  <2>3. CommitLocal(f, d) /\ UNCHANGED <<cursor, remoteDoc, remoteBody, cycle, asked, stash, bodySeq>>
    BY <1>2 DEF RecordDeletion, saved, server, dialog
  <2> HIDE DEF d
  <2> QED
    BY <2>2, <2>3, LocalWriteHasChunk
<1>3. ASSUME NEW f \in File, Answer(f)
      PROVE  ChunkInv'
  <2> DEFINE kept  == [localDoc[f] EXCEPT
                         !.vclock = decidedClock(asked[f].local, asked[f].remote)]
             taken == takenRemote(asked[f].local, asked[f].remote)
  <2>1. localDoc[f] \in Doc /\ asked[f].local \in Doc /\ asked[f].remote \in Doc
    BY <1>3 DEF Answer, shownStands, Conflict, PushTypeOK
  <2>2. kept \in Doc /\ taken \in Doc
    BY <2>1, DocTypes DEF Doc
  <2>3. CommitLocal(f, kept) \/ CommitLocal(f, taken)
    BY <1>3 DEF Answer
  <2>4. /\ UNCHANGED <<cursor, remoteDoc, remoteBody, cycle, bodySeq, stash>>
        /\ \A g \in File : asked'[g] # asked[g] => asked'[g] = None
    BY <1>3 DEF Answer, saved, server, PushTypeOK
  <2>5. ~kept.deleted => bodySeq[kept.content] # 0 \/ kept.content \in remoteBody
    <3>1. kept.deleted = localDoc[f].deleted /\ kept.content = localDoc[f].content
      BY <2>1 DEF Doc
    <3> HIDE DEF kept
    <3> QED
      BY <2>1, <3>1, NoneIsNothing DEF ChunkInv, VersionsStored, Alive
  <2>6. ~taken.deleted => taken.content \in remoteBody
    <3>1. Stored(asked[f].remote)
      BY <1>0, <1>3 DEF Answer, OfferStored
    <3>2. taken.deleted = asked[f].remote.deleted /\ taken.content = asked[f].remote.content
      BY <2>1 DEF takenRemote, Doc
    <3> HIDE DEF taken
    <3> QED
      BY <2>1, <3>1, <3>2, NoneIsNothing DEF Stored, Alive
  <2>7. \A g \in File : /\ asked'[g] # asked[g] => OfferStored(asked'[g])
                        /\ stash'[g] # stash[g] => OfferStored(stash'[g])
    BY <1>0, <2>4
  <2> HIDE DEF kept, taken
  <2>8. CASE CommitLocal(f, kept)
    BY <2>2, <2>4, <2>5, <2>7, <2>8, LocalWriteHasChunk
  <2>9. CASE CommitLocal(f, taken)
    BY <2>2, <2>4, <2>6, <2>7, <2>9, LocalWriteHasChunk
  <2> QED
    BY <2>3, <2>8, <2>9
<1>4. ASSUME NEW f \in File, AnswerSuperseded(f) \/ Defer(f)
      PROVE  ChunkInv'
  <2>1. /\ UNCHANGED <<localDoc, bodySeq, cursor, remoteBody, seq, remoteDoc, upTo, stage, batch, bodies>>
        /\ \A g \in File : asked'[g] \in {asked[g], None} /\ stash'[g] \in {stash[g], asked[g], None}
    BY <1>4 DEF AnswerSuperseded, Defer, local, saved, server, cycle, PushTypeOK
  <2> QED
    BY <1>0, <2>1, MoreChunks
<1>5. ASSUME NEW f \in File, NEW c \in Content, NEW deleted \in BOOLEAN,
             PeerWrites(f, c, deleted)
      PROVE  ChunkInv'
  <2>1. /\ UNCHANGED <<localDoc, bodySeq, cursor, seq, upTo, stage, batch, bodies, asked, stash>>
        /\ remoteBody \subseteq remoteBody' /\ (~deleted => c \in remoteBody')
    BY <1>5 DEF PeerWrites, local, saved, dialog, cycle
  <2>2. /\ remoteDoc'[f].content = c /\ remoteDoc'[f].deleted = deleted
        /\ \A g \in File \ {f} : remoteDoc'[g] = remoteDoc[g]
    BY <1>5 DEF PeerWrites, PushTypeOK
  <2>3. (Stored(remoteDoc[f]))'
    BY <2>1, <2>2 DEF Stored, Alive
  <2> QED
    BY <1>0, <2>1, <2>2, <2>3, MoreChunks
<1>6. CASE BackfillNow
  <2>1. UNCHANGED <<localDoc, bodySeq, cursor, remoteBody, seq, remoteDoc, upTo, stage, batch, bodies,
                    asked, stash>>
    BY <1>6 DEF BackfillNow, local, server, cycle, dialog
  <2> QED
    BY <1>0, <2>1, MoreChunks
<1> QED
  BY <1>1, <1>2, <1>3, <1>4, <1>5, <1>6 DEF Environment, UserAnswers

LEMMA PullChunks ==
  ASSUME PushTypeOK, ChunkInv, PullStep
  PROVE  ChunkInv'
<1>0. /\ OfferStored(None) /\ upTo <= seq /\ seq \in Nat
      /\ \A g \in File : OfferStored(asked[g]) /\ OfferStored(stash[g]) /\ Stored(remoteDoc[g])
  BY DEF OfferStored, ChunkInv, ChunksPassed, VersionsStored, PushTypeOK
<1>1. ASSUME NEW f \in File, PullFile(f)
      PROVE  ChunkInv'
  <2> DEFINE verdict == resolveOnPull(localDoc[f], remoteDoc[f])
             a       == acceptedOnPull(localDoc[f], remoteDoc[f])
             c       == [local |-> localDoc[f], remote |-> remoteDoc[f]]
  <2>1. /\ remoteDoc[f] \in Doc /\ localDoc[f] \in Doc \cup {None}
        /\ UNCHANGED <<cursor, bodySeq, remoteDoc, remoteBody, cycle>>
    BY <1>1 DEF PullFile, PushTypeOK, server, saved
  <2>2. CASE verdict \in {"take-remote", "silent-merge"}
    <3>1. /\ CommitLocal(f, a) /\ stash' = stash
          /\ \A g \in File : asked'[g] # asked[g] => asked'[g] = None
      BY <1>1, <2>2 DEF PullFile, AutoResolve, PushTypeOK
    <3>2. a \in Doc
      BY <2>1, <2>2, AcceptedType
    <3>3. a.content = remoteDoc[f].content /\ a.deleted = remoteDoc[f].deleted
      BY <2>1, <2>2 DEF acceptedOnPull, Doc
    <3>4. ~a.deleted => a.content \in remoteBody
      BY <1>0, <2>1, <3>3, NoneIsNothing DEF Stored, Alive
    <3>5. \A g \in File : /\ asked'[g] # asked[g] => OfferStored(asked'[g])
                          /\ stash'[g] # stash[g] => OfferStored(stash'[g])
      BY <1>0, <3>1
    <3> HIDE DEF a
    <3> QED
      BY <2>1, <3>1, <3>2, <3>4, <3>5, LocalWriteHasChunk
  <2>3. CASE verdict = "concurrent"
    <3>1. Offer(f, c) /\ UNCHANGED <<seq, localDoc>>
      BY <1>1, <2>3 DEF PullFile
    <3>2. OfferStored(c)
      BY <1>0 DEF OfferStored
    <3> HIDE DEF c
    <3>3. \A g \in File : /\ asked'[g] # asked[g] => OfferStored(asked'[g])
                          /\ stash'[g] # stash[g] => OfferStored(stash'[g])
      BY <3>1, <3>2, OfferStores
    <3> QED
      BY <1>0, <2>1, <3>1, <3>3, MoreChunks DEF cycle
  <2>4. CASE verdict = "keep-local"
    <3>1. UNCHANGED <<seq, localDoc, asked, stash>>
      BY <1>1, <2>4 DEF PullFile, dialog
    <3> QED
      BY <1>0, <2>1, <3>1, MoreChunks DEF cycle
  <2> QED
    BY <1>1, <2>2, <2>3, <2>4 DEF PullFile
<1>2. ASSUME NEW f \in File, EnsureChunks(f)
      PROVE  ChunkInv'
  <2> DEFINE b == localDoc[f].content
  <2>1. /\ UNCHANGED <<localDoc, cursor, remoteDoc, remoteBody, cycle, asked, stash>>
        /\ seq' = seq + 1 /\ bodySeq[b] = 0 /\ b \in Content
        /\ \A c \in Content : bodySeq'[c] = IF c = b THEN seq + 1 ELSE bodySeq[c]
    BY <1>2 DEF EnsureChunks, PushTypeOK, Doc, saved, server, dialog
  <2>2. /\ cursor \in Nat /\ upTo \in Nat /\ cursor <= seq /\ upTo <= seq
        /\ \A c \in Content : bodySeq[c] \in Nat /\ bodySeq[c] <= seq
    BY DEF PushTypeOK, ChunkInv, ChunksPassed
  <2> HIDE DEF b
  <2>3. \A c \in Content : /\ bodySeq'[c] # 0 <=> (bodySeq[c] # 0 \/ c = b)
                           /\ bodySeq'[c] <= seq' /\ (bodySeq'[c] <= seq => bodySeq'[c] = bodySeq[c])
    BY <1>0, <2>1, <2>2
  <2>4. ChunksPassed'
    <3>0. \A c \in Content : bodySeq'[c] \in Nat
      BY <1>0, <2>1, <2>2
    <3>1. ASSUME NEW c \in Content, bodySeq'[c] # 0, bodySeq'[c] <= cursor PROVE c \in remoteBody
      <4>1. bodySeq'[c] = bodySeq[c]
        BY <1>0, <2>2, <2>3, <3>0, <3>1
      <4> QED
        BY <3>1, <4>1 DEF ChunkInv, ChunksPassed
    <3>2. ASSUME InCycle, NEW c \in Content, bodySeq'[c] # 0, bodySeq'[c] <= upTo PROVE Sent(c)
      <4>1. bodySeq'[c] = bodySeq[c]
        BY <1>0, <2>2, <2>3, <3>0, <3>2
      <4> QED
        BY <3>2, <4>1 DEF ChunkInv, ChunksPassed
    <3>3. cursor' <= seq' /\ upTo' <= seq'
      BY <1>0, <2>1, <2>2 DEF cycle
    <3> QED
      BY <2>1, <2>3, <3>1, <3>2, <3>3 DEF ChunksPassed, InCycle, Sent, BeforeChunks, cycle
  <2>5. VersionsStored'
    <3>1. \A g \in File : Alive(localDoc[g]) => localDoc[g].content \in Content
      BY DEF PushTypeOK, Alive, Doc
    <3> QED
      BY <2>1, <2>3, <3>1 DEF ChunkInv, VersionsStored, Stored, OfferStored, Alive, Sent, BeforeChunks, InCycle, cycle
  <2> QED
    BY <2>4, <2>5 DEF ChunkInv
<1>3. ASSUME NEW f \in File, PresentAgain(f)
      PROVE  ChunkInv'
  <2>1. UNCHANGED <<localDoc, bodySeq, cursor, remoteBody, seq, remoteDoc, upTo, stage, batch, bodies>>
    BY <1>3 DEF PresentAgain, local, saved, server, cycle
  <2> DEFINE r == IF pendingConflict[f] = "pull-delete-vs-edit"
                    THEN fakeTombstone(localDoc[f]) ELSE remoteDoc[f]
             c == [local |-> localDoc[f], remote |-> r]
  <2>2. (stillConflicts(f) /\ Offer(f, c)) \/ UNCHANGED <<asked, stash>>
    BY <1>3 DEF PresentAgain
  <2>3. stillConflicts(f) => OfferStored(c)
    <3> SUFFICES ASSUME stillConflicts(f) PROVE Stored(r)
      BY DEF OfferStored
    <3>1. localDoc[f] \in Doc
      BY DEF stillConflicts, PushTypeOK
    <3>2. fakeTombstone(localDoc[f]).deleted = TRUE
      BY <3>1 DEF fakeTombstone, Doc
    <3>3. Stored(fakeTombstone(localDoc[f]))
      BY <3>2 DEF Stored, Alive
    <3> QED
      BY <1>0, <3>3
  <2> HIDE DEF c
  <2>4. \A g \in File : /\ asked'[g] # asked[g] => OfferStored(asked'[g])
                        /\ stash'[g] # stash[g] => OfferStored(stash'[g])
    BY <2>2, <2>3, OfferStores
  <2> QED
    BY <1>0, <2>1, <2>4, MoreChunks
<1>4. ASSUME NEW f \in File, RecheckStashed(f)
      PROVE  ChunkInv'
  <2> DEFINE l == localDoc[f]
             r == stash[f].remote
             d == takenRemote(l, r)
             c == [local |-> l, remote |-> r]
  <2>1. /\ l \in Doc /\ r \in Doc
        /\ UNCHANGED <<cursor, bodySeq, remoteDoc, remoteBody, cycle>>
        /\ \A g \in File : stash'[g] # stash[g] => stash'[g] = None
    BY <1>4 DEF RecheckStashed, PushTypeOK, Conflict, saved, server
  <2>2. Stored(r)
    BY <1>0, <1>4 DEF RecheckStashed, OfferStored
  <2>3. \/ UNCHANGED <<seq, localDoc>> /\ \A g \in File : asked'[g] # asked[g] => asked'[g] = c
        \/ CommitLocal(f, d) /\ asked' = asked
    BY <1>4 DEF RecheckStashed, PushTypeOK
  <2>4. OfferStored(c)
    BY <2>2 DEF OfferStored
  <2>5. d \in Doc /\ d.deleted = r.deleted /\ d.content = r.content
    BY <2>1, DocTypes DEF takenRemote, Doc
  <2> HIDE DEF d, c
  <2>6. CASE UNCHANGED <<seq, localDoc>> /\ \A g \in File : asked'[g] # asked[g] => asked'[g] = c
    BY <1>0, <2>1, <2>4, <2>6, MoreChunks DEF cycle
  <2>7. CASE CommitLocal(f, d) /\ asked' = asked
    <3>1. ~d.deleted => d.content \in remoteBody
      BY <2>1, <2>2, <2>5, NoneIsNothing DEF Stored, Alive
    <3> QED
      BY <1>0, <2>1, <2>5, <2>7, <3>1, LocalWriteHasChunk
  <2> QED
    BY <2>3, <2>6, <2>7
<1>5. ASSUME NEW f \in File, VaultCatchesUp(f)
      PROVE  ChunkInv'
  <2>1. UNCHANGED <<localDoc, bodySeq, cursor, remoteBody, seq, remoteDoc, upTo, stage, batch,
                    bodies, stash>>
    BY <1>5 DEF VaultCatchesUp, local, saved, server, cycle
  <2>2. \A g \in File : asked'[g] \in {asked[g], None}
    BY <1>5 DEF VaultCatchesUp, DropConflict, AutoResolve, PushTypeOK
  <2> QED
    BY <1>0, <2>1, <2>2, MoreChunks
<1> QED
  BY <1>1, <1>2, <1>3, <1>4, <1>5 DEF PullStep

LEMMA CycleChunks ==
  ASSUME "chunk" \notin ServerErrors, PushTypeOK, ChunkInv, CycleStep
  PROVE  ChunkInv'
<1>0. /\ OfferStored(None) /\ cursor \in Nat /\ upTo \in Nat /\ seq \in Nat
      /\ cursor <= seq /\ upTo <= seq
      /\ \A c \in Content : bodySeq[c] \in Nat /\ bodySeq[c] <= seq
      /\ \A f \in File : OfferStored(asked[f]) /\ OfferStored(stash[f]) /\ Stored(remoteDoc[f])
  BY DEF OfferStored, ChunkInv, ChunksPassed, VersionsStored, PushTypeOK
<1>1. CASE Warmup \/ Backfill
  <2>1. /\ UNCHANGED <<localDoc, bodySeq, cursor, remoteBody, seq, remoteDoc, upTo, asked, stash>>
        /\ ~InCycle'
    BY <1>1 DEF Warmup, Backfill, InCycle, local, server, dialog
  <2> QED
    BY <1>0, <2>1, MoreChunks
<1>2. CASE Enumerate
  <2>1. /\ UNCHANGED <<localDoc, bodySeq, cursor, remoteBody, seq, remoteDoc, asked, stash>>
        /\ upTo' = seq /\ stage' = "classify" /\ bodies' = changedBodies
        /\ \A f \in File : batch'[f] \in {localDoc[f], None}
    BY <1>2 DEF Enumerate, local, saved, server, dialog
  <2>2. ASSUME NEW c \in Content, bodySeq[c] # 0 \/ c \in remoteBody
        PROVE  Sent(c)'
    <3>1. CASE bodySeq[c] > cursor
      BY <2>1, <3>1 DEF Sent, BeforeChunks, changedBodies
    <3>2. CASE ~(bodySeq[c] > cursor)
      BY <1>0, <2>1, <2>2, <3>2 DEF ChunkInv, ChunksPassed, Sent
    <3> QED
      BY <3>1, <3>2
  <2>3. ChunksPassed'
    BY <1>0, <2>1, <2>2 DEF ChunkInv, ChunksPassed
  <2>4. \A f \in File : Alive(batch'[f]) => Sent(batch[f].content)'
    <3> SUFFICES ASSUME NEW f \in File, Alive(batch'[f])
                 PROVE  Sent(batch[f].content)'
      OBVIOUS
    <3> DEFINE b == localDoc[f].content
    <3>1. batch'[f] = localDoc[f] /\ Alive(localDoc[f])
      BY <2>1 DEF Alive
    <3>2. b \in Content /\ (bodySeq[b] # 0 \/ b \in remoteBody)
      BY <3>1 DEF PushTypeOK, Alive, Doc, ChunkInv, VersionsStored
    <3>3. batch'[f].content = b
      BY <3>1
    <3> HIDE DEF b
    <3>4. b \in remoteBody \/ b \in changedBodies
      BY <1>0, <3>2 DEF ChunkInv, ChunksPassed, changedBodies
    <3> QED
      BY <2>1, <3>3, <3>4 DEF Sent, BeforeChunks
  <2>5. VersionsStored'
    BY <2>1, <2>4 DEF ChunkInv, VersionsStored, Stored, OfferStored, Alive
  <2> QED
    BY <2>3, <2>5 DEF ChunkInv
<1>3. CASE ClassifyFiles
  <2> DEFINE class(f)   == classifyForPush(batch[f], remoteDoc[f])
             inBatch    == {f \in File : batch[f] # None}
             proceed    == {f \in inBatch : class(f) = "proceed" /\ ~escalates(f)}
             divergent  == {f \in inBatch :
                              \/ class(f) = "divergent"
                              \/ class(f) = "proceed" /\ escalates(f)}
             offer      == [f \in File |->
                              IF f \in divergent /\ remoteDoc[f] # None
                                THEN [local |-> batch[f], remote |-> remoteDoc[f]] ELSE None]
  <2>1. /\ UNCHANGED <<localDoc, bodySeq, cursor, remoteBody, seq, remoteDoc, upTo, bodies>>
        /\ stage = "classify" /\ OfferAll(offer)
        /\ stage' = IF proceed = {} /\ bodies = {} THEN "commit" ELSE "revs"
        /\ batch' = [f \in File |-> IF f \in proceed THEN batch[f] ELSE None]
    BY <1>3 DEF ClassifyFiles, local, saved, server
  <2>2. \A f \in File : OfferStored(offer[f])
    <3> SUFFICES ASSUME NEW f \in File PROVE OfferStored(offer[f])
      OBVIOUS
    <3>1. offer[f] = None \/ offer[f] = [local |-> batch[f], remote |-> remoteDoc[f]]
      OBVIOUS
    <3> HIDE DEF offer
    <3> QED
      BY <1>0, <3>1 DEF OfferStored
  <2>3. \A f \in File : batch'[f] \in {batch[f], None}
    BY <2>1
  <2>4. (stage' = "revs" \/ (stage' = "commit" /\ bodies = {}))
    BY <2>1
  <2> HIDE DEF offer, proceed
  <2>5. \A g \in File : /\ asked'[g] # asked[g] => OfferStored(asked'[g])
                        /\ stash'[g] # stash[g] => OfferStored(stash'[g])
    BY <2>1, <2>2, OffersStored
  <2>6. \A c : Sent(c) => Sent(c)'
    BY <2>1, <2>4 DEF Sent, BeforeChunks
  <2>7. InCycle
    BY <2>1 DEF InCycle
  <2>8. ChunksPassed'
    BY <2>1, <2>6, <2>7 DEF ChunkInv, ChunksPassed
  <2>9. (\A f \in File : Stored(remoteDoc[f]) /\ OfferStored(asked[f]) /\ OfferStored(stash[f]))'
    BY <1>0, <2>1, <2>5 DEF Stored, OfferStored
  <2>10. \A f \in File : Alive(batch'[f]) => Sent(batch[f].content)'
    BY <2>3, <2>6, <2>7 DEF ChunkInv, VersionsStored, Alive
  <2>11. VersionsStored'
    BY <2>1, <2>9, <2>10 DEF ChunkInv, VersionsStored, Alive
  <2> QED
    BY <2>8, <2>11 DEF ChunkInv
<1>4. CASE FetchRevs
  <2>1. /\ UNCHANGED <<localDoc, bodySeq, cursor, remoteBody, seq, remoteDoc, upTo, batch, asked, stash>>
        /\ stage = "revs" /\ stage' = "chunks" /\ bodies' = bodies \ remoteBody
    BY <1>4 DEF FetchRevs, local, saved, server, dialog
  <2>2. InCycle /\ \A c : Sent(c) => Sent(c)'
    BY <2>1 DEF Sent, BeforeChunks, InCycle
  <2>3. ChunksPassed'
    BY <2>1, <2>2 DEF ChunkInv, ChunksPassed
  <2>4. VersionsStored'
    BY <2>1, <2>2 DEF ChunkInv, VersionsStored, Stored, OfferStored, Alive
  <2> QED
    BY <2>3, <2>4 DEF ChunkInv
<1>5. CASE SendChunks
  <2>1. /\ UNCHANGED <<localDoc, bodySeq, cursor, seq, remoteDoc, upTo, asked, stash>>
        /\ stage = "chunks" /\ stage' = "files" /\ remoteBody' = remoteBody \cup bodies
        /\ \A f \in File : batch'[f] \in {batch[f], None}
    BY <1>5 DEF SendChunks, local, saved, dialog
  <2>2. InCycle /\ \A c : Sent(c) => c \in remoteBody'
    BY <2>1 DEF Sent, InCycle
  <2>3. ChunksPassed'
    BY <2>1, <2>2 DEF ChunkInv, ChunksPassed, Sent
  <2>4. VersionsStored'
    BY <2>1, <2>2 DEF ChunkInv, VersionsStored, Stored, OfferStored, Alive, Sent
  <2> QED
    BY <2>3, <2>4 DEF ChunkInv
<1>6. CASE SendFiles
  <2>1. /\ UNCHANGED <<localDoc, bodySeq, cursor, seq, remoteBody, upTo, batch, bodies, asked, stash>>
        /\ stage = "files" /\ stage' = "commit"
        /\ \A f \in File : remoteDoc'[f] \in {batch[f], remoteDoc[f]}
    BY <1>6 DEF SendFiles, ServerTakes, local, saved, dialog
  <2>2. InCycle /\ \A c : Sent(c) => c \in remoteBody /\ Sent(c)'
    BY <2>1 DEF Sent, BeforeChunks, InCycle
  <2>3. \A f \in File : Stored(batch[f])
    BY <2>2 DEF ChunkInv, VersionsStored, Stored
  <2>4. ChunksPassed'
    BY <2>1, <2>2 DEF ChunkInv, ChunksPassed
  <2>5. \A f \in File : (Stored(remoteDoc[f]))'
    BY <1>0, <2>1, <2>3 DEF Stored
  <2>6. VersionsStored'
    BY <2>1, <2>2, <2>5 DEF ChunkInv, VersionsStored, Stored, OfferStored, Alive
  <2> QED
    BY <2>4, <2>6 DEF ChunkInv
<1>7. CASE Commit
  <2>1. /\ UNCHANGED <<localDoc, bodySeq, seq, remoteDoc, remoteBody, asked, stash>>
        /\ stage = "commit" /\ stage' = "idle" /\ cursor' = upTo /\ upTo' = 0
    BY <1>7 DEF Commit, lastSeq, local, server, dialog
  <2>2. InCycle /\ ~InCycle' /\ \A c : Sent(c) => c \in remoteBody
    BY <2>1 DEF Sent, BeforeChunks, InCycle
  <2>3. ChunksPassed'
    BY <1>0, <2>1, <2>2 DEF ChunkInv, ChunksPassed
  <2>4. VersionsStored'
    BY <2>1, <2>2 DEF ChunkInv, VersionsStored, Stored, OfferStored, Alive
  <2> QED
    BY <2>3, <2>4 DEF ChunkInv
<1> QED
  BY <1>1, <1>2, <1>3, <1>4, <1>5, <1>6, <1>7 DEF CycleStep

\* A cycle given up leaves the cursor and the chunks the server already took.
LEMMA FailureChunks ==
  ASSUME PushTypeOK, ChunkInv, Failure
  PROVE  ChunkInv'
<1>0. /\ OfferStored(None) /\ upTo \in Nat /\ seq \in Nat /\ upTo <= seq
  BY DEF OfferStored, ChunkInv, ChunksPassed, PushTypeOK
<1>1. CASE AnswerLost
  <2>1. /\ UNCHANGED <<localDoc, bodySeq, cursor, seq, asked, stash>>
        /\ remoteBody \subseteq remoteBody' /\ upTo' = 0 /\ stage' = "idle"
        /\ stage = "chunks" => remoteDoc' = remoteDoc
        /\ stage # "chunks" => /\ stage = "files"
                               /\ \A f \in File : remoteDoc'[f] \in {batch[f], remoteDoc[f]}
    BY <1>1 DEF AnswerLost, ServerTakes, DropCycle, local, saved, dialog
  <2>2. \A f \in File : remoteDoc'[f] = remoteDoc[f] \/ (Stored(remoteDoc[f]))'
    <3>1. CASE stage = "chunks"
      BY <2>1, <3>1
    <3>2. CASE stage = "files"
      <4>1. \A f \in File : Stored(batch[f])
        BY <3>2 DEF ChunkInv, VersionsStored, Stored, Sent, BeforeChunks, InCycle
      <4> QED
        BY <2>1, <3>2, <4>1 DEF Stored
    <3> QED
      BY <2>1, <3>1, <3>2
  <2>3. ~InCycle' /\ upTo' <= seq
    BY <1>0, <2>1 DEF InCycle
  <2> QED
    BY <2>1, <2>2, <2>3, MoreChunks
<1>2. CASE CycleFails \/ SessionRestarts \/ ProcessRestarts \/ WarmupFails
  <2>1. /\ UNCHANGED <<localDoc, bodySeq, cursor, seq, remoteDoc, remoteBody>>
        /\ upTo' \in {upTo, 0} /\ ~InCycle'
        /\ \A f \in File : asked'[f] \in {asked[f], None} /\ stash'[f] \in {stash[f], None}
    BY <1>2 DEF CycleFails, SessionRestarts, ProcessRestarts, WarmupFails, DropCycle, InCycle,
                local, saved, server, dialog, noneFor
  <2> QED
    BY <1>0, <2>1, MoreChunks
<1>3. CASE \E f \in File : AnswerFails(f)
  <2>1. UNCHANGED <<localDoc, bodySeq, cursor, remoteBody, seq, remoteDoc, upTo, stage, batch,
                    bodies, stash>>
    BY <1>3 DEF AnswerFails, local, saved, server, cycle
  <2>2. \A g \in File : asked'[g] \in {asked[g], None}
    BY <1>3 DEF AnswerFails, DropConflict, AutoResolve, PushTypeOK
  <2> QED
    BY <1>0, <2>1, <2>2, MoreChunks
<1> QED
  BY <1>1, <1>2, <1>3 DEF Failure

LEMMA ChunkInvStep ==
  ASSUME "chunk" \notin ServerErrors, PushTypeOK, ChunkInv, [Next]_vars
  PROVE  ChunkInv'
<1>1. CASE UNCHANGED vars
  BY <1>1 DEF vars, local, saved, server, dialog, cycle, ChunkInv, ChunksPassed, VersionsStored,
              Stored, OfferStored, Alive, Sent, BeforeChunks, InCycle
<1> QED
  BY <1>1, EnvironmentChunks, PullChunks, CycleChunks, FailureChunks DEF Next

(***************************************************************************)
(* The push order contract (PushPipeline.pushDocs): a file the server      *)
(* shows has its chunk there, whatever edits, pulls, answers and failures  *)
(* fall between the round trips of a cycle. Proved for any files,          *)
(* contents, edits and failures, where the server refuses no chunk row;    *)
(* where it may, a chunk past the cursor can be missing (README,           *)
(* section 4).                                                             *)
(***************************************************************************)
THEOREM ChunksAreFirst ==
  ASSUME "chunk" \notin ServerErrors
  PROVE  Spec => []ChunksFirst
<1>1. Init => ChunkInv
  BY DEF Init, ChunkInv, ChunksPassed, VersionsStored, Stored, OfferStored, Alive, InCycle,
         noneFor
<1>2. PushTypeOK /\ ChunkInv /\ [Next]_vars => ChunkInv'
  BY ChunkInvStep
<1>3. ChunkInv => ChunksFirst
  BY DEF ChunkInv, VersionsStored, Stored, Alive, ChunksFirst
<1> QED
  BY <1>1, <1>2, <1>3, PushTypeCorrect, PTL DEF Spec
-----------------------------------------------------------------------------
(***************************************************************************)
(* ServerMovesForward. A row goes out with the revision its classification *)
(* saw, and a file the server does not have gets none; where the peer      *)
(* makes no new paths, a revision fetched later is still none. So a row    *)
(* the server takes is over the version it was found to dominate.          *)
(***************************************************************************)
InFlight(f) == stage \in {"revs", "chunks", "files"} /\ batch[f] # None

RowKnown(f) ==
  /\ revOf[f] <= remoteRev[f]
  /\ revOf[f] = 0 => remoteDoc[f] = None
  /\ revOf[f] = remoteRev[f] /\ remoteDoc[f] # None
       => Dominates(batch[f].vclock, remoteDoc[f].vclock)

RowsKnown ==
  /\ \A f \in File : remoteRev[f] = 0 <=> remoteDoc[f] = None
  /\ \A f \in File : InFlight(f) => RowKnown(f)

\* A step that leaves the server alone, and the rows or the cycle.
LEMMA RowsStay ==
  ASSUME RowsKnown, UNCHANGED <<remoteDoc, remoteRev>>,
         UNCHANGED <<stage, batch, revOf>> \/ stage' \notin {"revs", "chunks", "files"}
  PROVE  RowsKnown'
  BY DEF RowsKnown, InFlight, RowKnown

LEMMA ProceedsOverSeen ==
  ASSUME NEW l \in Doc, NEW r \in Doc, classifyForPush(l, r) = "proceed"
  PROVE  Dominates(l.vclock, r.vclock)
<1>1. l.vclock \in Clock /\ r.vclock \in Clock
  BY DocTypes
<1>2. compareVC(l.vclock, r.vclock) = "dominates"
  <2>1. compareVC(l.vclock, r.vclock) \in {"concurrent", "dominates", "dominated", "equal"}
    BY DEF compareVC
  <2> QED
    BY <2>1, NoneIsNothing DEF classifyForPush
<1> QED
  BY <1>1, <1>2, CompareIsOrder

\* The rows a send puts on the server each replace what they dominate.
LEMMA TakenMovesForward ==
  ASSUME PushTypeOK, RowsKnown, stage = "files", NEW rows \in SUBSET File, ServerTakes(rows),
         \A f \in rows : batch[f] # None /\ current(f)
  PROVE  /\ \A f \in File : remoteRev'[f] = 0 <=> remoteDoc'[f] = None
         /\ \A f \in File : remoteDoc[f] # None /\ remoteDoc'[f] # remoteDoc[f]
              => Dominates(remoteDoc'[f].vclock, remoteDoc[f].vclock)
<1> SUFFICES ASSUME NEW f \in File
             PROVE  /\ remoteRev'[f] = 0 <=> remoteDoc'[f] = None
                    /\ remoteDoc[f] # None /\ remoteDoc'[f] # remoteDoc[f]
                         => Dominates(remoteDoc'[f].vclock, remoteDoc[f].vclock)
  OBVIOUS
<1>1. CASE f \in rows
  <2>1. /\ remoteDoc'[f] = batch[f] /\ remoteRev'[f] = remoteRev[f] + 1
        /\ remoteRev[f] \in Nat /\ batch[f] # None /\ revOf[f] = remoteRev[f]
    BY <1>1 DEF ServerTakes, PushTypeOK, current
  <2>2. RowKnown(f)
    BY <2>1 DEF RowsKnown, InFlight
  <2> QED
    BY <2>1, <2>2 DEF RowKnown
<1>2. CASE f \notin rows
  BY <1>2 DEF ServerTakes, RowsKnown
<1> QED
  BY <1>1, <1>2

\* The peer's version counts one more of its own than any clock does.
LEMMA PeerMovesForward ==
  ASSUME PeerCreates = FALSE, PushTypeOK, ClocksKnown, RowsKnown,
         NEW f \in File, NEW c \in Content, NEW deleted \in BOOLEAN, PeerWrites(f, c, deleted)
  PROVE  /\ remoteDoc[f] # None /\ remoteDoc'[f] # None
         /\ Dominates(remoteDoc'[f].vclock, remoteDoc[f].vclock)
         /\ remoteRev'[f] = remoteRev[f] + 1
         /\ \A g \in File \ {f} : remoteDoc'[g] = remoteDoc[g] /\ remoteRev'[g] = remoteRev[g]
         /\ UNCHANGED <<stage, batch, revOf>>
<1> DEFINE k == remoteDoc[f].vclock
           v == [k EXCEPT ![Peer] = peerMade[f] + 1]
           r == [content |-> c, deleted |-> deleted, vclock |-> v]
<1>1. remoteDoc[f] \in Doc /\ remoteDoc[f] # None
  BY DEF PeerWrites, PushTypeOK
<1>2. k \in Clock /\ peerMade[f] \in Nat /\ k[Peer] <= peerMade[f] /\ Peer \in Device
  BY <1>1, DevicesAssumption DEF PushTypeOK, Doc, ClocksKnown, PeerKnown
<1>3. Dominates(v, k) /\ v \in Clock
  <2>1. v \in Clock
    BY <1>2 DEF Clock
  <2>2. \A d \in Device : k[d] \in Nat /\ v[d] = IF d = Peer THEN peerMade[f] + 1 ELSE k[d]
    BY <1>2 DEF Clock
  <2> HIDE DEF v, k
  <2>3. Includes(v, k)
    <3> SUFFICES ASSUME NEW d \in Device PROVE v[d] >= k[d]
      BY DEF Includes
    <3>1. CASE d = Peer
      BY <1>2, <2>2, <3>1
    <3>2. CASE d # Peer
      <4>1. v[d] = k[d] /\ k[d] \in Nat
        BY <2>2, <3>2
      <4> QED
        BY <4>1
    <3> QED
      BY <3>1, <3>2
  <2>4. ~Includes(k, v)
    BY <1>2, <2>2 DEF Includes
  <2> QED
    BY <2>1, <2>3, <2>4 DEF Dominates
<1>4. remoteDoc' = [remoteDoc EXCEPT ![f] = r]
  BY <1>1 DEF PeerWrites
<1>5. remoteDoc'[f] = r /\ \A g \in File \ {f} : remoteDoc'[g] = remoteDoc[g]
  BY <1>4 DEF PushTypeOK
<1>6. r.vclock = v /\ r \in Doc
  BY <1>3 DEF Doc
<1>7. /\ remoteRev'[f] = remoteRev[f] + 1
      /\ \A g \in File \ {f} : remoteRev'[g] = remoteRev[g]
      /\ UNCHANGED <<stage, batch, revOf>>
  BY DEF PeerWrites, PushTypeOK, cycle
<1> HIDE DEF r, v
<1> QED
  BY <1>1, <1>3, <1>5, <1>6, <1>7, NoneIsNothing

\* One step keeps the rows known, and moves the server only forward.
LEMMA RowsStep ==
  ASSUME PeerCreates = FALSE, PushTypeOK, ClocksKnown, RowsKnown, [Next]_vars
  PROVE  /\ RowsKnown'
         /\ \A f \in File : remoteDoc[f] # None /\ remoteDoc'[f] # remoteDoc[f]
              => Dominates(remoteDoc'[f].vclock, remoteDoc[f].vclock)
<1> DEFINE Forward == \A f \in File : remoteDoc[f] # None /\ remoteDoc'[f] # remoteDoc[f]
                        => Dominates(remoteDoc'[f].vclock, remoteDoc[f].vclock)
<1> SUFFICES RowsKnown' /\ Forward
  OBVIOUS
<1>1. ASSUME NEW f \in File, NEW c \in Content, NEW deleted \in BOOLEAN,
             PeerWrites(f, c, deleted)
      PROVE  RowsKnown' /\ Forward
  <2>1. /\ remoteDoc[f] # None /\ remoteDoc'[f] # None
        /\ Dominates(remoteDoc'[f].vclock, remoteDoc[f].vclock)
        /\ remoteRev'[f] = remoteRev[f] + 1
        /\ \A g \in File \ {f} : remoteDoc'[g] = remoteDoc[g] /\ remoteRev'[g] = remoteRev[g]
        /\ UNCHANGED <<stage, batch, revOf>>
    BY <1>1, PeerMovesForward
  <2>2. remoteRev[f] \in Nat /\ revOf[f] \in Nat
    BY DEF PushTypeOK
  <2>3. InFlight(f)' => RowKnown(f)'
    BY <2>1, <2>2 DEF RowsKnown, InFlight, RowKnown
  <2>4. \A g \in File \ {f} : InFlight(g)' => RowKnown(g)'
    BY <2>1 DEF RowsKnown, InFlight, RowKnown
  <2>5. \A g \in File : remoteRev'[g] = 0 <=> remoteDoc'[g] = None
    BY <2>1, <2>2 DEF RowsKnown
  <2> QED
    BY <2>1, <2>3, <2>4, <2>5 DEF RowsKnown
<1>2. CASE ClassifyFiles
  <2> DEFINE inBatch == {f \in File : batch[f] # None}
             proceed == {f \in inBatch :
                           classifyForPush(batch[f], remoteDoc[f]) = "proceed" /\ ~escalates(f)}
  <2>1. /\ UNCHANGED <<remoteDoc, remoteRev>>
        /\ batch' = [f \in File |-> IF f \in proceed THEN batch[f] ELSE None]
        /\ revOf' = [f \in File |->
             IF f \in proceed /\ remoteDoc[f] # None THEN remoteRev[f] ELSE 0]
    BY <1>2 DEF ClassifyFiles, server
  <2>2. ASSUME NEW f \in File, batch'[f] # None
        PROVE  RowKnown(f)'
    <3>1. /\ f \in proceed /\ batch'[f] = batch[f]
          /\ revOf'[f] = IF remoteDoc[f] # None THEN remoteRev[f] ELSE 0
      BY <2>1, <2>2
    <3>2. /\ batch[f] \in Doc /\ classifyForPush(batch[f], remoteDoc[f]) = "proceed"
          /\ remoteDoc[f] \in Doc \cup {None} /\ remoteRev[f] \in Nat
      BY <3>1 DEF PushTypeOK
    <3>3. remoteDoc[f] # None => Dominates(batch[f].vclock, remoteDoc[f].vclock)
      BY <3>2, ProceedsOverSeen
    <3> QED
      BY <2>1, <3>1, <3>2, <3>3 DEF RowKnown, RowsKnown
  <2> QED
    BY <2>1, <2>2 DEF RowsKnown, InFlight
<1>3. CASE FetchRevs
  <2>1. /\ UNCHANGED <<remoteDoc, remoteRev, batch>> /\ stage = "revs" /\ stage' = "chunks"
        /\ \A f \in File : batch[f] # None =>
             revOf'[f] = IF revOf[f] = 0 THEN remoteRev[f] ELSE revOf[f]
    BY <1>3 DEF FetchRevs, revFor, server
  <2>2. ASSUME NEW f \in File, batch[f] # None
        PROVE  RowKnown(f)'
    BY <2>1, <2>2 DEF RowsKnown, InFlight, RowKnown, PushTypeOK
  <2> QED
    BY <2>1, <2>2 DEF RowsKnown, InFlight
<1>4. CASE SendChunks
  <2>1. /\ UNCHANGED <<remoteDoc, remoteRev, revOf>> /\ stage = "chunks" /\ stage' = "files"
        /\ \A f \in File : batch'[f] \in {batch[f], None}
    BY <1>4 DEF SendChunks
  <2> QED
    BY <2>1 DEF RowsKnown, InFlight, RowKnown
<1>5. CASE SendFiles \/ AnswerLost
  <2>1. CASE stage = "files"
    <3>1. PICK rows \in SUBSET File : /\ ServerTakes(rows)
                                      /\ \A f \in rows : batch[f] # None /\ current(f)
      <4>1. CASE SendFiles
        <5> DEFINE sent == {f \in File : batch[f] # None}
        <5>1. PICK refused \in SUBSET (IF "file" \in ServerErrors THEN sent ELSE {}) :
                ServerTakes({f \in sent \ refused : current(f)})
          BY <4>1 DEF SendFiles
        <5> QED
          BY <5>1
      <4>2. CASE AnswerLost
        BY <2>1, <4>2 DEF AnswerLost
      <4> QED
        BY <1>5, <4>1, <4>2
    <3>2. Forward /\ \A f \in File : remoteRev'[f] = 0 <=> remoteDoc'[f] = None
      BY <2>1, <3>1, TakenMovesForward
    <3>3. stage' \notin {"revs", "chunks", "files"}
      BY <1>5 DEF SendFiles, AnswerLost
    <3> QED
      BY <3>2, <3>3 DEF RowsKnown, InFlight
  <2>2. CASE stage # "files"
    <3>1. UNCHANGED <<remoteDoc, remoteRev>> /\ stage' = "idle"
      BY <1>5, <2>2 DEF SendFiles, AnswerLost
    <3> QED
      BY <3>1, RowsStay
  <2> QED
    BY <2>1, <2>2
<1>6. CASE \/ Enumerate \/ Commit \/ Warmup \/ Backfill \/ WarmupFails
           \/ CycleFails \/ SessionRestarts \/ ProcessRestarts
  <2>1. UNCHANGED <<remoteDoc, remoteRev>> /\ stage' \notin {"revs", "chunks", "files"}
    BY <1>6 DEF Enumerate, Commit, Warmup, Backfill, WarmupFails, CycleFails, SessionRestarts,
                ProcessRestarts, server
  <2> QED
    BY <2>1, RowsStay
<1>7. CASE \/ PullStep \/ BackfillNow \/ UNCHANGED vars
           \/ \E f \in File, c \in Content : RecordEdit(f, c)
           \/ \E f \in File : RecordDeletion(f) \/ UserAnswers(f) \/ AnswerFails(f)
  <2>1. UNCHANGED <<remoteDoc, remoteRev, stage, batch, revOf>>
    <3>1. CASE PullStep
      BY <3>1 DEF PullStep, PullFile, EnsureChunks, VaultCatchesUp, PresentAgain,
                  RecheckStashed, server, cycle
    <3>2. CASE BackfillNow \/ UNCHANGED vars
      BY <3>2 DEF BackfillNow, vars, server, cycle
    <3>3. CASE \/ \E f \in File, c \in Content : RecordEdit(f, c)
               \/ \E f \in File : RecordDeletion(f) \/ UserAnswers(f) \/ AnswerFails(f)
      BY <3>3 DEF RecordEdit, RecordDeletion, UserAnswers, Answer, AnswerSuperseded, Defer,
                  AnswerFails, server, cycle
    <3> QED
      BY <1>7, <3>1, <3>2, <3>3
  <2> QED
    BY <2>1, RowsStay
<1> HIDE DEF Forward
<1> QED
  BY <1>1, <1>2, <1>3, <1>4, <1>5, <1>6, <1>7 DEF Next, Environment, CycleStep, Failure

(***************************************************************************)
(* A version on the server is only replaced by one that has seen it: what  *)
(* another device pushed meanwhile is never overwritten by a push          *)
(* (PushPipeline.pushDocs). Proved for any files, contents, edits and      *)
(* failures, with any refused rows and any writer between the round trips  *)
(* of a cycle, where no other device makes a path the server does not      *)
(* have; where one does, the revision fetched for a new path may be that   *)
(* of a version never compared (README, section 4).                        *)
(***************************************************************************)
THEOREM ServerOnlyForward ==
  ASSUME PeerCreates = FALSE
  PROVE  Spec => ServerMovesForward
<1> DEFINE I == PushTypeOK /\ ClocksKnown /\ RowsKnown
           Forward == \A f \in File : remoteDoc[f] # None /\ remoteDoc'[f] # remoteDoc[f]
                        => Dominates(remoteDoc'[f].vclock, remoteDoc[f].vclock)
<1>1. Init => I
  <2>1. Init => RowsKnown
    BY DEF Init, RowsKnown, InFlight, noneFor, zeroFor
  <2> QED
    BY <2>1, PushInvInit DEF PushInv
<1>2. I /\ [Next]_vars => I' /\ Forward
  <2> SUFFICES ASSUME I, [Next]_vars PROVE I' /\ Forward
    OBVIOUS
  <2>1. PushTypeOK'
    BY TypeStep
  <2>2. ClocksKnown'
    <3>1. CASE UNCHANGED vars
      BY <3>1, ClocksStay DEF vars, local, server, dialog, cycle
    <3> QED
      BY <3>1, EnvironmentClocks, PullClocks, CycleClocks, FailureClocks DEF Next
  <2> QED
    BY <2>1, <2>2, RowsStep
<1> QED
  BY <1>1, <1>2, PTL DEF Spec, ServerMovesForward
-----------------------------------------------------------------------------
(***************************************************************************)
(* NoSilentDivergence. A file the push has nothing left for, or whose last *)
(* row is a pull's own, is judged: if the pull has seen the server's       *)
(* version, the two are the same state, or they conflict and the conflict  *)
(* has its durable record, of the kind the two versions call for, or is    *)
(* one whose record went unanswered. A record of that kind is not dropped  *)
(* when it is presented again. In a cycle the same holds of each version   *)
(* that is no longer in the cycle's hands.                                 *)
(***************************************************************************)
Divergent(f) == /\ pendingConflict[f] = kindOf(localDoc[f], remoteDoc[f])
                /\ resolveOnPull(localDoc[f], remoteDoc[f]) = "concurrent"

Judged(f) == pulled[f] = remoteRev[f] =>
               /\ remoteDoc[f] # None
               /\ sameState(localDoc[f], remoteDoc[f]) \/ Divergent(f) \/ f \in dropped

Echoed(f)  == echo[f] # 0 /\ localSeq[f] <= echo[f]
Carried(f) == \/ stage # "commit" /\ batch[f] = localDoc[f]
              \/ stage # "classify" /\ add[f] # None

FileJudged(f) ==
  /\ pulled[f] <= remoteRev[f]
  /\ atRest(f) \/ Echoed(f) => Judged(f)
  /\ InCycle /\ localDoc[f] # None /\ localSeq[f] <= upTo => Carried(f) \/ Judged(f)

JudgedInv == \A f \in File : FileJudged(f)

\* What is judged of a file is about its versions, and the pull's view of them.
LEMMA JudgedSame ==
  ASSUME NEW f \in File, Judged(f), localDoc'[f] = localDoc[f], remoteDoc'[f] = remoteDoc[f],
         remoteRev'[f] = remoteRev[f], pulled'[f] = pulled[f],
         pendingConflict'[f] = pendingConflict[f], f \in dropped => f \in dropped'
  PROVE  Judged(f)'
  BY DEF Judged, Divergent

\* A new version on the server is not judged yet.
LEMMA UnseenJudged ==
  ASSUME PushTypeOK, NEW f \in File, FileJudged(f),
         remoteRev'[f] = remoteRev[f] + 1, pulled'[f] = pulled[f]
  PROVE  Judged(f)' /\ pulled'[f] <= remoteRev'[f]
<1>1. pulled[f] \in Nat /\ remoteRev[f] \in Nat /\ pulled[f] <= remoteRev[f]
  BY DEF PushTypeOK, FileJudged
<1>2. pulled'[f] # remoteRev'[f] /\ pulled'[f] <= remoteRev'[f]
  BY <1>1
<1> QED
  BY <1>2 DEF Judged

\* A step that leaves f's row and its part of the cycle alone, or ends the cycle.
LEMMA JudgedStays ==
  ASSUME NEW f \in File, FileJudged(f), pulled'[f] <= remoteRev'[f], Judged(f) => Judged(f)',
         localDoc'[f] = localDoc[f], localSeq'[f] = localSeq[f], cursor' = cursor,
         unpushed'[f] = None => unpushed[f] = None, echo'[f] \in {echo[f], 0},
         \/ ~InCycle'
         \/ UNCHANGED <<stage, upTo>> /\ batch'[f] = batch[f] /\ add'[f] = add[f]
  PROVE  FileJudged(f)'
<1>1. (atRest(f) \/ Echoed(f))' => Judged(f)'
  BY DEF FileJudged, atRest, Echoed
<1>2. InCycle' /\ localDoc'[f] # None /\ localSeq'[f] <= upTo' => Carried(f)' \/ Judged(f)'
  BY DEF FileJudged, InCycle, Carried
<1> QED
  BY <1>1, <1>2 DEF FileJudged

\* A local write outside the pull: its row is past the cursor and the cycle.
LEMMA JudgedWritten ==
  ASSUME PushTypeOK, SequencesOrdered, NEW f \in File, FileJudged(f), NEW doc,
         CommitLocal(f, doc), UNCHANGED <<cursor, upTo, echo, pulled, remoteRev>>
  PROVE  FileJudged(f)'
<1>1. /\ localSeq'[f] = seq + 1 /\ seq \in Nat /\ cursor \in Nat /\ upTo \in Nat /\ echo[f] \in Nat
      /\ cursor <= seq /\ upTo <= seq /\ echo[f] <= seq
  BY DEF CommitLocal, PushTypeOK, SequencesOrdered
<1>2. /\ ~(localSeq'[f] <= cursor') /\ ~(localSeq'[f] <= upTo') /\ ~(localSeq'[f] <= echo'[f])
      /\ pulled'[f] <= remoteRev'[f]
  BY <1>1 DEF FileJudged
<1> QED
  BY <1>2 DEF FileJudged, atRest, Echoed

\* Such a write leaves the other files as judged as they were.
LEMMA OthersJudged ==
  ASSUME PushTypeOK, JudgedInv, NEW f \in File, NEW doc, CommitLocal(f, doc),
         UNCHANGED <<saved, echo, pulled, remoteDoc, remoteRev, dropped, cycle>>,
         \A g \in File \ {f} : pendingConflict'[g] = pendingConflict[g]
  PROVE  \A g \in File \ {f} : FileJudged(g)'
<1> SUFFICES ASSUME NEW g \in File \ {f} PROVE FileJudged(g)'
  OBVIOUS
<1>1. /\ localDoc'[g] = localDoc[g] /\ localSeq'[g] = localSeq[g] /\ FileJudged(g)
      /\ pendingConflict'[g] = pendingConflict[g]
      /\ UNCHANGED <<cursor, unpushed, stage, upTo, batch, add>>
  BY DEF CommitLocal, PushTypeOK, JudgedInv, saved, cycle
<1>2. pulled'[g] <= remoteRev'[g]
  BY <1>1 DEF FileJudged
<1>3. Judged(g) => Judged(g)'
  BY <1>1, JudgedSame
<1> QED
  BY <1>1, <1>2, <1>3, JudgedStays

LEMMA LocalWriteJudged ==
  ASSUME PushTypeOK, SequencesOrdered, JudgedInv, NEW f \in File, NEW doc, CommitLocal(f, doc),
         UNCHANGED <<saved, echo, pulled, remoteDoc, remoteRev, dropped, cycle>>,
         \A g \in File \ {f} : pendingConflict'[g] = pendingConflict[g]
  PROVE  JudgedInv'
<1>1. FileJudged(f)'
  <2>1. FileJudged(f) /\ UNCHANGED <<cursor, upTo, echo, pulled, remoteRev>>
    BY DEF JudgedInv, saved, cycle
  <2> QED
    BY <2>1, JudgedWritten
<1> QED
  BY <1>1, OthersJudged DEF JudgedInv

\* A step that touches no version, no row and nothing of the cycle.
LEMMA NothingJudgedAnew ==
  ASSUME JudgedInv,
         UNCHANGED <<localDoc, localSeq, cursor, echo, pulled, remoteDoc, remoteRev,
                     pendingConflict, dropped, stage, upTo, batch, add>>,
         \A f \in File : unpushed'[f] = None => unpushed[f] = None
  PROVE  JudgedInv'
<1> SUFFICES ASSUME NEW f \in File PROVE FileJudged(f)'
  BY DEF JudgedInv
<1>1. FileJudged(f) /\ pulled'[f] <= remoteRev'[f]
  BY DEF JudgedInv, FileJudged
<1>2. Judged(f) => Judged(f)'
  BY JudgedSame
<1> QED
  BY <1>1, <1>2, JudgedStays

\* A conflict whose record goes unanswered is remembered as such.
LEMMA DroppedIsKnown ==
  ASSUME PushTypeOK, JudgedInv, NEW f \in File, DropConflict(f),
         UNCHANGED <<localDoc, localSeq, cursor, unpushed, echo, pulled, remoteDoc, remoteRev,
                     stage, upTo, batch, add>>
  PROVE  JudgedInv'
<1> SUFFICES ASSUME NEW g \in File PROVE FileJudged(g)'
  BY DEF JudgedInv
<1>1. FileJudged(g) /\ pulled'[g] <= remoteRev'[g]
  BY DEF JudgedInv, FileJudged
<1>2. Judged(g) => Judged(g)'
  <2>1. CASE pendingConflict'[g] = pendingConflict[g]
    <3>1. g \in dropped => g \in dropped'
      BY DEF DropConflict
    <3> QED
      BY <2>1, <3>1, JudgedSame
  <2>2. CASE pendingConflict'[g] # pendingConflict[g]
    <3>1. g = f /\ pendingConflict[f] # None
      BY <2>2 DEF DropConflict, AutoResolve, PushTypeOK
    <3>2. g \in dropped'
      BY <3>1 DEF DropConflict
    <3> QED
      BY <3>2 DEF Judged
  <2> QED
    BY <2>1, <2>2
<1> QED
  BY <1>1, <1>2, JudgedStays

LEMMA EnvironmentJudged ==
  ASSUME PushTypeOK, SequencesOrdered, JudgedInv, Environment
  PROVE  JudgedInv'
<1>1. ASSUME NEW f \in File, NEW c \in Content, RecordEdit(f, c)
      PROVE  JudgedInv'
  <2> DEFINE d == [content |-> c, deleted |-> FALSE,
                   vclock |-> incrementVC(ownClock(f), Self)]
  <2>1. /\ CommitLocal(f, d)
        /\ UNCHANGED <<saved, echo, pulled, remoteDoc, remoteRev, dropped, cycle>>
        /\ pendingConflict' = pendingConflict
    BY <1>1 DEF RecordEdit, server, dialog, late
  <2> HIDE DEF d
  <2> QED
    BY <2>1, LocalWriteJudged
<1>2. ASSUME NEW f \in File, RecordDeletion(f)
      PROVE  JudgedInv'
  <2> DEFINE d == [localDoc[f] EXCEPT !.deleted = TRUE, !.vclock = incrementVC(@, Self)]
  <2>1. /\ CommitLocal(f, d)
        /\ UNCHANGED <<saved, echo, pulled, remoteDoc, remoteRev, dropped, cycle>>
        /\ pendingConflict' = pendingConflict
    BY <1>2 DEF RecordDeletion, server, dialog, late
  <2> HIDE DEF d
  <2> QED
    BY <2>1, LocalWriteJudged
<1>3. ASSUME NEW f \in File, Answer(f)
      PROVE  JudgedInv'
  <2>1. /\ \E d : CommitLocal(f, d)
        /\ UNCHANGED <<saved, echo, pulled, remoteDoc, remoteRev, dropped, cycle>>
        /\ \A g \in File \ {f} : pendingConflict'[g] = pendingConflict[g]
    BY <1>3 DEF Answer, server, late, PushTypeOK
  <2> QED
    BY <2>1, LocalWriteJudged
<1>4. ASSUME NEW f \in File, AnswerSuperseded(f) \/ Defer(f)
      PROVE  JudgedInv'
  BY <1>4, NothingJudgedAnew DEF AnswerSuperseded, Defer, server, local, saved, late, cycle
<1>5. ASSUME NEW f \in File, NEW c \in Content, NEW deleted \in BOOLEAN,
             PeerWrites(f, c, deleted)
      PROVE  JudgedInv'
  <2>1. /\ UNCHANGED <<localDoc, localSeq, cursor, unpushed, echo, pulled, pendingConflict,
                       dropped, stage, upTo, batch, add>>
        /\ remoteRev'[f] = remoteRev[f] + 1
        /\ \A g \in File \ {f} : remoteDoc'[g] = remoteDoc[g] /\ remoteRev'[g] = remoteRev[g]
    BY <1>5 DEF PeerWrites, PushTypeOK, local, saved, dialog, late, cycle
  <2> SUFFICES ASSUME NEW g \in File PROVE FileJudged(g)'
    BY DEF JudgedInv
  <2>2. FileJudged(g)
    BY DEF JudgedInv
  <2>3. (Judged(g) => Judged(g)') /\ pulled'[g] <= remoteRev'[g]
    <3>1. CASE g = f
      BY <2>1, <2>2, <3>1, UnseenJudged
    <3>2. CASE g # f
      BY <2>1, <2>2, <3>2, JudgedSame DEF FileJudged
    <3> QED
      BY <3>1, <3>2
  <2> QED
    BY <2>1, <2>2, <2>3, JudgedStays
<1>6. CASE BackfillNow
  <2>1. \A f \in File : unpushed'[f] = None => unpushed[f] = None
    BY <1>6 DEF BackfillNow, EnqueueTargets, PushTypeOK
  <2> QED
    BY <1>6, <2>1, NothingJudgedAnew DEF BackfillNow, local, server, dialog, late, cycle
<1> QED
  BY <1>1, <1>2, <1>3, <1>4, <1>5, <1>6 DEF Environment, UserAnswers

\* What the pull says of two versions, and what the push and the records say.
LEMMA AcceptedIsSame ==
  ASSUME NEW l \in Doc \cup {None}, NEW r \in Doc,
         resolveOnPull(l, r) \in {"take-remote", "silent-merge"}
  PROVE  sameState(acceptedOnPull(l, r), r)
<1>1. acceptedOnPull(l, r) = r \/ \E v : acceptedOnPull(l, r) = [r EXCEPT !.vclock = v]
  BY DEF acceptedOnPull
<1> QED
  BY <1>1 DEF sameState, Doc

LEMMA ClassesOfPush ==
  ASSUME NEW l \in Doc, NEW r \in Doc \cup {None}
  PROVE  /\ classifyForPush(l, r) \in {"skip", "proceed", "divergent"}
         /\ classifyForPush(l, r) = "skip" => r # None /\ sameState(l, r)
<1>1. compareVC(l.vclock, r.vclock) \in {"concurrent", "dominates", "dominated", "equal"}
  BY DEF compareVC
<1> QED
  BY <1>1 DEF classifyForPush, sameBody, sameState

LEMMA KeptIsSame ==
  ASSUME NEW l \in Doc \cup {None}, NEW r \in Doc, resolveOnPull(l, r) = "keep-local"
  PROVE  l \in Doc /\ (sameState(l, r) \/ classifyForPush(l, r) = "proceed")
<1>1. l \in Doc
  BY DEF resolveOnPull
<1>2. relationOfDocs(l, r) \in {"remote-edit", "vclock-only-drift", "true-divergent",
                                "identical", "local-edit"}
  <2>1. compareVC(l.vclock, r.vclock) \in {"concurrent", "dominates", "dominated", "equal"}
    BY DEF compareVC
  <2> QED
    BY <2>1 DEF relationOfDocs
<1>3. relationOfDocs(l, r) \in {"identical", "local-edit"}
  BY <1>1, <1>2, NoneIsNothing DEF resolveOnPull
<1>4. sameState(l, r) \/ (~sameState(l, r) /\ compareVC(l.vclock, r.vclock) = "dominates")
  <2>1. compareVC(l.vclock, r.vclock) \in {"concurrent", "dominates", "dominated", "equal"}
    BY DEF compareVC
  <2> QED
    BY <1>3, <2>1 DEF relationOfDocs
<1> QED
  BY <1>1, <1>4, NoneIsNothing DEF classifyForPush, sameBody, sameState

LEMMA ConcurrentDiffers ==
  ASSUME NEW l \in Doc \cup {None}, NEW r \in Doc, resolveOnPull(l, r) = "concurrent"
  PROVE  l \in Doc /\ ~sameState(l, r)
<1>1. l \in Doc
  BY DEF resolveOnPull
<1>2. compareVC(l.vclock, r.vclock) \in {"concurrent", "dominates", "dominated", "equal"}
  BY DEF compareVC
<1>3. sameState(l, r) => relationOfDocs(l, r) \in {"identical", "vclock-only-drift"}
  BY <1>2 DEF relationOfDocs
<1> QED
  BY <1>1, <1>3, NoneIsNothing DEF resolveOnPull

\* The record of a conflict between the versions as they are is not dropped.
LEMMA DivergentStands ==
  ASSUME PushTypeOK, NEW f \in File, remoteDoc[f] # None, Divergent(f)
  PROVE  stillConflicts(f)
<1>1. /\ remoteDoc[f] \in Doc /\ localDoc[f] \in Doc \cup {None}
      /\ resolveOnPull(localDoc[f], remoteDoc[f]) = "concurrent"
      /\ pendingConflict[f] = kindOf(localDoc[f], remoteDoc[f])
  BY DEF PushTypeOK, Divergent
<1>2. localDoc[f] \in Doc /\ ~sameState(localDoc[f], remoteDoc[f])
  BY <1>1, ConcurrentDiffers
<1>3. CASE remoteDoc[f].deleted
  BY <1>1, <1>2, <1>3, NoneIsNothing DEF stillConflicts, kindOf, sameState
<1>4. CASE ~remoteDoc[f].deleted
  BY <1>1, <1>2, <1>4, NoneIsNothing DEF stillConflicts, kindOf
<1> QED
  BY <1>3, <1>4

LEMMA PullJudged ==
  ASSUME "pull" \notin MidCycle, PushTypeOK, VersionInv, JudgedInv, PullStep
  PROVE  JudgedInv'
<1>0. SequencesOrdered
  BY DEF VersionInv
<1>1. ASSUME NEW f \in File, PullFile(f)
      PROVE  JudgedInv'
  <2> DEFINE l == localDoc[f]
             r == remoteDoc[f]
  <2>1. /\ r \in Doc /\ l \in Doc \cup {None} /\ ~InCycle
        /\ UNCHANGED <<saved, remoteDoc, remoteRev, cycle>>
        /\ pulled'[f] = remoteRev[f] /\ \A g \in File \ {f} : pulled'[g] = pulled[g]
        /\ pulled'[f] <= remoteRev'[f]
    BY <1>1 DEF PullFile, PushTypeOK, server, mayWrite, InCycle
  <2>2. UNCHANGED <<cursor, unpushed, stage, upTo, batch, add>> /\ ~InCycle'
    BY <2>1 DEF saved, cycle, InCycle
  <2>3. /\ \A g \in File \ {f} : /\ localDoc'[g] = localDoc[g] /\ localSeq'[g] = localSeq[g]
                                 /\ echo'[g] = echo[g]
                                 /\ pendingConflict'[g] = pendingConflict[g]
                                 /\ g \in dropped => g \in dropped'
    BY <1>1 DEF PullFile, AutoResolve, PushTypeOK, CommitLocal, dialog
  <2>4. ASSUME NEW g \in File \ {f} PROVE FileJudged(g)'
    <3>1. FileJudged(g) /\ pulled'[g] <= remoteRev'[g]
      BY <2>1 DEF JudgedInv, FileJudged
    <3>2. Judged(g) => Judged(g)'
      BY <2>1, <2>3, JudgedSame
    <3> QED
      BY <2>2, <2>3, <3>1, <3>2, JudgedStays
  <2>5. CASE Judged(f)'
    BY <2>1, <2>2, <2>4, <2>5 DEF JudgedInv, FileJudged
  <2>6. CASE resolveOnPull(l, r) \in {"take-remote", "silent-merge"}
    <3>1. localDoc'[f] = acceptedOnPull(l, r)
      BY <1>1, <2>6 DEF PullFile, CommitLocal, PushTypeOK
    <3>2. sameState(localDoc'[f], remoteDoc'[f]) /\ remoteDoc'[f] # None
      BY <2>1, <2>6, <3>1, AcceptedIsSame, NoneIsNothing
    <3> QED
      BY <2>5, <3>2 DEF Judged
  <2>7. CASE resolveOnPull(l, r) = "concurrent"
    <3>1. localDoc' = localDoc /\ pendingConflict'[f] = kindOf(l, r)
      BY <1>1, <2>7 DEF PullFile, PushTypeOK
    <3>2. Divergent(f)' /\ remoteDoc'[f] # None
      BY <2>1, <2>7, <3>1, NoneIsNothing DEF Divergent
    <3> QED
      BY <2>5, <3>2 DEF Judged
  <2>8. CASE resolveOnPull(l, r) = "keep-local"
    <3>1. UNCHANGED <<localDoc, localSeq, echo>>
      BY <1>1, <2>8 DEF PullFile
    <3>2. CASE sameState(l, r)
      BY <2>1, <2>5, <3>1, <3>2, NoneIsNothing DEF Judged
    <3>3. CASE classifyForPush(l, r) = "proceed"
      <4>1. ~onServer(f)
        BY <3>3 DEF onServer
      <4>2. ~atRest(f) /\ ~Echoed(f)
        BY <4>1 DEF VersionInv, NoForgottenPush, EchoesKnown, Echoed
      <4>3. ~atRest(f)' /\ ~Echoed(f)'
        BY <2>2, <3>1, <4>2 DEF atRest, Echoed
      <4> QED
        BY <2>1, <2>2, <2>4, <4>3 DEF JudgedInv, FileJudged
    <3> QED
      BY <2>1, <2>8, <3>2, <3>3, KeptIsSame
  <2> QED
    BY <1>1, <2>6, <2>7, <2>8 DEF PullFile
<1>2. ASSUME NEW f \in File, EnsureChunks(f)
      PROVE  JudgedInv'
  BY <1>2, NothingJudgedAnew DEF EnsureChunks, saved, server, dialog, late, cycle
<1>3. ASSUME NEW f \in File, PresentAgain(f)
      PROVE  JudgedInv'
  <2>1. UNCHANGED <<localDoc, localSeq, cursor, unpushed, echo, pulled, remoteDoc, remoteRev,
                    dropped, stage, upTo, batch, add>>
    BY <1>3 DEF PresentAgain, local, saved, server, late, cycle
  <2>2. /\ \A g \in File \ {f} : pendingConflict'[g] = pendingConflict[g]
        /\ stillConflicts(f) => pendingConflict' = pendingConflict
    BY <1>3 DEF PresentAgain, PushTypeOK
  <2> SUFFICES ASSUME NEW g \in File PROVE FileJudged(g)'
    BY DEF JudgedInv
  <2>3. FileJudged(g) /\ pulled'[g] <= remoteRev'[g]
    BY <2>1 DEF JudgedInv, FileJudged
  <2>4. Judged(g) => Judged(g)'
    <3>1. CASE pendingConflict'[g] = pendingConflict[g]
      BY <2>1, <3>1, JudgedSame
    <3>2. CASE pendingConflict'[g] # pendingConflict[g]
      <4>1. g = f /\ ~stillConflicts(g)
        BY <2>2, <3>2
      <4>2. remoteDoc[g] # None => ~Divergent(g)
        BY <4>1, DivergentStands
      <4> QED
        BY <2>1, <4>2 DEF Judged
    <3> QED
      BY <3>1, <3>2
  <2> QED
    BY <2>1, <2>3, <2>4, JudgedStays
<1>4. ASSUME NEW f \in File, RecheckStashed(f)
      PROVE  JudgedInv'
  <2>1. /\ UNCHANGED <<saved, echo, pulled, remoteDoc, remoteRev, cycle, pendingConflict,
                       dropped>>
        /\ (\E d : CommitLocal(f, d)) \/ UNCHANGED <<localDoc, localSeq>>
    BY <1>4 DEF RecheckStashed, server, late
  <2>2. CASE \E d : CommitLocal(f, d)
    BY <1>0, <2>1, <2>2, LocalWriteJudged
  <2>3. CASE UNCHANGED <<localDoc, localSeq>>
    BY <2>1, <2>3, NothingJudgedAnew DEF saved, cycle
  <2> QED
    BY <2>1, <2>2, <2>3
<1>5. ASSUME NEW f \in File, VaultCatchesUp(f)
      PROVE  JudgedInv'
  <2>1. UNCHANGED <<localDoc, localSeq, cursor, unpushed, echo, pulled, remoteDoc, remoteRev,
                    stage, upTo, batch, add>>
    BY <1>5 DEF VaultCatchesUp, local, saved, server, cycle
  <2>2. DropConflict(f) \/ UNCHANGED <<pendingConflict, dropped>>
    BY <1>5 DEF VaultCatchesUp
  <2> QED
    BY <2>1, <2>2, DroppedIsKnown, NothingJudgedAnew
<1> QED
  BY <1>1, <1>2, <1>3, <1>4, <1>5 DEF PullStep

LEMMA CycleJudged ==
  ASSUME "file" \notin ServerErrors, PushTypeOK, VersionInv, JudgedInv, CycleStep
  PROVE  JudgedInv'
<1> SUFFICES ASSUME NEW f \in File PROVE FileJudged(f)'
  BY DEF JudgedInv
<1>0. /\ FileJudged(f) /\ pulled[f] <= remoteRev[f]
      /\ cursor \in Nat /\ upTo \in Nat /\ seq \in Nat
      /\ localSeq[f] \in Nat /\ echo[f] \in Nat /\ localSeq[f] <= seq
  BY DEF PushTypeOK, VersionInv, SequencesOrdered, JudgedInv, FileJudged
<1>1. CASE Warmup \/ Backfill
  <2>1. /\ UNCHANGED <<localDoc, localSeq, cursor, echo, pulled, remoteDoc, remoteRev,
                       pendingConflict, dropped>>
        /\ ~InCycle'
    BY <1>1 DEF Warmup, Backfill, InCycle, local, server, dialog, late
  <2>2. (Judged(f) => Judged(f)') /\ pulled'[f] <= remoteRev'[f]
    BY <1>0, <2>1, JudgedSame
  <2>3. CASE unpushed'[f] = None => unpushed[f] = None
    BY <1>0, <2>1, <2>2, <2>3, JudgedStays
  <2>4. CASE unpushed'[f] = None /\ unpushed[f] # None
    <3>1. classifyForPush(localDoc[f], remoteDoc[f]) = "skip"
      BY <1>1, <2>4 DEF Warmup, Backfill, EnqueueTargets
    <3>2. localDoc[f] # None => Judged(f)'
      <4> SUFFICES ASSUME localDoc[f] # None PROVE Judged(f)'
        OBVIOUS
      <4>1. localDoc[f] \in Doc /\ remoteDoc[f] \in Doc \cup {None}
        BY DEF PushTypeOK
      <4>2. remoteDoc[f] # None /\ sameState(localDoc[f], remoteDoc[f])
        BY <3>1, <4>1, ClassesOfPush
      <4> QED
        BY <2>1, <4>2 DEF Judged
    <3>3. (atRest(f) \/ Echoed(f))' => Judged(f)'
      <4>1. Echoed(f)' => Judged(f)'
        BY <1>0, <2>1, <2>2 DEF FileJudged, Echoed
      <4> QED
        BY <2>1, <3>2, <4>1 DEF atRest
    <3> QED
      BY <2>1, <2>2, <3>3 DEF FileJudged
  <2> QED
    BY <2>3, <2>4
<1>2. CASE Enumerate
  <2>1. /\ UNCHANGED <<localDoc, localSeq, cursor, unpushed, pulled, remoteDoc, remoteRev,
                       pendingConflict, dropped>>
        /\ upTo' = seq /\ stage' = "classify"
        /\ batch'[f] = IF (changed(f) /\ ~isPullEcho(f)) \/ unpushed[f] # None
                         THEN localDoc[f] ELSE None
        /\ echo'[f] = IF changed(f) THEN 0 ELSE echo[f]
    BY <1>2 DEF Enumerate, sweepPullWritten, local, saved, server, dialog, late
  <2>2. (Judged(f) => Judged(f)') /\ pulled'[f] <= remoteRev'[f]
    BY <1>0, <2>1, JudgedSame
  <2>3. (atRest(f) \/ Echoed(f))' => Judged(f)'
    BY <1>0, <2>1, <2>2 DEF FileJudged, atRest, Echoed
  <2>4. localDoc[f] # None => batch'[f] = localDoc[f] \/ Judged(f)'
    <3> SUFFICES ASSUME localDoc[f] # None, batch'[f] # localDoc[f] PROVE atRest(f) \/ Echoed(f)
      BY <1>0, <2>2 DEF FileJudged
    <3>1. unpushed[f] = None /\ (changed(f) => isPullEcho(f))
      BY <2>1
    <3>2. CASE changed(f)
      BY <1>0, <3>1, <3>2 DEF changed, isPullEcho, Echoed
    <3>3. CASE ~changed(f)
      BY <1>0, <3>1, <3>3 DEF changed, atRest
    <3> QED
      BY <3>2, <3>3
  <2> QED
    BY <2>1, <2>2, <2>3, <2>4 DEF FileJudged, Carried
<1>3. CASE ClassifyFiles
  <2> DEFINE class(g)  == classifyForPush(batch[g], remoteDoc[g])
             inBatch   == {g \in File : batch[g] # None}
             proceed   == {g \in inBatch : class(g) = "proceed" /\ ~escalates(g)}
             divergent == {g \in inBatch :
                             \/ class(g) = "divergent"
                             \/ class(g) = "proceed" /\ escalates(g)}
  <2>1. /\ UNCHANGED <<localDoc, localSeq, cursor, unpushed, echo, pulled, remoteDoc, remoteRev,
                       pendingConflict, dropped, upTo>>
        /\ stage = "classify" /\ InCycle /\ stage' \in {"revs", "commit"}
        /\ stage' = "commit" => proceed = {}
        /\ f \in proceed => batch'[f] = batch[f]
        /\ f \in divergent => add'[f] # None
    <3>1. [reason |-> "divergent", attempts |-> attemptsNext(f)] # None
      BY EntryTypes, NoneIsNoEntry
    <3>2. /\ stage = "classify"
          /\ stage' = IF proceed = {} /\ bodies = {} THEN "commit" ELSE "revs"
          /\ batch' = [g \in File |-> IF g \in proceed THEN batch[g] ELSE None]
          /\ add' = [g \in File |->
               IF g \in divergent
                 THEN [reason |-> "divergent", attempts |-> attemptsNext(g)] ELSE None]
          /\ UNCHANGED <<local, saved, echo, pulled, server, pendingConflict, late, upTo>>
      BY <1>3 DEF ClassifyFiles
    <3> HIDE DEF proceed, divergent
    <3> QED
      BY <3>1, <3>2 DEF InCycle, local, saved, server, late
  <2>2. (Judged(f) => Judged(f)') /\ pulled'[f] <= remoteRev'[f]
    BY <1>0, <2>1, JudgedSame
  <2>3. (atRest(f) \/ Echoed(f))' => Judged(f)'
    BY <1>0, <2>1, <2>2 DEF FileJudged, atRest, Echoed
  <2>4. ASSUME localDoc[f] # None, localSeq[f] <= upTo
        PROVE  Carried(f)' \/ Judged(f)'
    <3>1. batch[f] = localDoc[f] \/ Judged(f)
      BY <1>0, <2>1, <2>4 DEF FileJudged, Carried
    <3>2. CASE batch[f] = localDoc[f]
      <4>1. localDoc[f] \in Doc /\ remoteDoc[f] \in Doc \cup {None} /\ f \in inBatch
        BY <2>4, <3>2 DEF PushTypeOK
      <4>2. CASE f \in proceed
        BY <2>1, <3>2, <4>2 DEF Carried
      <4>3. CASE f \in divergent
        BY <2>1, <4>3 DEF Carried
      <4>4. CASE f \notin proceed /\ f \notin divergent
        <5>1. class(f) = "skip"
          BY <3>2, <4>1, <4>4, ClassesOfPush
        <5>2. remoteDoc[f] # None /\ sameState(localDoc[f], remoteDoc[f])
          BY <3>2, <4>1, <5>1, ClassesOfPush
        <5> QED
          BY <2>1, <5>2 DEF Judged
      <4> QED
        BY <4>2, <4>3, <4>4
    <3> QED
      BY <2>2, <3>1, <3>2
  <2> QED
    BY <2>1, <2>2, <2>3, <2>4 DEF FileJudged
<1>4. CASE FetchRevs \/ SendChunks
  <2>1. /\ UNCHANGED <<localDoc, localSeq, cursor, unpushed, echo, pulled, remoteDoc, remoteRev,
                       pendingConflict, dropped, upTo>>
        /\ stage \in {"revs", "chunks"} /\ stage' \in {"chunks", "files"}
        /\ (batch'[f] = batch[f] /\ add'[f] = add[f]) \/ add'[f] # None
    <3>1. conflictEntry(f) # None
      BY EntryTypes, NoneIsNoEntry
    <3>2. CASE FetchRevs
      BY <3>2 DEF FetchRevs, local, saved, server, dialog, late
    <3>3. CASE SendChunks
      BY <3>1, <3>3 DEF SendChunks, local, saved, dialog, late
    <3> QED
      BY <1>4, <3>2, <3>3
  <2>2. (Judged(f) => Judged(f)') /\ pulled'[f] <= remoteRev'[f]
    BY <1>0, <2>1, JudgedSame
  <2>3. (atRest(f) \/ Echoed(f))' => Judged(f)'
    BY <1>0, <2>1, <2>2 DEF FileJudged, atRest, Echoed
  <2>4. localDoc[f] # None /\ localSeq[f] <= upTo => Carried(f)' \/ Judged(f)'
    BY <1>0, <2>1, <2>2 DEF FileJudged, Carried, InCycle
  <2> QED
    BY <2>1, <2>2, <2>3, <2>4 DEF FileJudged
<1>5. CASE SendFiles
  <2> DEFINE sent  == {g \in File : batch[g] # None}
             taken == {g \in sent : current(g)}
  <2>1. /\ ServerTakes(taken)
        /\ add'[f] = IF f \in sent \ taken THEN conflictEntry(f) ELSE add[f]
        /\ UNCHANGED <<localDoc, localSeq, cursor, unpushed, echo, pulled, pendingConflict,
                       dropped, upTo, batch>>
        /\ stage = "files" /\ stage' = "commit" /\ InCycle
    BY <1>5 DEF SendFiles, InCycle, local, saved, dialog, late
  <2>2. conflictEntry(f) # None
    BY EntryTypes, NoneIsNoEntry
  <2>3. (Judged(f) => Judged(f)') /\ pulled'[f] <= remoteRev'[f] /\ (f \in taken => Judged(f)')
    <3> HIDE DEF taken
    <3>1. CASE f \in taken
      <4>1. remoteRev'[f] = remoteRev[f] + 1 /\ pulled'[f] = pulled[f]
        BY <2>1, <3>1 DEF ServerTakes
      <4> QED
        BY <1>0, <4>1, UnseenJudged
    <3>2. CASE f \notin taken
      <4>1. remoteRev'[f] = remoteRev[f] /\ remoteDoc'[f] = remoteDoc[f]
        BY <2>1, <3>2 DEF ServerTakes
      <4> QED
        BY <1>0, <2>1, <3>2, <4>1, JudgedSame
    <3> QED
      BY <3>1, <3>2
  <2>4. (atRest(f) \/ Echoed(f))' => Judged(f)'
    BY <1>0, <2>1, <2>3 DEF FileJudged, atRest, Echoed
  <2>5. localDoc[f] # None /\ localSeq[f] <= upTo => Carried(f)' \/ Judged(f)'
    <3> SUFFICES ASSUME localDoc[f] # None, localSeq[f] <= upTo, f \notin taken
                 PROVE  add'[f] # None \/ Judged(f)'
      BY <2>1, <2>3 DEF Carried
    <3>1. batch[f] = localDoc[f] \/ add[f] # None \/ Judged(f)
      BY <1>0, <2>1 DEF FileJudged, Carried
    <3>2. batch[f] = localDoc[f] => f \in sent
      OBVIOUS
    <3> HIDE DEF taken, sent
    <3> QED
      BY <2>1, <2>2, <2>3, <3>1, <3>2
  <2> QED
    BY <2>1, <2>3, <2>4, <2>5 DEF FileJudged
<1>6. CASE Commit
  <2>1. /\ UNCHANGED <<localDoc, localSeq, echo, pulled, remoteDoc, remoteRev, pendingConflict,
                       dropped>>
        /\ cursor' = upTo /\ stage = "commit" /\ InCycle /\ ~InCycle'
        /\ unpushed'[f] = None => add[f] = None
    BY <1>6 DEF Commit, lastSeq, InCycle, local, server, dialog, late
  <2>2. (Judged(f) => Judged(f)') /\ pulled'[f] <= remoteRev'[f]
    BY <1>0, <2>1, JudgedSame
  <2>3. atRest(f)' => Judged(f)'
    BY <1>0, <2>1, <2>2 DEF FileJudged, atRest, Carried
  <2>4. Echoed(f)' => Judged(f)'
    BY <1>0, <2>1, <2>2 DEF FileJudged, Echoed
  <2> QED
    BY <2>1, <2>2, <2>3, <2>4 DEF FileJudged
<1> QED
  BY <1>1, <1>2, <1>3, <1>4, <1>5, <1>6 DEF CycleStep

LEMMA FailedCycleJudged ==
  ASSUME PushTypeOK, JudgedInv,
         CycleFails \/ AnswerLost \/ SessionRestarts \/ ProcessRestarts \/ WarmupFails
  PROVE  JudgedInv'
<1> SUFFICES ASSUME NEW f \in File PROVE FileJudged(f)'
  BY DEF JudgedInv
<1>0. FileJudged(f) /\ pulled[f] <= remoteRev[f]
  BY DEF JudgedInv, FileJudged
<1>1. /\ UNCHANGED <<localDoc, localSeq, cursor, unpushed, pulled, pendingConflict, dropped>>
      /\ ~InCycle' /\ echo'[f] \in {echo[f], 0}
  BY DEF AnswerLost, CycleFails, SessionRestarts, ProcessRestarts, WarmupFails, InCycle,
         local, saved, dialog, late, zeroFor
<1>2. \/ remoteRev'[f] = remoteRev[f] + 1
      \/ remoteRev'[f] = remoteRev[f] /\ remoteDoc'[f] = remoteDoc[f]
  BY DEF AnswerLost, ServerTakes, CycleFails, SessionRestarts, ProcessRestarts,
         WarmupFails, server
<1>3. (Judged(f) => Judged(f)') /\ pulled'[f] <= remoteRev'[f]
  <2>1. CASE remoteRev'[f] = remoteRev[f] + 1
    BY <1>0, <1>1, <2>1, UnseenJudged
  <2>2. CASE remoteRev'[f] = remoteRev[f] /\ remoteDoc'[f] = remoteDoc[f]
    BY <1>0, <1>1, <2>2, JudgedSame
  <2> QED
    BY <1>2, <2>1, <2>2
<1> QED
  BY <1>0, <1>1, <1>3, JudgedStays

LEMMA FailureJudged ==
  ASSUME PushTypeOK, JudgedInv, Failure
  PROVE  JudgedInv'
<1>1. ASSUME NEW f \in File, AnswerFails(f)
      PROVE  JudgedInv'
  <2>1. DropConflict(f)
    BY <1>1 DEF AnswerFails
  <2>2. UNCHANGED <<localDoc, localSeq, cursor, unpushed, echo, pulled, remoteDoc, remoteRev,
                    stage, upTo, batch, add>>
    BY <1>1 DEF AnswerFails, local, saved, server, cycle
  <2> QED
    BY <2>1, <2>2, DroppedIsKnown
<1> QED
  BY <1>1, FailedCycleJudged DEF Failure

LEMMA JudgedInvStep ==
  ASSUME "pull" \notin MidCycle, "file" \notin ServerErrors, PushInv, JudgedInv, [Next]_vars
  PROVE  JudgedInv'
<1>1. PushTypeOK /\ VersionInv /\ SequencesOrdered
  BY DEF PushInv, VersionInv
<1>2. CASE UNCHANGED vars
  BY <1>2, NothingJudgedAnew DEF vars, local, saved, server, dialog, late, cycle
<1> QED
  BY <1>1, <1>2, EnvironmentJudged, PullJudged, CycleJudged, FailureJudged DEF Next

(***************************************************************************)
(* A divergence is never dropped by both loops (PushPipeline and           *)
(* PullPipeline with the pending conflicts): a file the push has nothing   *)
(* left for, and whose server version the pull has judged, is the same     *)
(* state on both ends, or its conflict is shown, waits, or has its durable *)
(* record, or is one whose record went without an answer: dropped by an    *)
(* answer that failed, or by an older version the vault took late. Proved  *)
(* for any files, contents, edits and failures, where the pull commits     *)
(* nothing while a push cycle is open and the server refuses no file row.  *)
(***************************************************************************)
THEOREM DivergenceStaysVisible ==
  ASSUME "pull" \notin MidCycle, "file" \notin ServerErrors
  PROVE  Spec => []NoSilentDivergence
<1>1. Init => PushInv /\ JudgedInv
  <2>1. Init => JudgedInv
    BY DEF Init, JudgedInv, FileJudged, atRest, Echoed, InCycle, noneFor, zeroFor
  <2> QED
    BY <2>1, PushInvInit
<1>2. PushInv /\ JudgedInv /\ [Next]_vars => (PushInv /\ JudgedInv)'
  BY PushInvStep, JudgedInvStep
<1>3. PushInv /\ JudgedInv => NoSilentDivergence
  <2> SUFFICES ASSUME PushInv, JudgedInv, NEW f \in File, atRest(f), pulled[f] = remoteRev[f]
               PROVE  \/ remoteDoc[f] # None /\ sameState(localDoc[f], remoteDoc[f])
                      \/ pendingConflict[f] # None \/ f \in dropped
    BY DEF NoSilentDivergence, passedByBoth, agreedOrShown
  <2>1. Judged(f)
    BY DEF JudgedInv, FileJudged
  <2>2. kindOf(localDoc[f], remoteDoc[f]) # None
    BY NoneIsNoKind DEF kindOf, Kind
  <2> QED
    BY <2>1, <2>2 DEF Judged, Divergent
<1> QED
  BY <1>1, <1>2, <1>3, PTL DEF Spec

=============================================================================
