------------------------ MODULE VaultReplication_proofs ------------------------
(***************************************************************************)
(* VaultReplication for any contents, edits, failures and versions of the  *)
(* other devices: what its variables hold, and that the user's saved text  *)
(* is not lost while nobody cuts in between a verdict of the pull and its  *)
(* commit, or between a look at the disk and the baseline that follows it; *)
(* and what the tombstones it writes unasked stand for.                    *)
(***************************************************************************)
EXTENDS VaultReplication, TLAPS

-----------------------------------------------------------------------------
(* Of the laws of clocks (ChunkStore_proofs), those the proofs below use.  *)

LEMMA CompareIsOrder ==
  ASSUME NEW a \in Clock, NEW b \in Clock
  PROVE  /\ compareVC(a, b) = "equal" <=> a = b
         /\ compareVC(a, b) = "dominates" <=> Dominates(a, b)
         /\ compareVC(a, b) = "dominated" <=> Dominates(b, a)
         /\ compareVC(a, b) = "concurrent" <=> Concurrent(a, b)
<1>1. /\ Includes(a, b) <=> ~\E d \in Device : a[d] < b[d]
      /\ Includes(b, a) <=> ~\E d \in Device : a[d] > b[d]
  BY DEF Clock, Includes
<1>2. Includes(a, b) /\ Includes(b, a) <=> a = b
  BY DEF Clock, Includes
<1> QED
  BY <1>1, <1>2 DEF compareVC, Dominates, Concurrent

LEMMA MergeIsLub ==
  ASSUME NEW a \in Clock, NEW b \in Clock
  PROVE  /\ mergeVC(a, b) \in Clock
         /\ Includes(mergeVC(a, b), a)
         /\ Includes(mergeVC(a, b), b)
         /\ \A c \in Clock : Includes(c, a) /\ Includes(c, b)
                               => Includes(c, mergeVC(a, b))
  BY DEF Clock, Includes, mergeVC

-----------------------------------------------------------------------------
(* Clocks of two devices.                                                  *)

LEMMA TwoDevices == Self \in Device /\ Peer \in Device /\ Self # Peer
  BY DevicesAssumption

LEMMA ZeroIsClock == ZeroClock \in Clock /\ ZeroClock[Self] = 0 /\ ZeroClock[Peer] = 0
  BY TwoDevices DEF ZeroClock, Clock

LEMMA ClockPair ==
  ASSUME NEW a \in Clock, NEW b \in Clock
  PROVE  /\ a[Self] \in Nat /\ a[Peer] \in Nat
         /\ Includes(a, b) <=> a[Self] >= b[Self] /\ a[Peer] >= b[Peer]
         /\ a = b <=> a[Self] = b[Self] /\ a[Peer] = b[Peer]
<1>1. a[Self] \in Nat /\ a[Peer] \in Nat
  BY TwoDevices DEF Clock
<1>2. Includes(a, b) <=> a[Self] >= b[Self] /\ a[Peer] >= b[Peer]
  BY DevicesAssumption DEF Includes
<1>3. a = b <=> a[Self] = b[Self] /\ a[Peer] = b[Peer]
  <2>1. (\A d \in Device : a[d] = b[d]) => a = b
    BY DEF Clock
  <2> QED
    BY <2>1, DevicesAssumption
<1> QED
  BY <1>1, <1>2, <1>3

LEMMA EditClock ==
  ASSUME NEW a \in Clock
  PROVE  /\ incrementVC(a, Self) \in Clock
         /\ incrementVC(a, Self)[Self] = a[Self] + 1 /\ incrementVC(a, Self)[Peer] = a[Peer]
         /\ incrementVC(a, Peer) \in Clock
         /\ incrementVC(a, Peer)[Self] = a[Self] /\ incrementVC(a, Peer)[Peer] = a[Peer] + 1
  BY TwoDevices DEF incrementVC, Clock

LEMMA MergedClock ==
  ASSUME NEW a \in Clock, NEW b \in Clock
  PROVE  /\ mergeVC(a, b) \in Clock
         /\ mergeVC(a, b)[Self] = IF a[Self] >= b[Self] THEN a[Self] ELSE b[Self]
         /\ mergeVC(a, b)[Peer] = IF a[Peer] >= b[Peer] THEN a[Peer] ELSE b[Peer]
  BY TwoDevices, MergeIsLub DEF mergeVC

LEMMA NoneIsNothingElse ==
  None \notin Content /\ None \notin Doc /\ None \notin Clock /\ None \notin Baseline
  BY NoneIsNothing

-----------------------------------------------------------------------------
(* What the vault's variables hold.                                        *)

PlacesOK ==
  /\ disk \in Content \cup {None} /\ doc \in Doc \cup {None}
  /\ base \in Baseline \cup {None}

EventsOK ==
  /\ typed \in Read \cup {None} /\ awaiting \in BOOLEAN
  /\ timer \in BOOLEAN /\ deleting \in BOOLEAN
  /\ recording \subseteq Read /\ edits \in Nat

RunsOK == job \in [Caller -> Job \cup {None}]

HistoryOK ==
  /\ owed \in Content \cup {None} /\ owedAt \in Clock \cup {None}
  /\ madeOn \in Clock /\ removed \in Clock \cup {None}

LEMMA VaultTypes == VaultTypeOK <=> PlacesOK /\ EventsOK /\ RunsOK /\ HistoryOK
  BY DEF VaultTypeOK, PlacesOK, EventsOK, RunsOK, HistoryOK

LEMMA DocClockType == ASSUME VaultTypeOK PROVE docClock \in Clock
  BY ZeroIsClock DEF docClock, VaultTypeOK, Doc

LEMMA BaseOfType ==
  ASSUME NEW d \in Doc
  PROVE  /\ baseOf(d) \in Baseline /\ baseOf(d).vclock = d.vclock
         /\ baseOf(d).content = IF d.deleted THEN None ELSE d.content
  BY DEF baseOf, deletedBase, synced, Baseline, Doc

LEMMA AliveType ==
  ASSUME NEW c \in Content, NEW k \in Clock
  PROVE  alive(c, k) \in Doc /\ synced(c, k) \in Baseline /\ deletedBase(k) \in Baseline
         /\ baseOf(alive(c, k)) = synced(c, k)
  BY DEF alive, synced, deletedBase, Doc, Baseline, baseOf

LEMMA MarkedType ==
  ASSUME NEW d \in Doc, NEW k \in Clock
  PROVE  /\ [d EXCEPT !.deleted = TRUE, !.vclock = k] \in Doc
         /\ [d EXCEPT !.vclock = k] \in Doc
         /\ baseOf([d EXCEPT !.deleted = TRUE, !.vclock = k]) = deletedBase(k)
         /\ baseOf([d EXCEPT !.vclock = k]) = synced(baseOf(d).content, k)
<1> DEFINE e == [d EXCEPT !.deleted = TRUE, !.vclock = k]
           f == [d EXCEPT !.vclock = k]
<1>1. e \in Doc /\ e.deleted /\ e.vclock = k
  BY DEF Doc
<1>2. f \in Doc /\ f.deleted = d.deleted /\ f.vclock = k /\ f.content = d.content
  BY DEF Doc
<1> HIDE DEF e, f
<1>3. baseOf(e) = deletedBase(k)
  BY <1>1 DEF baseOf
<1>4. baseOf(f) = synced(baseOf(d).content, k)
  BY <1>2 DEF baseOf, deletedBase, synced
<1> QED
  BY <1>1, <1>2, <1>3, <1>4 DEF e, f

LEMMA BuildsOnType ==
  ASSUME EventsOK, HistoryOK, NEW k \in Clock, NEW reads, reads \subseteq Read,
         BuildsOn(k, reads)
  PROVE  madeOn' \in Clock /\ typed' \in Read \cup {None} /\ recording' \subseteq Read
<1>1. ASSUME NEW t \in Read PROVE [t EXCEPT !.on = goesAlong(@, k)] \in Read
  BY <1>1 DEF Read, goesAlong, HistoryOK
<1> QED
  BY <1>1 DEF BuildsOn, EventsOK

LEMMA OwedNoMoreType ==
  ASSUME HistoryOK, NEW s, OwedNoMore(s)
  PROVE  owed' \in Content \cup {None} /\ owedAt' \in Clock \cup {None}
  BY DEF OwedNoMore, HistoryOK

LEMMA SavesType ==
  ASSUME VaultTypeOK, NEW c \in Content, NEW on \in Clock, NEW heard \in BOOLEAN,
         Saves(c, on, heard)
  PROVE  disk' \in Content /\ timer' \in BOOLEAN /\ HistoryOK'
  BY DEF Saves, VaultTypeOK, HistoryOK

LEMMA UserTypes ==
  ASSUME VaultTypeOK, NEW heard \in BOOLEAN,
         \/ \E c \in Content : Type(c) \/ EditFile(c, heard)
         \/ SaveTyped \/ DeleteFile(heard)
  PROVE  VaultTypeOK'
<1>1. CASE \E c \in Content : Type(c)
  BY <1>1 DEF Type, VaultTypeOK, Read, history
<1>2. CASE \E c \in Content : EditFile(c, heard)
  <2>1. PICK c \in Content : EditFile(c, heard)
    BY <1>2
  <2>2. disk' \in Content /\ timer' \in BOOLEAN /\ HistoryOK'
    BY <2>1, SavesType DEF EditFile, VaultTypeOK
  <2> QED
    BY <2>1, <2>2 DEF EditFile, VaultTypeOK, HistoryOK
<1>3. CASE SaveTyped
  <2>1. typed.content \in Content /\ typed.on \in Clock
    BY <1>3 DEF SaveTyped, VaultTypeOK, Read
  <2>2. disk' \in Content /\ timer' \in BOOLEAN /\ HistoryOK'
    BY <1>3, <2>1, SavesType DEF SaveTyped
  <2> QED
    BY <1>3, <2>2 DEF SaveTyped, VaultTypeOK, HistoryOK
<1>4. CASE DeleteFile(heard)
  BY <1>4 DEF DeleteFile, VaultTypeOK
<1> QED
  BY <1>1, <1>2, <1>3, <1>4

LEMMA ReadFileType ==
  ASSUME VaultTypeOK, ReadFile
  PROVE  recording' \subseteq Read /\ awaiting' \in BOOLEAN
<1>1. disk # None => [content |-> disk, on |-> madeOn] \in Read
  BY DEF VaultTypeOK, Read
<1> QED
  BY <1>1 DEF ReadFile, VaultTypeOK

LEMMA RecordedType ==
  ASSUME VaultTypeOK, NEW r \in Read, NEW k \in Clock, Recorded(r, k)
  PROVE  /\ HistoryOK' /\ typed' \in Read \cup {None} /\ recording' \subseteq Read
<1> DEFINE on == IF r.on = madeOn THEN k ELSE madeOn
<1>1. EventsOK /\ HistoryOK
  BY VaultTypes
<1>2. on \in Clock /\ recording \ {r} \subseteq Read
  BY <1>1 DEF HistoryOK, EventsOK
<1>3. BuildsOn(on, recording \ {r})
  BY DEF Recorded
<1> HIDE DEF on
<1>4. madeOn' \in Clock /\ typed' \in Read \cup {None} /\ recording' \subseteq Read
  BY <1>1, <1>2, <1>3, BuildsOnType
<1> QED
  BY <1>1, <1>4 DEF Recorded, HistoryOK

LEMMA CommitReadType ==
  ASSUME VaultTypeOK, NEW r, CommitRead(r)
  PROVE  VaultTypeOK'
<1> DEFINE k == incrementVC(docClock, Self)
<1>1. r \in Read /\ r.content \in Content /\ k \in Clock
  BY DocClockType, EditClock DEF CommitRead, VaultTypeOK, Read
<1>2. UNCHANGED <<disk, awaiting, timer, deleting, job, edits>>
  BY DEF CommitRead
<1>3. CASE recordsFile(r.content, doc, base)
  <2>1. doc' = alive(r.content, k) /\ base' = synced(r.content, k) /\ Recorded(r, k)
    BY <1>3 DEF CommitRead
  <2> HIDE DEF k
  <2>2. HistoryOK' /\ typed' \in Read \cup {None} /\ recording' \subseteq Read
    BY <1>1, <2>1, RecordedType
  <2>3. doc' \in Doc /\ base' \in Baseline
    BY <1>1, <2>1, AliveType
  <2> QED
    BY <1>2, <2>2, <2>3 DEF VaultTypeOK, HistoryOK
<1>4. CASE ~recordsFile(r.content, doc, base)
  <2>1. recording' = recording \ {r} /\ UNCHANGED <<doc, base, typed, history>>
    BY <1>4 DEF CommitRead
  <2> QED
    BY <1>2, <2>1 DEF VaultTypeOK, history
<1> QED
  BY <1>3, <1>4

LEMMA MarkDeletedType ==
  ASSUME VaultTypeOK, MarkDeleted
  PROVE  /\ doc' \in Doc \cup {None} /\ base' \in Baseline \cup {None}
         /\ awaiting' \in BOOLEAN /\ removed' \in Clock \cup {None}
<1> DEFINE k == incrementVC(docClock, Self)
<1>1. k \in Clock
  BY DocClockType, EditClock
<1>2. \/ base' = None /\ removed' = None /\ UNCHANGED doc
      \/ doc # None /\ base' = deletedBase(doc.vclock) /\ removed' = None /\ UNCHANGED doc
      \/ /\ doc # None
         /\ doc' = [doc EXCEPT !.deleted = TRUE, !.vclock = k]
         /\ base' = deletedBase(k) /\ removed' = None
      \/ UNCHANGED <<doc, base, removed>>
  BY DEF MarkDeleted
<1> HIDE DEF k
<1>3. ASSUME NEW c \in Clock PROVE deletedBase(c) \in Baseline
  BY DEF deletedBase, synced, Baseline
<1>4. doc # None => doc \in Doc /\ doc.vclock \in Clock
  BY DEF VaultTypeOK, Doc
<1>5. doc # None => [doc EXCEPT !.deleted = TRUE, !.vclock = k] \in Doc
  BY <1>1, <1>4, MarkedType
<1> QED
  BY <1>1, <1>2, <1>3, <1>4, <1>5 DEF MarkDeleted, VaultTypeOK

LEMMA StartType ==
  ASSUME VaultTypeOK, NEW k \in Caller, NEW d \in Doc, NEW over \in BOOLEAN, Start(k, d, over)
  PROVE  job' \in [Caller -> Job \cup {None}]
<1>1. newJob(d, over) \in Job
  BY DEF newJob, Job
<1> QED
  BY <1>1 DEF Start, VaultTypeOK

\* A job that goes on.
LEMMA JobMoves ==
  ASSUME VaultTypeOK, NEW k \in Caller, job[k] # None,
         NEW stage \in {"check", "write", "baseline", "applied", "declined", "failed"},
         NEW had \in BOOLEAN,
         job' = [job EXCEPT ![k].stage = stage] \/ job' = [job EXCEPT ![k].stage = stage, ![k].had = had]
  PROVE  /\ job[k] \in Job /\ job'[k] \in Job
         /\ job'[k].stage = stage /\ job'[k].doc = job[k].doc /\ job'[k].over = job[k].over
         /\ \A j \in Caller \ {k} : job'[j] = job[j]
         /\ job' \in [Caller -> Job \cup {None}]
<1>1. job \in [Caller -> Job \cup {None}] /\ job[k] \in Job
  BY DEF VaultTypeOK
<1>2. CASE job' = [job EXCEPT ![k].stage = stage]
  BY <1>1, <1>2 DEF Job
<1>3. CASE job' = [job EXCEPT ![k].stage = stage, ![k].had = had]
  BY <1>1, <1>3 DEF Job
<1> QED
  BY <1>2, <1>3

LEMMA VerdictOf ==
  ASSUME NEW j \in Job, PlacesOK
  PROVE  /\ verdict(j) \in {"keep", "write", "decline"}
         /\ afterLook(j) = CASE verdict(j) = "keep"    -> "baseline"
                             [] verdict(j) = "write"   -> "write"
                             [] verdict(j) = "decline" -> "declined"
         /\ afterLook(j) \in {"baseline", "write", "declined"}
<1>1. j.doc \in Doc /\ j.over \in BOOLEAN /\ j.doc.deleted \in BOOLEAN
  BY DEF Job, Doc
<1>2. vaultWrite(disk, j.doc, base) \in {"keep", "write", "decline"}
  <2>1. CASE j.doc.deleted /\ disk = None
    BY <2>1 DEF vaultWrite
  <2>2. CASE ~j.doc.deleted /\ disk = j.doc.content
    BY <2>2 DEF vaultWrite
  <2>3. CASE (j.doc.deleted /\ disk # None) \/ (~j.doc.deleted /\ disk # j.doc.content)
    BY <2>3 DEF vaultWrite
  <2> QED
    BY <1>1, <2>1, <2>2, <2>3
<1>3. verdict(j) \in {"keep", "write", "decline"}
  BY <1>2 DEF verdict
<1> QED
  BY <1>3 DEF afterLook

LEMMA IntegratedType ==
  ASSUME VaultTypeOK, NEW d \in Doc, Integrated(d)
  PROVE  HistoryOK' /\ typed' \in Read \cup {None} /\ recording' \subseteq Read
<1>1. EventsOK /\ HistoryOK /\ d.vclock \in Clock
  BY VaultTypes DEF Doc
<1>2. madeOn' \in Clock /\ typed' \in Read \cup {None} /\ recording' \subseteq Read
  BY <1>1, BuildsOnType DEF Integrated, EventsOK
<1>3. owed' \in Content \cup {None} /\ owedAt' \in Clock \cup {None}
  BY <1>1, OwedNoMoreType DEF Integrated
<1>4. removed' \in Clock \cup {None}
  BY <1>1 DEF Integrated, goesAlong, HistoryOK
<1> QED
  BY <1>2, <1>3, <1>4 DEF HistoryOK

LEMMA CheckDiskType ==
  ASSUME VaultTypeOK, NEW k \in Caller, CheckDisk(k)
  PROVE  VaultTypeOK'
<1>1. job[k] # None /\ job[k] \in Job /\ job[k].doc \in Doc
  BY DEF CheckDisk, at, VaultTypeOK, Job
<1>2. afterLook(job[k]) \in {"baseline", "write", "declined"}
  BY <1>1, VerdictOf, VaultTypes
<1>3. job' \in [Caller -> Job \cup {None}]
  BY <1>1, <1>2, JobMoves DEF CheckDisk
<1>4. HistoryOK' /\ typed' \in Read \cup {None} /\ recording' \subseteq Read
  <2>1. CASE Integrated(job[k].doc)
    BY <1>1, <2>1, IntegratedType
  <2>2. CASE UNCHANGED <<typed, recording, history>>
    BY <2>2 DEF VaultTypeOK, HistoryOK, history
  <2> QED
    BY <2>1, <2>2 DEF CheckDisk
<1> QED
  BY <1>3, <1>4 DEF CheckDisk, VaultTypeOK, HistoryOK

LEMMA WriteDiskType ==
  ASSUME VaultTypeOK, NEW k \in Caller, WriteDisk(k)
  PROVE  VaultTypeOK'
<1>1. job[k] # None /\ job[k] \in Job /\ job[k].doc \in Doc
      /\ job[k].doc.content \in Content /\ job[k].doc.vclock \in Clock
  BY DEF WriteDisk, at, VaultTypeOK, Job, Doc
<1>2. \E stage \in {"declined", "failed", "baseline"} : job' = [job EXCEPT ![k].stage = stage]
  BY DEF WriteDisk, declinedByWriter
<1>3. job' \in [Caller -> Job \cup {None}]
  BY <1>1, <1>2, JobMoves
<1>4. disk' \in Content \cup {None} /\ timer' \in BOOLEAN /\ awaiting' \in BOOLEAN /\ HistoryOK'
  <2>1. CASE UNCHANGED <<disk, timer, history>>
    BY <2>1 DEF WriteDisk, declinedByWriter, VaultTypeOK, HistoryOK, history
  <2>2. CASE /\ disk' = IF job[k].doc.deleted THEN None ELSE job[k].doc.content
             /\ timer' = IF job[k].doc.deleted THEN timer /\ disk = None ELSE timer \/ disk = None
             /\ madeOn' = job[k].doc.vclock /\ removed' = None
             /\ OwedNoMore(job[k].over)
             /\ UNCHANGED awaiting
    BY <1>1, <2>2, OwedNoMoreType, VaultTypes DEF VaultTypeOK, HistoryOK
  <2> QED
    BY <2>1, <2>2 DEF WriteDisk, declinedByWriter
<1> QED
  BY <1>3, <1>4 DEF WriteDisk, VaultTypeOK, HistoryOK

LEMMA EstablishBaselineType ==
  ASSUME VaultTypeOK, NEW k \in Caller, EstablishBaseline(k)
  PROVE  VaultTypeOK'
<1>1. job[k] # None /\ job[k] \in Job /\ job[k].doc \in Doc
  BY DEF EstablishBaseline, at, VaultTypeOK, Job
<1>2. job' \in [Caller -> Job \cup {None}]
  BY <1>1, JobMoves DEF EstablishBaseline
<1>3. base' \in Baseline
  BY <1>1, BaseOfType DEF EstablishBaseline
<1> QED
  BY <1>2, <1>3 DEF EstablishBaseline, VaultTypeOK, history

LEMMA JobFailsType ==
  ASSUME VaultTypeOK, NEW k \in Caller, JobFails(k)
  PROVE  VaultTypeOK'
<1>1. job[k] # None
  BY DEF JobFails, at
<1>2. job' \in [Caller -> Job \cup {None}]
  BY <1>1, JobMoves DEF JobFails
<1> QED
  BY <1>2 DEF JobFails, VaultTypeOK, events, history

-----------------------------------------------------------------------------
(* The answers to a conflict. *)

LEMMA KeepFileType ==
  ASSUME VaultTypeOK, NEW d, KeepFile(d)
  PROVE  VaultTypeOK'
<1> DEFINE k == incrementVC(docClock, Self)
           r == [content |-> disk, on |-> madeOn]
<1>1. k \in Clock /\ disk \in Content /\ r \in Read
  BY DocClockType, EditClock DEF KeepFile, VaultTypeOK, Read
<1>2. doc' = alive(disk, k) /\ base' = synced(disk, k) /\ Recorded(r, k)
  BY DEF KeepFile
<1> HIDE DEF k, r
<1>3. HistoryOK' /\ typed' \in Read \cup {None} /\ recording' \subseteq Read
  BY <1>1, <1>2, RecordedType
<1>4. doc' \in Doc /\ base' \in Baseline
  BY <1>1, <1>2, AliveType
<1> QED
  BY <1>3, <1>4 DEF KeepFile, VaultTypeOK, HistoryOK

LEMMA KeepDeletionType ==
  ASSUME VaultTypeOK, NEW d, KeepDeletion(d)
  PROVE  VaultTypeOK'
<1> DEFINE k == incrementVC(docClock, Self)
<1>1. k \in Clock /\ doc \in Doc
  BY DocClockType, EditClock DEF KeepDeletion, stands, VaultTypeOK
<1>2. doc' = [doc EXCEPT !.deleted = TRUE, !.vclock = k] /\ base' = deletedBase(k)
  BY DEF KeepDeletion
<1> HIDE DEF k
<1>3. doc' \in Doc /\ base' \in Baseline
  BY <1>1, <1>2, MarkedType DEF deletedBase, synced, Baseline
<1> QED
  BY <1>3 DEF KeepDeletion, VaultTypeOK, events

LEMMA TakeDocToVaultType ==
  ASSUME VaultTypeOK, NEW d, TakeDocToVault(d)
  PROVE  VaultTypeOK'
<1>1. doc \in Doc
  BY DEF TakeDocToVault, stands, VaultTypeOK
<1>2. job' \in [Caller -> Job \cup {None}]
  BY <1>1, StartType DEF TakeDocToVault, Caller
<1> QED
  BY <1>2 DEF TakeDocToVault, VaultTypeOK, events, history

LEMMA DecidedClock ==
  ASSUME NEW l \in Doc, NEW r \in Doc
  PROVE  /\ decidedClock(l, r) \in Clock
         /\ decidedClock(l, r)[Self] =
              1 + (IF l.vclock[Self] >= r.vclock[Self] THEN l.vclock[Self] ELSE r.vclock[Self])
         /\ decidedClock(l, r)[Peer] =
              IF l.vclock[Peer] >= r.vclock[Peer] THEN l.vclock[Peer] ELSE r.vclock[Peer]
<1>1. l.vclock \in Clock /\ r.vclock \in Clock
  BY DEF Doc
<1>2. l.vclock[Self] \in Nat /\ r.vclock[Self] \in Nat
  BY <1>1, ClockPair
<1> QED
  BY <1>1, <1>2, MergedClock, EditClock DEF decidedClock

LEMMA KeepLocalDocType ==
  ASSUME VaultTypeOK, doc # None, NEW r \in Doc, KeepLocalDoc(r)
  PROVE  VaultTypeOK'
<1> DEFINE k == decidedClock(doc, r)
<1>1. doc \in Doc /\ k \in Clock
  BY DecidedClock DEF VaultTypeOK
<1>2. doc' = [doc EXCEPT !.vclock = k]
  BY DEF KeepLocalDoc
<1> HIDE DEF k
<1>3. doc' \in Doc /\ doc'.vclock = k
  BY <1>1, <1>2, MarkedType DEF Doc
<1>4. CASE baselineHoldsContent(doc)
  <2>1. base' = baseOf(doc') /\ BuildsOn(k, recording) /\ removed' = goesAlong(removed, k)
        /\ UNCHANGED job
    BY <1>3, <1>4 DEF KeepLocalDoc
  <2>2. EventsOK /\ HistoryOK
    BY VaultTypes
  <2>3. madeOn' \in Clock /\ typed' \in Read \cup {None} /\ recording' \subseteq Read
    BY <1>1, <2>1, <2>2, BuildsOnType DEF EventsOK
  <2>4. removed' \in Clock \cup {None}
    BY <1>1, <2>1, <2>2 DEF goesAlong, HistoryOK
  <2>5. base' \in Baseline
    BY <1>3, <2>1, BaseOfType
  <2> QED
    BY <1>3, <2>1, <2>3, <2>4, <2>5 DEF KeepLocalDoc, VaultTypeOK
<1>5. CASE ~baselineHoldsContent(doc)
  <2>1. job' \in [Caller -> Job \cup {None}]
    BY <1>3, <1>5, StartType DEF KeepLocalDoc, Caller
  <2> QED
    BY <1>3, <1>5, <2>1 DEF KeepLocalDoc, VaultTypeOK
<1> QED
  BY <1>4, <1>5

LEMMA TakeRemoteDocType ==
  ASSUME VaultTypeOK, doc # None, NEW r \in Doc, TakeRemoteDoc(r)
  PROVE  VaultTypeOK'
<1>1. doc \in Doc /\ decidedClock(doc, r) \in Clock
  BY DecidedClock DEF VaultTypeOK
<1>2. doc' \in Doc
  BY <1>1, MarkedType DEF TakeRemoteDoc
<1>3. job' \in [Caller -> Job \cup {None}]
  BY <1>2, StartType DEF TakeRemoteDoc, Caller
<1>4. HistoryOK'
  BY OwedNoMoreType, VaultTypes DEF TakeRemoteDoc, HistoryOK
<1> QED
  BY <1>2, <1>3, <1>4 DEF TakeRemoteDoc, VaultTypeOK, HistoryOK, events

LEMMA AlignType ==
  ASSUME VaultTypeOK, NEW d \in Doc, Align(d) \/ Adopt(d)
  PROVE  VaultTypeOK'
<1>1. synced(d.content, d.vclock) \in Baseline
      /\ (base # None => synced(d.content, base.vclock) \in Baseline)
  BY DEF synced, Baseline, Doc, VaultTypeOK
<1>2. CASE Align(d)
  BY <1>1, <1>2 DEF Align, AlignLastSyncedToDoc, VaultTypeOK, events, history
<1>3. CASE Adopt(d)
  <2>1. HistoryOK' /\ typed' \in Read \cup {None} /\ recording' \subseteq Read
    BY <1>3, IntegratedType DEF Adopt
  <2> QED
    BY <1>1, <1>3, <2>1 DEF Adopt, AdoptDocVclock, VaultTypeOK, HistoryOK
<1> QED
  BY <1>2, <1>3

-----------------------------------------------------------------------------
(* The types of the whole.                                                 *)

PullOK ==
  /\ remote \in Doc \cup {None} /\ judged \in BOOLEAN
  /\ pulling \in Doc \cup {None} /\ listed \in BOOLEAN
  /\ pending \in {"none", "missing-chunks", "pending-deletion"}
  /\ conflict \in Doc \cup {None} /\ shown \in Shown \cup {None}

ScanOK ==
  /\ manifest \in {"null", "has", "lacks"} /\ scan \in Scan /\ scanDue \in BOOLEAN
  /\ session \in {"closed", "stamp", "stamped", "catchup", "live"}
  /\ peerWrites \in Nat /\ failures \in Nat

LEMMA ReplTypes ==
  TypeOK <=> VaultTypeOK /\ PullOK /\ ScanOK /\ moved \subseteq {"vault", "docs"}
  BY DEF TypeOK, PullOK, ScanOK

LEMMA ReplTypesNext ==
  VaultTypeOK' /\ PullOK' /\ ScanOK' /\ moved' \subseteq {"vault", "docs"} => TypeOK'
  BY DEF TypeOK, PullOK, ScanOK

LEMMA MovesType ==
  ASSUME TypeOK, Moves PROVE moved' \subseteq {"vault", "docs"}
  BY DEF TypeOK, Moves

LEMMA Untouched ==
  /\ VaultTypeOK /\ UNCHANGED vaultVars => VaultTypeOK'
  /\ PullOK /\ UNCHANGED <<pullVars, pending, dialogs>> => PullOK'
  /\ ScanOK /\ UNCHANGED <<scanVars, session, bounds>> => ScanOK'
  BY DEF vaultVars, events, history, VaultTypeOK, pullVars, dialogs, PullOK, scanVars,
         bounds, ScanOK

LEMMA StopsType ==
  ASSUME TypeOK, NEW n \in Nat, stops(n) PROVE failures' \in Nat
  BY DEF TypeOK, stops

LEMMA WaitType == ASSUME TypeOK, endEditorWait PROVE scanDue' \in BOOLEAN
  BY DEF TypeOK, VaultTypeOK, endEditorWait

LEMMA ReadFileKeepsTypes ==
  ASSUME TypeOK, ReadFile,
         UNCHANGED <<disk, doc, base, typed, timer, deleting, job, edits, history>>
  PROVE  VaultTypeOK'
  BY ReadFileType DEF TypeOK, VaultTypeOK, history

LEMMA NoneDocs == doc # None /\ VaultTypeOK => doc \in Doc
  BY DEF VaultTypeOK

LEMMA ResolvesSomehow ==
  ASSUME NEW l \in Doc \cup {None}, NEW r \in Doc
  PROVE  resolveOnPull(l, r) \in {"take-remote", "silent-merge", "concurrent", "keep-local"}
<1>1. CASE l = None
  BY <1>1 DEF resolveOnPull
<1>2. CASE l # None
  <2>1. l.vclock \in Clock /\ r.vclock \in Clock
    BY <1>2 DEF Doc
  <2>2. relationOfDocs(l, r) \in
          {"identical", "vclock-only-drift", "remote-edit", "local-edit", "true-divergent"}
    <3>1. compareVC(l.vclock, r.vclock) \in {"equal", "dominates", "dominated", "concurrent"}
      BY DEF compareVC
    <3>2. CASE sameState(l, r)
      BY <3>1, <3>2 DEF relationOfDocs
    <3>3. CASE ~sameState(l, r)
      BY <3>1, <3>3 DEF relationOfDocs
    <3> QED
      BY <3>2, <3>3
  <2> QED
    BY <1>2, <2>2 DEF resolveOnPull
<1> QED
  BY <1>1, <1>2

LEMMA AcceptedType ==
  ASSUME NEW l \in Doc \cup {None}, NEW r \in Doc
  PROVE  acceptedOnPull(l, r) \in Doc \cup {None}
<1>1. resolveOnPull(l, r) = "silent-merge" => l \in Doc
  BY DEF resolveOnPull
<1>2. l \in Doc => [r EXCEPT !.vclock = mergeVC(l.vclock, r.vclock)] \in Doc
  <2> SUFFICES ASSUME l \in Doc PROVE [r EXCEPT !.vclock = mergeVC(l.vclock, r.vclock)] \in Doc
    OBVIOUS
  <2>1. mergeVC(l.vclock, r.vclock) \in Clock
    BY MergedClock DEF Doc
  <2> QED
    BY <2>1, MarkedType
<1>3. resolveOnPull(l, r) \in {"take-remote", "silent-merge", "concurrent", "keep-local"}
  BY ResolvesSomehow
<1> QED
  BY <1>1, <1>2, <1>3 DEF acceptedOnPull

LEMMA UserKeepsTypes == ASSUME TypeOK, User PROVE TypeOK'
<1>1. running \in BOOLEAN
  BY DEF running
<1>2. VaultTypeOK'
  BY <1>1, UserTypes DEF User, TypeOK
<1> QED
  BY <1>2, ReplTypes, ReplTypesNext, Untouched, MovesType DEF User, replVars

LEMMA TrackerKeepsTypes == ASSUME TypeOK, Tracker PROVE TypeOK'
<1>1. VaultTypeOK' /\ scanDue' \in BOOLEAN
  <2>1. CASE TimerFires /\ endEditorWait
    <3>1. ReadFile /\ timer' = FALSE
      BY <2>1 DEF TimerFires
    <3>2. recording' \subseteq Read /\ awaiting' \in BOOLEAN
      BY <3>1, ReadFileType DEF TypeOK
    <3> QED
      BY <2>1, <3>1, <3>2, WaitType DEF TimerFires, TypeOK, VaultTypeOK, history
  <2>2. CASE DeleteEvent /\ endEditorWait
    <3>1. MarkDeleted
      BY <2>2 DEF DeleteEvent
    <3>2. /\ doc' \in Doc \cup {None} /\ base' \in Baseline \cup {None}
          /\ awaiting' \in BOOLEAN /\ removed' \in Clock \cup {None}
      BY <3>1, MarkDeletedType DEF TypeOK
    <3> QED
      BY <2>2, <3>2, WaitType DEF DeleteEvent, TypeOK, VaultTypeOK
  <2>3. CASE \E r \in recording : CommitRead(r) /\ UNCHANGED scanDue
    BY <2>3, CommitReadType DEF TypeOK
  <2> QED
    BY <2>1, <2>2, <2>3 DEF Tracker
<1> QED
  BY <1>1, ReplTypes, ReplTypesNext, Untouched, MovesType DEF Tracker, ScanOK, bounds

LEMMA ServerKeepsTypes == ASSUME TypeOK, Deliver \/ PeerWrites PROVE TypeOK'
<1>1. CASE Deliver
  <2>1. doc \in Doc
    BY <1>1 DEF Deliver, TypeOK, VaultTypeOK
  <2>2. owed' \in Content \cup {None} /\ owedAt' \in Clock \cup {None}
    BY <1>1, OwedNoMoreType, VaultTypes DEF Deliver, TypeOK
  <2>3. VaultTypeOK'
    BY <1>1, <2>2 DEF Deliver, TypeOK, VaultTypeOK, events
  <2>4. PullOK' /\ ScanOK'
    BY <1>1, <2>1, ReplTypes, Untouched DEF Deliver, PullOK, dialogs
  <2> QED
    BY <1>1, <2>3, <2>4, ReplTypesNext, MovesType DEF Deliver
<1>2. CASE PeerWrites
  <2>1. PICK c \in Content, gone \in BOOLEAN :
           remote' = [content |-> c, deleted |-> gone,
                     vclock |-> incrementVC(IF remote = None THEN ZeroClock
                                                             ELSE remote.vclock, Peer)]
    BY <1>2 DEF PeerWrites
  <2>2. (IF remote = None THEN ZeroClock ELSE remote.vclock) \in Clock
    BY ZeroIsClock DEF TypeOK, Doc
  <2>3. remote' \in Doc
    BY <2>1, <2>2, EditClock DEF Doc
  <2>4. PullOK'
    BY <1>2, <2>3 DEF PeerWrites, PullOK, dialogs, TypeOK
  <2>5. ScanOK'
    BY <1>2 DEF PeerWrites, ScanOK, scanVars, TypeOK
  <2> QED
    BY <1>2, <2>4, <2>5, ReplTypes, ReplTypesNext, Untouched, MovesType DEF PeerWrites
<1> QED
  BY <1>1, <1>2

LEMMA DoneKeepsTypes ==
  ASSUME TypeOK, NEW k \in Caller, job' = [job EXCEPT ![k] = None],
         UNCHANGED <<disk, doc, base, events, recording, edits, history>>
  PROVE  VaultTypeOK'
  BY DEF TypeOK, VaultTypeOK, events, history

\* A write that is done leaves the dialogs as they are or closes them.
LEMMA DoneDialogs ==
  ASSUME PullDone \/ DrainDone \/ ScanApplied
  PROVE  conflict' \in {None, conflict} /\ shown' \in {None, shown}
  BY DEF PullDone, DrainDone, ScanApplied, autoResolve, dialogs

LEMMA PullKeepsTypes == ASSUME TypeOK, Pull PROVE TypeOK'
<1>1. CASE PullJudge
  <2>1. remote \in Doc /\ doc \in Doc \cup {None}
    BY <1>1 DEF PullJudge, TypeOK, VaultTypeOK
  <2>2. pulling' \in Doc \cup {None} /\ conflict' \in Doc \cup {None}
    BY <1>1, <2>1, AcceptedType DEF PullJudge, saveEmptyPullBatch, TypeOK
  <2>3. PullOK' /\ ScanOK'
    BY <1>1, <2>2, ReplTypes, Untouched DEF PullJudge, PullOK
  <2> QED
    BY <1>1, <2>3, ReplTypes, ReplTypesNext, Untouched, MovesType DEF PullJudge
<1>2. CASE PullCommit
  <2>1. pulling \in Doc /\ pulling.deleted \in BOOLEAN
    BY <1>2 DEF PullCommit, TypeOK, Doc
  <2>2. doc' = pulling /\ pulling' = None
        /\ listed' = (pulling.deleted \/ doc = None \/ doc.content # pulling.content)
        /\ pending' = CASE ~listed' -> pending
                         [] listed' /\ pulling.deleted  -> "pending-deletion"
                         [] listed' /\ ~pulling.deleted -> "missing-chunks"
    BY <1>2 DEF PullCommit, commitPullBatch
  <2>3. listed' \in BOOLEAN
    BY <2>1, <2>2
  <2>4. pending' \in {"none", "missing-chunks", "pending-deletion"}
    BY <2>1, <2>2, <2>3 DEF TypeOK
  <2>5. job' \in [Caller -> Job \cup {None}]
    BY <1>2, <2>1, StartType DEF PullCommit, Caller, TypeOK
  <2>6. owed' \in Content \cup {None} /\ owedAt' \in Clock \cup {None}
    BY <1>2, OwedNoMoreType, VaultTypes DEF PullCommit, TypeOK
  <2>7. VaultTypeOK'
    BY <1>2, <2>1, <2>2, <2>5, <2>6 DEF PullCommit, TypeOK, VaultTypeOK, events
  <2>8. PullOK' /\ ScanOK'
    BY <1>2, <2>2, <2>3, <2>4, ReplTypes, Untouched DEF PullCommit, PullOK, dialogs
  <2> QED
    BY <1>2, <2>7, <2>8, ReplTypesNext, MovesType DEF PullCommit
<1>3. CASE PullDone
  <2>1. VaultTypeOK'
    BY <1>3, DoneKeepsTypes DEF PullDone, Caller
  <2>2. PullOK' /\ ScanOK'
    <3>1. conflict' \in {None, conflict} /\ shown' \in {None, shown}
      BY <1>3, DoneDialogs
    <3>2. UNCHANGED <<remote, judged, pulling, manifest, scan, session, bounds>>
          /\ pending' \in {"none", pending} /\ listed' = FALSE
          /\ (scanDue' \in BOOLEAN)
      BY <1>3 DEF PullDone, resolve, TypeOK
    <3> QED
      BY <3>1, <3>2 DEF PullOK, ScanOK, TypeOK, bounds
  <2> QED
    BY <1>3, <2>1, <2>2, ReplTypesNext, MovesType DEF PullDone
<1> QED
  BY <1>1, <1>2, <1>3 DEF Pull

LEMMA DrainKeepsTypes == ASSUME TypeOK, Drain \/ DrainDone PROVE TypeOK'
<1>1. CASE Drain
  <2>1. job' \in [Caller -> Job \cup {None}] /\ pending' \in {"none", "missing-chunks", "pending-deletion"}
    <3>1. CASE stillPending /\ Start("drain", doc, FALSE) /\ UNCHANGED pending
      BY <3>1, StartType DEF stillPending, Caller, TypeOK, VaultTypeOK
    <3>2. CASE pending' = resolve(TRUE) /\ UNCHANGED job
      BY <3>2 DEF resolve, TypeOK, VaultTypeOK
    <3> QED
      BY <1>1, <3>1, <3>2 DEF Drain
  <2>2. VaultTypeOK'
    BY <1>1, <2>1 DEF Drain, TypeOK, VaultTypeOK, events, history
  <2>3. PullOK' /\ ScanOK'
    BY <1>1, <2>1, ReplTypes, Untouched DEF Drain, PullOK, pullVars, dialogs
  <2> QED
    BY <1>1, <2>2, <2>3, ReplTypesNext, MovesType DEF Drain
<1>2. CASE DrainDone
  <2>1. VaultTypeOK'
    BY <1>2, DoneKeepsTypes DEF DrainDone, Caller
  <2>2. PullOK' /\ ScanOK'
    <3>1. conflict' \in {None, conflict} /\ shown' \in {None, shown}
      BY <1>2, DoneDialogs
    <3>2. UNCHANGED <<pullVars, scanVars, session, bounds>>
          /\ pending' \in {"none", "missing-chunks", pending}
      BY <1>2 DEF DrainDone, resolve
    <3> QED
      BY <3>1, <3>2 DEF PullOK, ScanOK, TypeOK, pullVars, scanVars, bounds
  <2> QED
    BY <1>2, <2>1, <2>2, ReplTypesNext, MovesType DEF DrainDone
<1> QED
  BY <1>1, <1>2

LEMMA ApplyKeepsTypes == ASSUME TypeOK, Apply PROVE TypeOK'
<1>1. PICK k \in Caller : \/ JobStep(k) /\ UNCHANGED failures
                          \/ JobFails(k) /\ stops(1)
  BY DEF Apply
<1>2. VaultTypeOK'
  BY <1>1, CheckDiskType, WriteDiskType, EstablishBaselineType, JobFailsType DEF JobStep, TypeOK
<1>3. failures' \in Nat
  BY <1>1, StopsType DEF TypeOK
<1>4. PullOK' /\ ScanOK'
  BY <1>3, ReplTypes, Untouched DEF Apply, ScanOK, scanVars
<1> QED
  BY <1>2, <1>4, ReplTypesNext, MovesType DEF Apply

LEMMA ScanMovesKeepTypes ==
  ASSUME TypeOK, ScanSkipped \/ ScanVault \/ ScanDocs \/ ScanApplied \/ ScanEnd
  PROVE  TypeOK'
<1>1. CASE ScanSkipped
  <2>1. PullOK' /\ ScanOK'
    BY <1>1, ReplTypes, Untouched DEF ScanSkipped, ScanOK, bounds
  <2> QED
    BY <1>1, <2>1, ReplTypes, ReplTypesNext, Untouched, MovesType DEF ScanSkipped
<1>2. CASE ScanVault
  <2>1. scan' \in Scan
    BY <1>2 DEF ScanVault, noScan, Scan
  <2>2. PullOK' /\ ScanOK'
    BY <1>2, <2>1, ReplTypes, Untouched DEF ScanVault, ScanOK, bounds
  <2> QED
    BY <1>2, <2>2, ReplTypes, ReplTypesNext, Untouched, MovesType DEF ScanVault
<1>3. CASE ScanDocs
  <2>1. scan' \in Scan
    BY <1>3 DEF ScanDocs, Scan, TypeOK, VaultTypeOK
  <2>2. PullOK' /\ ScanOK'
    BY <1>3, <2>1, ReplTypes, Untouched DEF ScanDocs, ScanOK, bounds
  <2> QED
    BY <1>3, <2>2, ReplTypes, ReplTypesNext, Untouched, MovesType DEF ScanDocs
<1>4. CASE ScanApplied
  <2>1. VaultTypeOK'
    BY <1>4, DoneKeepsTypes DEF ScanApplied, Caller
  <2>2. job["scan"].doc.deleted \in BOOLEAN
    BY <1>4 DEF ScanApplied, at, TypeOK, VaultTypeOK, Job, Doc, Caller
  <2>3. pending' \in {"none", "missing-chunks", "pending-deletion"}
    BY <1>4, <2>2 DEF ScanApplied, TypeOK
  <2>4. PullOK' /\ ScanOK'
    <3>1. conflict' \in {None, conflict} /\ shown' \in {None, shown}
      BY <1>4, DoneDialogs
    <3>2. UNCHANGED <<pullVars, scanVars, session, bounds>>
      BY <1>4 DEF ScanApplied
    <3> QED
      BY <2>3, <3>1, <3>2 DEF PullOK, ScanOK, TypeOK, pullVars, scanVars, bounds
  <2> QED
    BY <1>4, <2>1, <2>4, ReplTypesNext, MovesType DEF ScanApplied
<1>5. CASE ScanEnd
  <2>1. noScan \in Scan
    BY DEF noScan, Scan
  <2>2. PullOK' /\ ScanOK'
    BY <1>5, <2>1, ReplTypes, Untouched DEF ScanEnd, ScanOK, bounds
  <2> QED
    BY <1>5, <2>2, ReplTypes, ReplTypesNext, Untouched, MovesType DEF ScanEnd
<1> QED
  BY <1>1, <1>2, <1>3, <1>4, <1>5

LEMMA RelationOfFileIs ==
  ASSUME NEW f \in Content, NEW d \in Doc, NEW b \in Baseline \cup {None}
  PROVE  relationOfFile(f, d, b) \in
           {"identical", "vclock-only-drift", "remote-edit", "local-edit", "true-divergent"}
<1>1. compareVC(diskVersion(f, b).vclock, d.vclock) \in
        {"equal", "dominates", "dominated", "concurrent"}
  BY DEF compareVC
<1>2. CASE sameState(diskVersion(f, b), d)
  BY <1>1, <1>2 DEF relationOfFile
<1>3. CASE ~sameState(diskVersion(f, b), d)
  BY <1>1, <1>3 DEF relationOfFile
<1> QED
  BY <1>2, <1>3

\* What the reconcile chooses, and what has to be there for it.
LEMMA ChoiceNeeds ==
  ASSUME NEW f \in Content \cup {None}, NEW d \in Doc \cup {None},
         NEW b \in Baseline \cup {None}, NEW own \in BOOLEAN
  PROVE  LET decision == reconcileDecision(f, d, b, own)
         IN /\ decision \in {"push", "align", "adopt", "apply", "delete", "conflict", "nothing"}
            /\ decision \in {"align", "adopt", "apply", "delete", "conflict"} => d # None
            /\ decision \in {"align", "adopt", "push"} => f # None
            /\ decision = "delete" => f = None /\ ~d.deleted
            /\ decision \in {"align", "adopt"} => ~d.deleted /\ d.content = f
<1>1. CASE f # None
  <2>1. reconcileDecision(f, d, b, own) = decisionForFile(f, d, b)
    BY <1>1 DEF reconcileDecision
  <2>2. CASE d = None
    BY <1>1, <2>1, <2>2 DEF decisionForFile
  <2>3. CASE d # None
    <3>1. relationOfFile(f, d, b) \in
           {"identical", "vclock-only-drift", "remote-edit", "local-edit", "true-divergent"}
      BY <1>1, <2>3, RelationOfFileIs
    <3>2. relationOfFile(f, d, b) \in {"identical", "vclock-only-drift"}
            => sameState(diskVersion(f, b), d)
      <4>1. CASE ~sameState(diskVersion(f, b), d)
        <5>1. compareVC(diskVersion(f, b).vclock, d.vclock) \in
                {"equal", "dominates", "dominated", "concurrent"}
          BY DEF compareVC
        <5> QED
          BY <4>1, <5>1 DEF relationOfFile
      <4> QED
        BY <4>1
    <3>3. sameState(diskVersion(f, b), d) => ~d.deleted /\ d.content = f
      BY <2>3 DEF sameState, diskVersion, Doc
    <3> QED
      BY <1>1, <2>1, <2>3, <3>1, <3>2, <3>3 DEF decisionForFile
  <2> QED
    BY <2>2, <2>3
<1>2. CASE f = None /\ d # None /\ ~d.deleted
  <2>1. reconcileDecision(f, d, b, own) = decisionForMissing(d, b, own)
    BY <1>2 DEF reconcileDecision
  <2>2. decisionForMissing(d, b, own) \in {"apply", "delete", "conflict"}
    <3>1. compareVC(d.vclock, b.vclock) \in {"equal", "dominates", "dominated", "concurrent"}
      BY DEF compareVC
    <3>2. CASE b = None
      BY <3>2 DEF decisionForMissing
    <3>3. CASE b # None
      BY <3>1, <3>3 DEF decisionForMissing
    <3> QED
      BY <3>2, <3>3
  <2> QED
    BY <1>2, <2>1, <2>2
<1>3. CASE f = None /\ (d = None \/ d.deleted)
  <2>1. reconcileDecision(f, d, b, own) = IF d # None /\ b # None /\ b.content # None
           THEN "apply" ELSE "nothing"
    BY <1>3 DEF reconcileDecision
  <2> QED
    BY <1>3, <2>1
<1> QED
  BY <1>1, <1>2, <1>3

LEMMA Chosen ==
  ASSUME TypeOK
  PROVE  /\ chosen \in {"push", "align", "adopt", "apply", "delete", "conflict", "nothing"}
         /\ chosen \in {"align", "adopt", "apply", "delete", "conflict"} => scan.doc \in Doc
         /\ chosen \in {"align", "adopt", "push"} => scan.has /\ disk # None
         /\ chosen = "delete" => (IF scan.has THEN disk ELSE None) = None /\ ~scan.doc.deleted
         /\ chosen \in {"align", "adopt"} => ~scan.doc.deleted /\ scan.doc.content = disk
<1> DEFINE f == IF scan.has THEN disk ELSE None
           own == scan.doc # None /\ ownDeletion(scan.doc)
<1>1. f \in Content \cup {None} /\ own \in BOOLEAN
  BY DEF TypeOK, VaultTypeOK
<1>2. scan.doc \in Doc \cup {None} /\ base \in Baseline \cup {None}
  BY DEF TypeOK, VaultTypeOK, Scan
<1>3. chosen = reconcileDecision(f, scan.doc, base, own)
  BY DEF chosen
<1> HIDE DEF own
<1> QED
  BY <1>1, <1>2, <1>3, ChoiceNeeds

LEMMA ScanActKeepsTypes == ASSUME TypeOK, ScanAct PROVE TypeOK'
<1>1. scan' \in Scan
  BY DEF ScanAct, Scan, TypeOK
<1>2. VaultTypeOK' /\ scanDue' \in BOOLEAN /\ shown' \in Shown \cup {None}
  <2>1. CASE UNCHANGED <<vaultVars, shown, scanDue>>
    BY <2>1, ReplTypes, Untouched DEF TypeOK
  <2>2. CASE tryPush /\ UNCHANGED <<disk, doc, base, typed, timer, deleting, job, edits,
                                     history, shown>>
    BY <2>2, ReadFileKeepsTypes, WaitType DEF tryPush, TypeOK
  <2>3. CASE scan.doc \in Doc /\ (Align(scan.doc) \/ Adopt(scan.doc)) /\ UNCHANGED <<shown, scanDue>>
    BY <2>3, AlignType DEF TypeOK
  <2>4. CASE /\ scan.doc \in Doc /\ Start("scan", scan.doc, FALSE)
             /\ UNCHANGED <<disk, doc, base, events, recording, edits, history, shown, scanDue>>
    <3>1. job' \in [Caller -> Job \cup {None}]
      BY <2>4, StartType DEF Caller, TypeOK
    <3> QED
      BY <2>4, <3>1 DEF TypeOK, VaultTypeOK, events, history
  <2>5. CASE /\ MarkDeleted /\ endEditorWait
             /\ UNCHANGED <<disk, typed, timer, deleting, recording, job, edits, owed,
                            owedAt, madeOn, shown>>
    <3>1. /\ doc' \in Doc \cup {None} /\ base' \in Baseline \cup {None}
          /\ awaiting' \in BOOLEAN /\ removed' \in Clock \cup {None}
      BY <2>5, MarkDeletedType DEF TypeOK
    <3> QED
      BY <2>5, <3>1, WaitType DEF TypeOK, VaultTypeOK
  <2>6. CASE /\ scan.doc \in Doc
             /\ \/ shown' = [doc |-> scan.doc, file |-> IF scan.has THEN disk ELSE None]
                \/ UNCHANGED shown
             /\ UNCHANGED <<vaultVars, scanDue>>
    <3>1. [doc |-> scan.doc, file |-> IF scan.has THEN disk ELSE None] \in Shown
      BY <2>6 DEF Shown, TypeOK, VaultTypeOK
    <3> QED
      BY <2>6, <3>1, Untouched DEF TypeOK
  <2> QED
    BY <2>1, <2>2, <2>3, <2>4, <2>5, <2>6, Chosen DEF ScanAct
<1>3. PullOK' /\ ScanOK'
  <2>1. PullOK'
    BY <1>2 DEF ScanAct, PullOK, TypeOK, pullVars
  <2>2. ScanOK'
    BY <1>1, <1>2 DEF ScanAct, ScanOK, TypeOK, bounds
  <2> QED
    BY <2>1, <2>2
<1> QED
  BY <1>2, <1>3, ReplTypesNext, MovesType DEF ScanAct

LEMMA AnswersKeepTypes ==
  ASSUME TypeOK, Answer \/ AnswerPull \/ DialogDone PROVE TypeOK'
<1>1. CASE Answer
  <2>1. VaultTypeOK'
    BY <1>1, KeepFileType, KeepDeletionType, TakeDocToVaultType, Untouched
       DEF Answer, KeepVault, TakeDoc, TypeOK
  <2>2. scanDue' \in BOOLEAN
    BY <1>1 DEF Answer, KeepVault, TakeDoc, TypeOK
  <2>3. PullOK' /\ ScanOK'
    BY <1>1, <2>2 DEF Answer, PullOK, ScanOK, TypeOK, pullVars, bounds
  <2> QED
    BY <1>1, <2>1, <2>3, ReplTypesNext, MovesType DEF Answer
<1>2. CASE AnswerPull
  <2>1. conflict \in Doc /\ conflict' = None
    BY <1>2 DEF AnswerPull, TypeOK
  <2>2. VaultTypeOK'
    <3>1. CASE resolveOnPull(doc, conflict) = "concurrent"
      <4>1. doc # None
        BY <3>1 DEF resolveOnPull
      <4> QED
        BY <1>2, <2>1, <3>1, <4>1, KeepLocalDocType, TakeRemoteDocType DEF AnswerPull, TypeOK
    <3>2. CASE resolveOnPull(doc, conflict) # "concurrent"
      BY <1>2, <3>2, Untouched DEF AnswerPull, TypeOK
    <3> QED
      BY <3>1, <3>2
  <2>3. PullOK' /\ ScanOK'
    BY <1>2, <2>1 DEF AnswerPull, PullOK, ScanOK, TypeOK, pullVars, scanVars, bounds
  <2> QED
    BY <1>2, <2>2, <2>3, ReplTypesNext, MovesType DEF AnswerPull
<1>3. CASE DialogDone
  <2>1. VaultTypeOK'
    BY <1>3, DoneKeepsTypes DEF DialogDone, Caller
  <2>2. PullOK' /\ ScanOK'
    BY <1>3, ReplTypes, Untouched DEF DialogDone, replVars
  <2> QED
    BY <1>3, <2>1, <2>2, ReplTypesNext, MovesType DEF DialogDone
<1> QED
  BY <1>1, <1>2, <1>3

LEMMA SessionsKeepTypes ==
  ASSUME TypeOK, Stop \/ StartUp \/ StampVaultDrift \/ CatchUp \/ CatchUpEnds PROVE TypeOK'
<1>1. CASE Stop
  <2>1. VaultTypeOK'
    BY <1>1 DEF Stop, TypeOK, VaultTypeOK, history
  <2>2. failures' \in Nat
    BY <1>1, StopsType DEF Stop
  <2>3. noScan \in Scan
    BY DEF noScan, Scan
  <2>4. PullOK' /\ ScanOK'
    BY <1>1, <2>2, <2>3 DEF Stop, PullOK, ScanOK, TypeOK
  <2> QED
    BY <1>1, <2>1, <2>4, ReplTypesNext, MovesType DEF Stop
<1>2. CASE StartUp
  <2>1. PullOK' /\ ScanOK'
    BY <1>2, ReplTypes, Untouched DEF StartUp, ScanOK, scanVars, bounds
  <2> QED
    BY <1>2, <2>1, ReplTypes, ReplTypesNext, Untouched, MovesType DEF StartUp
<1>3. CASE StampVaultDrift
  <2>1. VaultTypeOK' /\ scanDue' \in BOOLEAN
    BY <1>3, ReadFileKeepsTypes, WaitType, Untouched DEF StampVaultDrift, TypeOK
  <2>2. PullOK' /\ ScanOK'
    BY <1>3, <2>1, ReplTypes, Untouched DEF StampVaultDrift, ScanOK, bounds
  <2> QED
    BY <1>3, <2>1, <2>2, ReplTypesNext, MovesType DEF StampVaultDrift
<1>4. CASE CatchUp
  <2>1. PullOK' /\ ScanOK'
    BY <1>4, ReplTypes, Untouched DEF CatchUp, ScanOK, scanVars, bounds
  <2> QED
    BY <1>4, <2>1, ReplTypes, ReplTypesNext, Untouched, MovesType DEF CatchUp
<1>5. CASE CatchUpEnds
  <2>1. failures' \in Nat
    BY <1>5, StopsType DEF CatchUpEnds, TypeOK
  <2>2. PullOK' /\ ScanOK'
    BY <1>5, <2>1, ReplTypes, Untouched DEF CatchUpEnds, ScanOK
  <2> QED
    BY <1>5, <2>2, ReplTypes, ReplTypesNext, Untouched, MovesType DEF CatchUpEnds
<1> QED
  BY <1>1, <1>2, <1>3, <1>4, <1>5

LEMMA InitTypes == Init => TypeOK
<1> SUFFICES ASSUME Init PROVE TypeOK
  OBVIOUS
<1>1. PlacesOK /\ EventsOK /\ RunsOK /\ HistoryOK /\ remote \in Doc \cup {None}
      /\ manifest \in {"null", "has", "lacks"}
  <2>1. CASE VaultInit /\ remote = None /\ manifest = "null"
    BY <2>1, ZeroIsClock DEF VaultInit, PlacesOK, EventsOK, RunsOK, HistoryOK
  <2>2. ASSUME NEW c \in Content, NEW clock, clock = incrementVC(ZeroClock, Peer),
               /\ disk = c /\ doc = alive(c, clock) /\ base = synced(c, clock)
               /\ remote = doc /\ madeOn = clock /\ manifest = "has"
               /\ typed = None /\ awaiting = FALSE /\ timer = FALSE /\ deleting = FALSE
               /\ recording = {} /\ job = [k \in Caller |-> None] /\ edits = 0
               /\ owed = None /\ owedAt = None /\ removed = None
        PROVE  PlacesOK /\ EventsOK /\ RunsOK /\ HistoryOK /\ remote \in Doc /\ manifest = "has"
    <3>1. clock \in Clock
      BY <2>2, ZeroIsClock, EditClock
    <3> QED
      BY <2>2, <3>1, AliveType DEF PlacesOK, EventsOK, RunsOK, HistoryOK
  <2> QED
    BY <2>1, <2>2 DEF Init
<1>2. PullOK /\ ScanOK /\ moved \subseteq {"vault", "docs"}
  BY <1>1 DEF Init, PullOK, ScanOK, noScan, Scan
<1> QED
  BY <1>1, <1>2, VaultTypes, ReplTypes

LEMMA StepTypes == TypeOK /\ [Next]_vars => TypeOK'
<1> SUFFICES ASSUME TypeOK, [Next]_vars PROVE TypeOK'
  OBVIOUS
<1>1. CASE UNCHANGED vars
  BY <1>1, ReplTypes, ReplTypesNext, Untouched DEF vars, replVars
<1> QED
  BY <1>1, UserKeepsTypes, TrackerKeepsTypes, ServerKeepsTypes, PullKeepsTypes,
     DrainKeepsTypes, ApplyKeepsTypes, ScanMovesKeepTypes, ScanActKeepsTypes,
     AnswersKeepTypes, SessionsKeepTypes DEF Next

(***************************************************************************)
(* Every variable keeps to what the code may store in it: a document, a    *)
(* baseline or a job always comes whole, and so does what a dialog, a      *)
(* conflict or a reconcile remembers of one.                               *)
(***************************************************************************)
THEOREM TypesKept == Spec => []TypeOK
  BY InitTypes, StepTypes, PTL DEF Spec

-----------------------------------------------------------------------------
(***************************************************************************)
(* The versions of the path this device holds and is told of. A version is *)
(* what a baseline would say of the document: its clock, and its content   *)
(* or that it is deleted.                                                  *)
(***************************************************************************)
docsHeld == ({doc, scan.doc} \cup {job[k].doc : k \in {k \in Caller : job[k] # None}}
                             \cup {s.doc : s \in {shown} \ {None}}) \ {None}

Held == {baseOf(d) : d \in docsHeld} \cup ({base} \ {None})
Told == {baseOf(d) : d \in {remote, conflict} \ {None}}

remoteClock == IF remote = None THEN ZeroClock ELSE remote.vclock

(***************************************************************************)
(* The document goes forward in the order of the other devices' counter,   *)
(* and then of this one's: a version that is taken from them in a dialog   *)
(* may have missed edits of this device.                                   *)
(***************************************************************************)
NotAfter(a, b) == a[Peer] < b[Peer] \/ (a[Peer] = b[Peer] /\ a[Self] <= b[Self])

HeldOK == /\ doc = None => Held = {}
          /\ \A v \in Held : NotAfter(v.vclock, docClock)
          /\ \A v \in Held : v.vclock # ZeroClock

\* One clock, one state of the path.
OneState == \A v, w \in Held \cup Told : v.vclock = w.vclock => v = w

\* Each side is the only one that counts its own edits.
RemoteAhead ==
  /\ remoteClock[Self] <= docClock[Self] /\ docClock[Peer] <= remoteClock[Peer]
  /\ remote # None => remote.vclock # ZeroClock
  /\ conflict # None => /\ remote # None /\ Includes(remote.vclock, conflict.vclock)
                        /\ conflict.vclock # ZeroClock
                        /\ conflict.vclock[Peer] > docClock[Peer]
                             => conflict.vclock[Self] = remote.vclock[Self]

VersionsOK == HeldOK /\ OneState /\ RemoteAhead

\* What the batch accepted is still what the pull would accept.
PullStands == pulling # None => remote # None /\ pulling = acceptedOnPull(doc, remote)

(***************************************************************************)
(* A text the user saved and no fileToDb has recorded yet is on the disk,  *)
(* where the baseline does not explain it; and no write that has not the   *)
(* user's leave is past its look at the disk.                              *)
(***************************************************************************)
Unrecorded == owed # None /\ owedAt = None

OwedOK ==
  /\ Unrecorded => disk = owed /\ ~explained(owed, base)
  /\ owedAt # None => doc # None /\ Includes(doc.vclock, owedAt)

JobsOK == \A k \in Caller :
            /\ at(k, "write") /\ ~job[k].over => ~Unrecorded
            /\ at(k, "baseline") => ~Unrecorded

Kept == TypeOK /\ VersionsOK /\ PullStands /\ OwedOK /\ JobsOK

-----------------------------------------------------------------------------
(* The regions that are not open. *)

RaceFree == Interrupts \cap {"pull", "write", "baseline"} = {}

LEMMA Closed ==
  ASSUME RaceFree, NEW a, mayRun(a)
  PROVE  /\ pulling # None => a = "pull"
         /\ \A k \in Caller : at(k, "write") \/ at(k, "baseline") => a = k
<1>1. ASSUME pulling # None PROVE a = "pull"
  <2>1. <<"pull", "pull">> \in inside
    BY <1>1 DEF inside
  <2> QED
    BY <2>1 DEF mayRun, RaceFree
<1>2. ASSUME NEW k \in Caller, at(k, "write") \/ at(k, "baseline") PROVE a = k
  <2>1. <<job[k].stage, k>> \in inside
    BY <1>2 DEF inside, at
  <2> QED
    BY <1>2, <2>1 DEF mayRun, RaceFree, at
<1> QED
  BY <1>1, <1>2

-----------------------------------------------------------------------------
(* What the versions are. *)

LEMMA HeldDocs ==
  ASSUME TypeOK
  PROVE  /\ docsHeld \subseteq Doc /\ Held \subseteq Baseline /\ Told \subseteq Baseline
         /\ doc # None => doc \in docsHeld
         /\ scan.doc # None => scan.doc \in docsHeld
         /\ \A k \in Caller : job[k] # None => job[k].doc \in docsHeld
         /\ shown # None => shown.doc \in docsHeld
         /\ \A d \in docsHeld : baseOf(d) \in Held
         /\ base # None => base \in Held
         /\ remote # None => baseOf(remote) \in Told
         /\ conflict # None => baseOf(conflict) \in Told
<1>1. /\ doc \in Doc \cup {None} /\ scan.doc \in Doc \cup {None}
      /\ \A k \in Caller : job[k] # None => job[k].doc \in Doc
      /\ shown # None => shown.doc \in Doc
  BY DEF TypeOK, VaultTypeOK, Scan, Job, Shown
<1>2. docsHeld \subseteq Doc
  BY <1>1 DEF docsHeld
<1>3. \A k \in Caller : job[k] # None => job[k].doc \in docsHeld
  BY <1>1, NoneIsNothingElse DEF docsHeld
<1>4. /\ doc # None => doc \in docsHeld
      /\ scan.doc # None => scan.doc \in docsHeld
      /\ shown # None => shown.doc \in docsHeld
  BY <1>1, NoneIsNothingElse DEF docsHeld
<1>5. Held \subseteq Baseline
  BY <1>2, BaseOfType DEF Held, TypeOK, VaultTypeOK
<1>6. Told \subseteq Baseline
  BY BaseOfType DEF Told, TypeOK
<1> QED
  BY <1>2, <1>3, <1>4, <1>5, <1>6 DEF Held, Told

LEMMA ClocksOfVersions ==
  ASSUME TypeOK, NEW v \in Held \cup Told
  PROVE  v.vclock \in Clock /\ v.vclock[Self] \in Nat /\ v.vclock[Peer] \in Nat
<1>1. v.vclock \in Clock
  BY HeldDocs DEF Baseline
<1> QED
  BY <1>1, ClockPair

LEMMA PathClocks ==
  ASSUME TypeOK
  PROVE  /\ docClock \in Clock /\ docClock[Self] \in Nat /\ docClock[Peer] \in Nat
         /\ remoteClock \in Clock /\ remoteClock[Self] \in Nat /\ remoteClock[Peer] \in Nat
<1>1. docClock \in Clock /\ remoteClock \in Clock
  BY DocClockType, ZeroIsClock DEF TypeOK, remoteClock, Doc
<1> QED
  BY <1>1, ClockPair

\* The versions held after a step that adds those in V.
LEMMA HeldAfter ==
  ASSUME TypeOK, NEW V,
         doc' # None => doc' = doc \/ baseOf(doc') \in V,
         base' # None => base' = base \/ base' \in V,
         scan'.doc # None => scan'.doc \in docsHeld,
         shown' # None => shown'.doc \in docsHeld,
         \A k \in Caller : job'[k] # None => job'[k].doc \in docsHeld \/ baseOf(job'[k].doc) \in V
  PROVE  Held' \subseteq Held \cup V
<1> SUFFICES ASSUME NEW v \in Held' PROVE v \in Held \cup V
  OBVIOUS
<1>1. CASE v = base' /\ base' # None
  BY <1>1, HeldDocs
<1>2. ASSUME NEW d \in docsHeld', v = baseOf(d) PROVE v \in Held \cup V
  <2>1. CASE d = doc'
    BY <1>2, <2>1, HeldDocs DEF docsHeld
  <2>2. CASE d = scan'.doc
    BY <1>2, <2>2, HeldDocs DEF docsHeld
  <2>3. CASE \E k \in Caller : job'[k] # None /\ d = job'[k].doc
    BY <1>2, <2>3, HeldDocs
  <2>4. CASE shown' # None /\ d = shown'.doc
    BY <1>2, <2>4, HeldDocs
  <2> QED
    BY <1>2, <2>1, <2>2, <2>3, <2>4 DEF docsHeld
<1> QED
  BY <1>1, <1>2 DEF Held, baseOf, synced, deletedBase

-----------------------------------------------------------------------------
(* What keeps the versions apart. *)

LEMMA NothingNew ==
  ASSUME TypeOK, VersionsOK, Held' \subseteq Held, doc' = doc, remote' = remote,
         conflict' \in {None, conflict}
  PROVE  VersionsOK'
<1>1. Told' \subseteq Told
  BY DEF Told, baseOf, synced, deletedBase
<1>2. docClock' = docClock /\ remoteClock' = remoteClock
  BY DEF docClock, remoteClock
<1>3. HeldOK'
  BY <1>2 DEF VersionsOK, HeldOK, NotAfter
<1>4. OneState'
  BY <1>1 DEF VersionsOK, OneState
<1>5. RemoteAhead'
  BY <1>2 DEF VersionsOK, RemoteAhead, Includes
<1> QED
  BY <1>3, <1>4, <1>5 DEF VersionsOK

\* A version whose clock no other has.
LEMMA FreshVersion ==
  ASSUME OneState, NEW v, Held' \cup Told' \subseteq Held \cup Told \cup {v},
         \A w \in Held \cup Told : w.vclock # v.vclock
  PROVE  OneState'
  BY DEF OneState

LEMMA ToldBehind ==
  ASSUME TypeOK, VersionsOK, NEW w \in Told
  PROVE  /\ w.vclock[Self] <= remoteClock[Self] /\ w.vclock[Peer] <= remoteClock[Peer]
         /\ w.vclock[Self] <= docClock[Self]
         /\ w.vclock # ZeroClock
<1>1. CASE remote # None /\ w = baseOf(remote)
  <2>1. w.vclock = remoteClock /\ remote.vclock # ZeroClock
    BY <1>1, BaseOfType DEF TypeOK, remoteClock, VersionsOK, RemoteAhead
  <2> QED
    BY <1>1, <2>1, PathClocks DEF VersionsOK, RemoteAhead, remoteClock
<1>2. CASE conflict # None /\ w = baseOf(conflict)
  <2>1. w.vclock = conflict.vclock /\ conflict.vclock # ZeroClock /\ conflict.vclock \in Clock
    BY <1>2, BaseOfType DEF TypeOK, VersionsOK, RemoteAhead, Doc
  <2>2. remote # None /\ Includes(remoteClock, conflict.vclock)
    BY <1>2 DEF VersionsOK, RemoteAhead, remoteClock
  <2>3. remoteClock[Self] >= conflict.vclock[Self] /\ remoteClock[Peer] >= conflict.vclock[Peer]
    BY <2>1, <2>2, ClockPair, PathClocks
  <2> QED
    BY <2>1, <2>3, PathClocks, ClockPair DEF VersionsOK, RemoteAhead
<1> QED
  BY <1>1, <1>2 DEF Told

LEMMA HeldBehind ==
  ASSUME TypeOK, VersionsOK, NEW w \in Held
  PROVE  NotAfter(w.vclock, docClock) /\ w.vclock # ZeroClock /\ doc # None
  BY DEF VersionsOK, HeldOK

\* An edit of this device, or what its user decided, over the document.
LEMMA NewVersion ==
  ASSUME TypeOK, VersionsOK, doc' \in Doc,
         doc'.vclock[Self] > docClock[Self], doc'.vclock[Peer] >= docClock[Peer],
         doc'.vclock[Peer] <= remoteClock[Peer],
         Held' \subseteq Held \cup {baseOf(doc')},
         remote' = remote,
         conflict' = None \/ (conflict' = conflict /\ doc'.vclock[Peer] = docClock[Peer])
  PROVE  VersionsOK'
<1> DEFINE v == baseOf(doc')
<1>1. v.vclock = doc'.vclock /\ v.vclock \in Clock /\ v.vclock[Self] \in Nat /\ v.vclock[Peer] \in Nat
  BY BaseOfType, ClockPair DEF Doc
<1>2. doc' # None /\ docClock' = v.vclock /\ remoteClock' = remoteClock
  BY <1>1, NoneIsNothingElse DEF docClock, remoteClock
<1>3. Told' \subseteq Told
  BY DEF Told, baseOf, synced, deletedBase
<1>4. \A w \in Told : w.vclock # v.vclock
  BY <1>1, ToldBehind, ClocksOfVersions, PathClocks
<1>5. \A w \in Held : w.vclock # v.vclock /\ NotAfter(w.vclock, v.vclock) /\ w.vclock # ZeroClock
  BY <1>1, HeldBehind, ClocksOfVersions, PathClocks DEF NotAfter
<1>6. v.vclock # ZeroClock /\ NotAfter(v.vclock, v.vclock)
  BY <1>1, ZeroIsClock, PathClocks DEF NotAfter
<1>7. OneState'
  <2>1. Held' \cup Told' \subseteq Held \cup Told \cup {v}
    BY <1>3
  <2> HIDE DEF v
  <2> QED
    BY <2>1, <1>4, <1>5, FreshVersion DEF VersionsOK
<1>8. HeldOK'
  <2> HIDE DEF v
  <2>1. Held' \subseteq Held \cup {v}
    BY DEF v
  <2>2. \A w \in Held' : NotAfter(w.vclock, v.vclock) /\ w.vclock # ZeroClock
    BY <2>1, <1>5, <1>6
  <2> QED
    BY <2>2, <1>2 DEF HeldOK, NotAfter
<1>9. RemoteAhead'
  <2> HIDE DEF v
  <2>1. remoteClock[Self] <= v.vclock[Self] /\ v.vclock[Peer] <= remoteClock[Peer]
    BY <1>1, PathClocks DEF VersionsOK, RemoteAhead
  <2>2. conflict' = conflict => v.vclock[Peer] = docClock[Peer] \/ conflict' = None
    BY <1>1
  <2> QED
    BY <1>2, <2>1, <2>2 DEF VersionsOK, RemoteAhead, Includes
<1> QED
  BY <1>7, <1>8, <1>9 DEF VersionsOK

\* Another device's edit over the server's document.
LEMMA PeerVersion ==
  ASSUME TypeOK, VersionsOK, remote' \in Doc,
         remote'.vclock[Self] = remoteClock[Self], remote'.vclock[Peer] = remoteClock[Peer] + 1,
         Held' \subseteq Held, doc' = doc, conflict' = conflict
  PROVE  VersionsOK'
<1> DEFINE v == baseOf(remote')
<1>1. v.vclock = remote'.vclock /\ v.vclock \in Clock /\ v.vclock[Self] \in Nat /\ v.vclock[Peer] \in Nat
  BY BaseOfType, ClockPair DEF Doc
<1>2. remote' # None /\ docClock' = docClock /\ remoteClock' = v.vclock
  BY <1>1, NoneIsNothingElse DEF docClock, remoteClock
<1>3. Told' \subseteq Told \cup {v}
  BY DEF Told, baseOf, synced, deletedBase
<1>4. \A w \in Told : w.vclock # v.vclock
  BY <1>1, ToldBehind, ClocksOfVersions, PathClocks
<1>5. docClock[Peer] <= remoteClock[Peer] /\ remoteClock[Self] <= docClock[Self]
  BY DEF VersionsOK, RemoteAhead
<1>6. \A w \in Held : w.vclock # v.vclock
  BY <1>1, <1>5, HeldBehind, ClocksOfVersions, PathClocks DEF NotAfter
<1>7. v.vclock # ZeroClock
  BY <1>1, ZeroIsClock, PathClocks
<1>8. OneState'
  <2>1. Held' \cup Told' \subseteq Held \cup Told \cup {v}
    BY <1>3
  <2> HIDE DEF v
  <2> QED
    BY <2>1, <1>4, <1>6, FreshVersion DEF VersionsOK
<1>9. HeldOK'
  BY <1>2 DEF VersionsOK, HeldOK, NotAfter
<1>10. RemoteAhead'
  <2>1. remoteClock'[Self] <= docClock'[Self] /\ docClock'[Peer] <= remoteClock'[Peer]
    BY <1>1, <1>2, <1>5, PathClocks
  <2>2. remote'.vclock # ZeroClock
    BY <1>1, <1>7
  <2>3. ASSUME conflict # None
        PROVE  /\ Includes(remote'.vclock, conflict.vclock) /\ conflict.vclock # ZeroClock
               /\ conflict.vclock[Peer] > docClock[Peer]
                    => conflict.vclock[Self] = remote'.vclock[Self]
    <3>1. conflict.vclock \in Clock /\ remote # None /\ remoteClock = remote.vclock
      BY <2>3 DEF TypeOK, Doc, VersionsOK, RemoteAhead, remoteClock
    <3>2. /\ remoteClock[Self] >= conflict.vclock[Self] /\ remoteClock[Peer] >= conflict.vclock[Peer]
          /\ conflict.vclock[Peer] \in Nat /\ conflict.vclock[Self] \in Nat
      BY <2>3, <3>1, ClockPair, PathClocks DEF VersionsOK, RemoteAhead
    <3>3. Includes(remote'.vclock, conflict.vclock)
      BY <3>1, <3>2, <1>1, ClockPair, PathClocks
    <3> QED
      BY <2>3, <3>1, <3>3 DEF VersionsOK, RemoteAhead
  <2> QED
    BY <1>2, <2>1, <2>2, <2>3 DEF RemoteAhead
<1> QED
  BY <1>8, <1>9, <1>10 DEF VersionsOK

\* The document reaches the server.
LEMMA DeliveredVersion ==
  ASSUME TypeOK, VersionsOK, doc # None, remote' = doc,
         remote # None => Dominates(doc.vclock, remote.vclock),
         Held' \subseteq Held, doc' = doc, conflict' = conflict
  PROVE  VersionsOK'
<1>1. doc \in Doc /\ baseOf(doc) \in Held /\ doc.vclock = docClock
  BY HeldDocs DEF docClock, TypeOK, VaultTypeOK
<1>2. docClock' = docClock /\ remoteClock' = docClock /\ remote' # None
  BY <1>1 DEF docClock, remoteClock
<1>3. docClock # ZeroClock
  BY <1>1, HeldBehind, BaseOfType
<1>4. remote # None => docClock[Peer] = remoteClock[Peer] /\ Includes(docClock, remoteClock)
  BY <1>1, ClockPair, PathClocks DEF VersionsOK, RemoteAhead, remoteClock, Dominates
<1>5. OneState'
  <2>1. Told' \subseteq Told \cup {baseOf(doc)}
    BY DEF Told, baseOf, synced, deletedBase
  <2>2. Held' \cup Told' \subseteq Held \cup Told
    BY <1>1, <2>1
  <2> QED
    BY <2>2 DEF VersionsOK, OneState
<1>6. HeldOK'
  BY <1>2 DEF VersionsOK, HeldOK, NotAfter
<1>7. RemoteAhead'
  <2>1. docClock[Self] <= docClock[Self] /\ docClock[Peer] <= docClock[Peer]
    BY PathClocks
  <2>2. ASSUME conflict # None
        PROVE  /\ Includes(doc.vclock, conflict.vclock) /\ conflict.vclock # ZeroClock
               /\ ~(conflict.vclock[Peer] > docClock[Peer])
    <3>1. conflict.vclock \in Clock /\ remote # None /\ remoteClock = remote.vclock
      BY <2>2 DEF TypeOK, Doc, VersionsOK, RemoteAhead, remoteClock
    <3>2. /\ remoteClock[Self] >= conflict.vclock[Self] /\ remoteClock[Peer] >= conflict.vclock[Peer]
          /\ conflict.vclock[Peer] \in Nat /\ conflict.vclock[Self] \in Nat
      BY <2>2, <3>1, ClockPair, PathClocks DEF VersionsOK, RemoteAhead
    <3>3. remoteClock[Self] <= docClock[Self]
      BY DEF VersionsOK, RemoteAhead
    <3>4. Includes(doc.vclock, conflict.vclock)
      BY <3>1, <3>2, <3>3, <1>1, <1>4, ClockPair, PathClocks
    <3> QED
      BY <2>2, <3>1, <3>2, <3>4, <1>4, PathClocks DEF VersionsOK, RemoteAhead
  <2> QED
    BY <1>1, <1>2, <1>3, <2>1, <2>2 DEF RemoteAhead
<1> QED
  BY <1>5, <1>6, <1>7 DEF VersionsOK

\* What the pull accepts, with what each side alone counts.
LEMMA Verdicts ==
  ASSUME NEW l \in Doc, NEW r \in Doc
  PROVE  /\ resolveOnPull(l, r) = "take-remote" => Dominates(r.vclock, l.vclock)
         /\ resolveOnPull(l, r) = "silent-merge" => sameState(l, r)
         /\ resolveOnPull(l, r) = "concurrent"
              => ~sameState(l, r) /\ (Concurrent(l.vclock, r.vclock) \/ l.vclock = r.vclock)
<1>0. l # None
  BY NoneIsNothingElse
<1>1. l.vclock \in Clock /\ r.vclock \in Clock
  BY DEF Doc
<1>2. compareVC(l.vclock, r.vclock) \in {"equal", "dominates", "dominated", "concurrent"}
  BY DEF compareVC
<1>3. CASE sameState(l, r)
  BY <1>0, <1>2, <1>3 DEF resolveOnPull, relationOfDocs
<1>4. CASE ~sameState(l, r)
  BY <1>0, <1>1, <1>2, <1>4, CompareIsOrder DEF resolveOnPull, relationOfDocs
<1> QED
  BY <1>3, <1>4

LEMMA SameStateSameBase ==
  ASSUME NEW l \in Doc, NEW r \in Doc, sameState(l, r), l.vclock = r.vclock
  PROVE  baseOf(l) = baseOf(r)
  BY DEF sameState, baseOf, deletedBase, synced

LEMMA Accepted ==
  ASSUME TypeOK, VersionsOK, remote # None, NEW d, d = acceptedOnPull(doc, remote), d # None
  PROVE  /\ d \in Doc
         /\ d.vclock[Self] = docClock[Self] /\ d.vclock[Peer] = remoteClock[Peer]
         /\ d.vclock = remoteClock => baseOf(d) = baseOf(remote)
         /\ doc # None /\ d.vclock = docClock => baseOf(d) = baseOf(doc)
<1>1. remote \in Doc /\ doc \in Doc \cup {None} /\ remoteClock = remote.vclock
  BY DEF TypeOK, VaultTypeOK, remoteClock
<1>2. remoteClock[Self] <= docClock[Self] /\ docClock[Peer] <= remoteClock[Peer]
  BY DEF VersionsOK, RemoteAhead
<1>3. d \in Doc
  BY <1>1, AcceptedType
<1>4. CASE doc = None
  <2>1. d = remote
    BY <1>4 DEF acceptedOnPull, resolveOnPull
  <2>2. docClock[Self] = 0 /\ remoteClock[Self] = 0
    BY <1>2, <1>4, ZeroIsClock, PathClocks DEF docClock
  <2> QED
    BY <1>1, <1>3, <1>4, <2>1, <2>2
<1>5. CASE doc # None /\ resolveOnPull(doc, remote) = "take-remote"
  <2>1. d = remote /\ docClock = doc.vclock
    BY <1>5 DEF acceptedOnPull, docClock
  <2>2. Dominates(remoteClock, docClock)
    BY <1>1, <1>5, <2>1, Verdicts
  <2>3. remoteClock[Self] >= docClock[Self] /\ remoteClock # docClock
    BY <2>2, ClockPair, PathClocks DEF Dominates
  <2> QED
    BY <1>1, <1>2, <1>3, <2>1, <2>3, PathClocks
<1>6. CASE doc # None /\ resolveOnPull(doc, remote) = "silent-merge"
  <2>1. d = [remote EXCEPT !.vclock = mergeVC(doc.vclock, remote.vclock)] /\ docClock = doc.vclock
    BY <1>6 DEF acceptedOnPull, docClock
  <2>2. /\ d.content = remote.content /\ d.deleted = remote.deleted
        /\ d.vclock = mergeVC(docClock, remoteClock)
    BY <1>1, <2>1 DEF Doc
  <2>3. d.vclock[Self] = docClock[Self] /\ d.vclock[Peer] = remoteClock[Peer]
    BY <1>2, <2>2, MergedClock, PathClocks
  <2>4. sameState(doc, remote)
    BY <1>1, <1>6, Verdicts
  <2>5. d.vclock = remoteClock => baseOf(d) = baseOf(remote)
    BY <1>1, <2>2 DEF baseOf, deletedBase, synced
  <2>6. d.vclock = docClock => baseOf(d) = baseOf(doc)
    <3>1. sameState(doc, d)
      BY <2>2, <2>4 DEF sameState
    <3> QED
      BY <1>1, <1>3, <1>6, <2>1, <3>1, SameStateSameBase
  <2> QED
    BY <1>3, <2>3, <2>5, <2>6
<1> QED
  <2>1. resolveOnPull(doc, remote) \in {"take-remote", "silent-merge"}
    BY <1>3, NoneIsNothingElse, ResolvesSomehow, <1>1 DEF acceptedOnPull
  <2> QED
    BY <1>4, <1>5, <1>6, <2>1

\* What the pull accepted becomes the document.
LEMMA TakenVersion ==
  ASSUME TypeOK, VersionsOK, remote # None, doc' = acceptedOnPull(doc, remote), doc' # None,
         Held' \subseteq Held \cup {baseOf(doc')}, remote' = remote, conflict' = conflict
  PROVE  VersionsOK'
<1> DEFINE v == baseOf(doc')
<1>1. /\ doc' \in Doc
      /\ doc'.vclock[Self] = docClock[Self] /\ doc'.vclock[Peer] = remoteClock[Peer]
      /\ doc'.vclock = remoteClock => v = baseOf(remote)
      /\ doc # None /\ doc'.vclock = docClock => v = baseOf(doc)
  BY Accepted
<1>2. v.vclock = doc'.vclock /\ v.vclock \in Clock /\ v.vclock[Self] \in Nat /\ v.vclock[Peer] \in Nat
  BY <1>1, BaseOfType, ClockPair DEF Doc
<1>3. docClock' = v.vclock /\ remoteClock' = remoteClock
  BY <1>2 DEF docClock, remoteClock
<1>4. /\ remoteClock[Self] <= docClock[Self] /\ docClock[Peer] <= remoteClock[Peer]
      /\ remoteClock # ZeroClock
  BY DEF VersionsOK, RemoteAhead, remoteClock
<1>5. v.vclock # ZeroClock
  BY <1>1, <1>2, <1>4, ZeroIsClock, ClockPair, PathClocks
<1>6. Told' = Told
  BY DEF Told, baseOf, synced, deletedBase
<1>7. \/ v \in Held \cup Told
      \/ \A w \in Held \cup Told : w.vclock # v.vclock
  <2> SUFFICES ASSUME v \notin Held \cup Told, NEW w \in Held \cup Told PROVE w.vclock # v.vclock
    OBVIOUS
  <2>1. v.vclock # remoteClock /\ (doc # None => v.vclock # docClock)
    BY <1>1, <1>2, HeldDocs
  <2>2. ASSUME v.vclock = docClock PROVE FALSE
    <3>1. doc = None /\ docClock = ZeroClock
      BY <2>1, <2>2 DEF docClock
    <3> QED
      BY <1>5, <2>2, <3>1
  <2>3. remoteClock[Peer] > docClock[Peer]
    BY <1>1, <1>2, <1>4, <2>2, ClockPair, PathClocks
  <2>4. CASE w \in Held
    BY <1>1, <1>2, <2>3, <2>4, HeldBehind, ClocksOfVersions, PathClocks DEF NotAfter
  <2>5. CASE w = baseOf(remote) /\ remote # None
    BY <2>1, <2>5, BaseOfType DEF TypeOK, remoteClock
  <2>6. CASE w = baseOf(conflict) /\ conflict # None
    <3>1. w.vclock = conflict.vclock
      BY <2>6, BaseOfType DEF TypeOK
    <3>2. w.vclock[Peer] > docClock[Peer] => w.vclock[Self] = remoteClock[Self]
      BY <2>6, <3>1 DEF VersionsOK, RemoteAhead, remoteClock
    <3>3. w.vclock = v.vclock => remoteClock[Self] = docClock[Self]
      BY <1>1, <1>2, <2>3, <3>2
    <3>4. remoteClock[Self] = docClock[Self] => v.vclock = remoteClock
      BY <1>1, <1>2, ClockPair, PathClocks
    <3> QED
      BY <2>1, <3>3, <3>4
  <2> QED
    BY <2>4, <2>5, <2>6 DEF Told
<1>8. OneState'
  <2>1. Held' \cup Told' \subseteq Held \cup Told \cup {v}
    BY <1>6
  <2> HIDE DEF v
  <2>2. CASE v \in Held \cup Told
    BY <2>1, <2>2 DEF VersionsOK, OneState
  <2> QED
    BY <1>7, <2>1, <2>2, FreshVersion DEF VersionsOK
<1>9. HeldOK'
  <2>1. \A w \in Held : NotAfter(w.vclock, v.vclock) /\ w.vclock # ZeroClock
    BY <1>1, <1>2, <1>4, HeldBehind, ClocksOfVersions, PathClocks DEF NotAfter
  <2>2. NotAfter(v.vclock, v.vclock)
    BY <1>2 DEF NotAfter
  <2> HIDE DEF v
  <2>3. \A w \in Held' : NotAfter(w.vclock, v.vclock) /\ w.vclock # ZeroClock
    BY <1>5, <2>1, <2>2 DEF v
  <2> QED
    BY <1>3, <2>3 DEF HeldOK, NotAfter
<1>10. RemoteAhead'
  <2>1. remoteClock[Self] <= v.vclock[Self] /\ v.vclock[Peer] <= remoteClock[Peer]
    BY <1>1, <1>2, <1>4, PathClocks
  <2>2. conflict # None => ~(conflict.vclock[Peer] > v.vclock[Peer])
    <3> SUFFICES ASSUME conflict # None PROVE ~(conflict.vclock[Peer] > v.vclock[Peer])
      OBVIOUS
    <3>1. baseOf(conflict) \in Told /\ baseOf(conflict).vclock = conflict.vclock
      BY HeldDocs, BaseOfType DEF TypeOK
    <3>2. conflict.vclock[Peer] <= remoteClock[Peer] /\ conflict.vclock[Peer] \in Nat
      BY <3>1, ToldBehind, ClocksOfVersions
    <3> QED
      BY <1>1, <1>2, <3>2, PathClocks
  <2> HIDE DEF v
  <2> QED
    BY <1>3, <2>1, <2>2 DEF VersionsOK, RemoteAhead, Includes
<1> QED
  BY <1>8, <1>9, <1>10 DEF VersionsOK

-----------------------------------------------------------------------------
(* Steps that touch neither a place of the path nor what is owed. *)

\* No job comes to the write, or to the baseline after it.
JobsGoOn == \A k \in Caller :
              job'[k] # None /\ job'[k].stage \in {"write", "baseline"}
                => job'[k] = job[k]

JobDocsStay == \A k \in Caller : job'[k] # None => job'[k].doc \in docsHeld

LEMMA JobsOKStays ==
  ASSUME JobsOK, JobsGoOn, Unrecorded' => Unrecorded
  PROVE  JobsOK'
  BY DEF JobsOK, JobsGoOn, at

LEMMA JobsAfterSame == ASSUME TypeOK, job' = job PROVE JobsGoOn /\ JobDocsStay
  BY HeldDocs DEF JobsGoOn, JobDocsStay, at

LEMMA JobsAfterDone ==
  ASSUME TypeOK, NEW k \in Caller, job' = [job EXCEPT ![k] = None]
  PROVE  JobsGoOn /\ JobDocsStay
<1>1. \A j \in Caller : job'[j] # None => job'[j] = job[j]
  BY DEF TypeOK, VaultTypeOK
<1> QED
  BY <1>1, HeldDocs DEF JobsGoOn, JobDocsStay, at

LEMMA JobsAfterStart ==
  ASSUME TypeOK, NEW k \in Caller, NEW d \in Doc, NEW over \in BOOLEAN, Start(k, d, over)
  PROVE  /\ JobsGoOn
         /\ \A j \in Caller : job'[j] # None => job'[j].doc \in docsHeld \/ job'[j].doc = d
<1>1. job'[k] = newJob(d, over) /\ \A j \in Caller \ {k} : job'[j] = job[j]
  BY DEF Start, TypeOK, VaultTypeOK
<1>2. job'[k].doc = d /\ job'[k].stage = "check"
  BY <1>1 DEF newJob
<1>3. JobsGoOn
  BY <1>1, <1>2 DEF JobsGoOn, at
<1> QED
  BY <1>1, <1>2, <1>3, HeldDocs

LEMMA JobDocsAfterMove ==
  ASSUME TypeOK, NEW k \in Caller, job[k] # None,
         NEW stage \in {"check", "write", "baseline", "applied", "declined", "failed"},
         NEW had \in BOOLEAN,
         job' = [job EXCEPT ![k].stage = stage] \/ job' = [job EXCEPT ![k].stage = stage, ![k].had = had]
  PROVE  JobDocsStay
<1>1. job'[k].doc = job[k].doc /\ \A j \in Caller \ {k} : job'[j] = job[j]
  BY JobMoves DEF TypeOK
<1> QED
  BY <1>1, HeldDocs DEF JobDocsStay

LEMMA HeldShrinks ==
  ASSUME TypeOK, doc' = doc, base' = base \/ base' = None,
         scan'.doc # None => scan'.doc \in docsHeld,
         shown' # None => shown'.doc \in docsHeld,
         JobDocsStay
  PROVE  Held' \subseteq Held
<1>1. Held' \subseteq Held \cup {}
  BY HeldAfter, Zenon DEF JobDocsStay
<1> QED
  BY <1>1

Quiet ==
  /\ UNCHANGED <<disk, doc, base, owed, owedAt, remote>>
  /\ conflict' \in {None, conflict} /\ pulling' \in {None, pulling}
  /\ scan'.doc # None => scan'.doc \in docsHeld
  /\ shown' # None => shown'.doc \in docsHeld
  /\ JobsGoOn /\ JobDocsStay

LEMMA QuietKeeps ==
  ASSUME Kept, TypeOK', Quiet
  PROVE  Kept'
<1>1. Held' \subseteq Held
  BY HeldShrinks DEF Quiet, Kept
<1>2. VersionsOK'
  BY <1>1, NothingNew DEF Quiet, Kept
<1>3. PullStands'
  BY DEF Quiet, Kept, PullStands, acceptedOnPull
<1>4. OwedOK' /\ (Unrecorded' => Unrecorded)
  BY DEF Quiet, Kept, OwedOK, Unrecorded, explained, Includes
<1>5. JobsOK'
  BY <1>4, JobsOKStays DEF Quiet, Kept
<1> QED
  BY <1>2, <1>3, <1>4, <1>5 DEF Kept

LEMMA ScanStays == ASSUME TypeOK, scan' = scan \/ scan' = noScan
                   PROVE  scan'.doc # None => scan'.doc \in docsHeld
  BY HeldDocs DEF noScan

LEMMA ShownStays == ASSUME TypeOK, shown' \in {None, shown}
                    PROVE  shown' # None => shown'.doc \in docsHeld
  BY HeldDocs

LEMMA QuietPull == ASSUME TypeOK, PullDone \/ Drain \/ DrainDone PROVE Quiet
<1>1. JobsGoOn /\ JobDocsStay
  <2>1. CASE PullDone
    BY <2>1, JobsAfterDone DEF PullDone, Caller
  <2>2. CASE DrainDone
    BY <2>2, JobsAfterDone DEF DrainDone, Caller
  <2>3. CASE Drain
    <3>1. CASE stillPending /\ Start("drain", doc, FALSE)
      <4>1. doc \in Doc /\ doc \in docsHeld
        BY <3>1, HeldDocs DEF stillPending, TypeOK, VaultTypeOK
      <4> QED
        BY <3>1, <4>1, JobsAfterStart DEF Caller, JobDocsStay
    <3>2. CASE UNCHANGED job
      BY <3>2, JobsAfterSame
    <3> QED
      BY <2>3, <3>1, <3>2 DEF Drain
  <2> QED
    BY <2>1, <2>2, <2>3
<1>2. UNCHANGED <<disk, doc, base, owed, owedAt, remote, scan, pulling>>
  BY DEF PullDone, Drain, DrainDone, history, pullVars, dialogs, scanVars
<1>3. conflict' \in {None, conflict} /\ shown' \in {None, shown}
  BY DoneDialogs DEF Drain, dialogs
<1> QED
  BY <1>1, <1>2, <1>3, ScanStays, ShownStays DEF Quiet

LEMMA QuietScan ==
  ASSUME TypeOK, ScanSkipped \/ ScanVault \/ ScanDocs \/ ScanApplied \/ ScanEnd
  PROVE  Quiet
<1>1. JobsGoOn /\ JobDocsStay
  BY JobsAfterSame, JobsAfterDone
     DEF ScanSkipped, ScanVault, ScanDocs, ScanApplied, ScanEnd, vaultVars, Caller
<1>2. scan'.doc # None => scan'.doc \in docsHeld
  <2>1. CASE ScanVault
    BY <2>1 DEF ScanVault, noScan
  <2>2. CASE ScanDocs
    BY <2>2, HeldDocs DEF ScanDocs, TypeOK, Scan
  <2> QED
    BY <2>1, <2>2, ScanStays DEF ScanSkipped, ScanApplied, ScanEnd, scanVars
<1>3. UNCHANGED <<disk, doc, base, owed, owedAt, remote, pulling>>
  BY DEF ScanSkipped, ScanVault, ScanDocs, ScanApplied, ScanEnd, vaultVars, history, pullVars
<1>4. conflict' \in {None, conflict} /\ shown' \in {None, shown}
  BY DoneDialogs DEF ScanSkipped, ScanVault, ScanDocs, ScanEnd, dialogs
<1> QED
  BY <1>1, <1>2, <1>3, <1>4, ShownStays DEF Quiet

LEMMA QuietSessions ==
  ASSUME TypeOK, Stop \/ StartUp \/ StampVaultDrift \/ CatchUp \/ CatchUpEnds \/ DialogDone
  PROVE  Quiet
<1>1. JobsGoOn /\ JobDocsStay
  <2>1. CASE Stop
    BY <2>1 DEF Stop, JobsGoOn, JobDocsStay, at
  <2>2. CASE DialogDone
    BY <2>2, JobsAfterDone DEF DialogDone, Caller
  <2> QED
    BY <2>1, <2>2, JobsAfterSame DEF StartUp, StampVaultDrift, CatchUp, CatchUpEnds, vaultVars
<1>2. UNCHANGED <<disk, doc, base, owed, owedAt, remote>> /\ pulling' \in {None, pulling}
      /\ conflict' = conflict /\ shown' \in {None, shown} /\ (scan' = scan \/ scan' = noScan)
  BY DEF Stop, StartUp, StampVaultDrift, CatchUp, CatchUpEnds, DialogDone, vaultVars, history,
         pullVars, dialogs, scanVars, replVars
<1> QED
  BY <1>1, <1>2, ScanStays, ShownStays DEF Quiet

-----------------------------------------------------------------------------
(* The user, and what is recorded of what the user did. *)

LEMMA IncludesTrans ==
  ASSUME NEW a \in Clock, NEW b \in Clock, NEW c \in Clock, Includes(a, b), Includes(b, c)
  PROVE  Includes(a, c)
  BY ClockPair

LEMMA NobodyInside ==
  ASSUME Kept, RaceFree, NEW a, mayRun(a), a \notin Caller
  PROVE  pulling = None /\ \A k \in Caller : ~at(k, "write") /\ ~at(k, "baseline")
  BY Closed DEF Caller

LEMMA UserKeeps == ASSUME Kept, TypeOK', RaceFree, User PROVE Kept'
<1>1. UNCHANGED <<doc, base, job, remote, conflict, shown, scan, pulling>>
  BY DEF User, Type, SaveTyped, EditFile, DeleteFile, replVars, pullVars, dialogs, scanVars
<1>2. pulling = None /\ \A k \in Caller : ~at(k, "write") /\ ~at(k, "baseline")
  BY NobodyInside DEF User, Caller
<1>3. VersionsOK' /\ PullStands'
  <2>1. Held' \subseteq Held
    BY <1>1, HeldShrinks, JobsAfterSame, ScanStays, ShownStays DEF Kept
  <2> QED
    BY <1>1, <1>2, <2>1, NothingNew DEF Kept, PullStands
<1>4. JobsOK'
  BY <1>1, <1>2 DEF JobsOK, at
<1>5. OwedOK'
  <2>1. CASE \E c \in Content : Type(c)
    BY <1>1, <2>1 DEF Type, Kept, OwedOK, Unrecorded, explained, history, Includes
  <2>2. CASE DeleteFile(running)
    BY <2>2 DEF DeleteFile, OwedOK, Unrecorded
  <2>3. CASE \E c, on, heard : Saves(c, on, heard)
    BY <1>1, <2>3 DEF Saves, OwedOK, Unrecorded, explained
  <2> QED
    BY <2>1, <2>2, <2>3 DEF User, SaveTyped, EditFile
<1> QED
  BY <1>3, <1>4, <1>5 DEF Kept

\* A newer version of this device becomes the document.
LEMMA EditKeeps ==
  ASSUME Kept, TypeOK', doc' \in Doc,
         doc'.vclock[Self] > docClock[Self], doc'.vclock[Peer] >= docClock[Peer],
         doc'.vclock[Peer] <= remoteClock[Peer],
         base' = base \/ base' = baseOf(doc'), scan'.doc = scan.doc, shown' \in {None, shown},
         JobsGoOn,
         \A j \in Caller : job'[j] # None => job'[j].doc \in docsHeld \/ job'[j].doc = doc',
         remote' = remote, pulling' = None,
         conflict' = None \/ (conflict' = conflict /\ doc'.vclock[Peer] = docClock[Peer]),
         disk' = disk, owed' \in {None, owed}, owedAt' \in {None, owedAt, doc'.vclock},
         Unrecorded' => Unrecorded /\ ~explained(owed, base')
  PROVE  Kept'
<1>1. Held' \subseteq Held \cup {baseOf(doc')}
  <2> DEFINE V == {baseOf(doc')}
  <2>1. baseOf(doc') \in V
    OBVIOUS
  <2>2. base' # None => base' = base \/ base' \in V
    BY <2>1
  <2>3. \A j \in Caller : job'[j] # None => job'[j].doc \in docsHeld \/ baseOf(job'[j].doc) \in V
    BY <2>1 DEF baseOf, synced, deletedBase
  <2>4. scan'.doc # None => scan'.doc \in docsHeld
    BY HeldDocs DEF Kept
  <2>5. shown' # None => shown'.doc \in docsHeld
    BY ShownStays DEF Kept
  <2> HIDE DEF V
  <2>6. Held' \subseteq Held \cup V
    BY <2>1, <2>2, <2>3, <2>4, <2>5, HeldAfter, Zenon DEF Kept
  <2> QED
    BY <2>6 DEF V
<1>2. VersionsOK'
  BY <1>1, NewVersion DEF Kept
<1>3. PullStands'
  BY DEF PullStands
<1>4. OwedOK'
  <2>1. doc'.vclock \in Clock
    BY DEF Doc
  <2>2. Includes(doc'.vclock, docClock) /\ Includes(doc'.vclock, doc'.vclock)
    BY <2>1, ClockPair, PathClocks DEF Kept
  <2>3. owedAt # None => Includes(docClock, owedAt) /\ owedAt \in Clock
    BY DEF Kept, OwedOK, docClock, TypeOK, VaultTypeOK
  <2>4. owedAt # None => Includes(doc'.vclock, owedAt)
    BY <2>1, <2>2, <2>3, IncludesTrans, PathClocks DEF Kept
  <2>5. owedAt' # None => doc' # None /\ Includes(doc'.vclock, owedAt')
    BY <2>2, <2>4, NoneIsNothingElse
  <2>6. Unrecorded' => disk' = owed' /\ ~explained(owed', base')
    BY DEF Kept, OwedOK, Unrecorded
  <2> QED
    BY <2>5, <2>6 DEF OwedOK, Includes
<1>5. JobsOK'
  BY JobsOKStays DEF Kept
<1> QED
  BY <1>2, <1>3, <1>4, <1>5 DEF Kept

\* Only the baseline moves, to a version the device holds.
LEMMA BaseKeeps ==
  ASSUME Kept, TypeOK', doc' = doc, base' \in Held \cup {None, base}, scan' = [scan EXCEPT !.stage = scan'.stage],
         shown' \in {None, shown}, JobDocsStay, remote' = remote, conflict' = conflict,
         pulling' = pulling
  PROVE  VersionsOK' /\ PullStands'
<1>1. scan'.doc = scan.doc
  BY DEF Kept, TypeOK, Scan
<1>2. Held' \subseteq Held \cup Held
  <2>1. scan'.doc # None => scan'.doc \in docsHeld
    BY <1>1, HeldDocs DEF Kept
  <2>2. shown' # None => shown'.doc \in docsHeld
    BY ShownStays DEF Kept
  <2> QED
    BY <2>1, <2>2, HeldAfter, Zenon DEF JobDocsStay, Kept
<1> QED
  BY <1>2, NothingNew DEF Kept, PullStands, acceptedOnPull

LEMMA OwnEdit ==
  ASSUME Kept, NEW k, k = incrementVC(docClock, Self)
  PROVE  /\ k \in Clock /\ k[Self] > docClock[Self]
         /\ k[Peer] = docClock[Peer] /\ k[Peer] <= remoteClock[Peer]
  BY EditClock, PathClocks DEF Kept, VersionsOK, RemoteAhead

LEMMA CommitReadKeeps ==
  ASSUME Kept, TypeOK', NEW r, CommitRead(r), pulling = None, pulling' = None,
         UNCHANGED <<remote, conflict, shown, scan>>
  PROVE  Kept'
<1> DEFINE k == incrementVC(docClock, Self)
<1>1. r \in Read /\ r.content \in Content
  BY DEF CommitRead, Kept, TypeOK, VaultTypeOK, Read
<1>2. UNCHANGED <<disk, job>>
  BY DEF CommitRead
<1>3. JobsGoOn /\ JobDocsStay
  BY <1>2, JobsAfterSame DEF Kept
<1>4. CASE recordsFile(r.content, doc, base)
  <2>1. doc' = alive(r.content, k) /\ base' = synced(r.content, k)
        /\ owed' = owed /\ owedAt' = IF owed = r.content THEN k ELSE owedAt
    BY <1>4 DEF CommitRead, Recorded
  <2>2. k \in Clock /\ k[Self] > docClock[Self] /\ k[Peer] = docClock[Peer] /\ k[Peer] <= remoteClock[Peer]
    BY OwnEdit
  <2> HIDE DEF k
  <2>3. doc' \in Doc /\ base' = baseOf(doc') /\ doc'.vclock = k
    BY <1>1, <2>1, <2>2, AliveType DEF alive
  <2>4. Unrecorded' => Unrecorded /\ owed # r.content
    BY <2>1, <2>2, NoneIsNothingElse DEF Unrecorded
  <2>5. base'.content = r.content
    BY <2>1 DEF synced
  <2>6. Unrecorded' => Unrecorded /\ ~explained(owed, base')
    BY <2>4, <2>5 DEF explained
  <2>7. k[Peer] >= docClock[Peer]
    BY <2>2, PathClocks DEF Kept
  <2>8. owed' \in {None, owed} /\ owedAt' \in {None, owedAt, k}
    BY <2>1
  <2> QED
    BY <1>2, <1>3, <2>2, <2>3, <2>6, <2>7, <2>8, EditKeeps DEF JobDocsStay
<1>5. CASE ~recordsFile(r.content, doc, base)
  <2>1. UNCHANGED <<doc, base, owed, owedAt>>
    BY <1>5 DEF CommitRead, history
  <2> QED
    BY <1>2, <1>3, <2>1, QuietKeeps, ScanStays, ShownStays DEF Quiet, Kept
<1> QED
  BY <1>4, <1>5

LEMMA MarkDeletedKeeps ==
  ASSUME Kept, TypeOK', MarkDeleted, pulling = None, pulling' = None,
         UNCHANGED <<disk, job, owed, owedAt, remote, conflict, shown>>,
         scan' = [scan EXCEPT !.stage = scan'.stage]
  PROVE  Kept'
<1> DEFINE k == incrementVC(docClock, Self)
<1>1. JobsGoOn /\ JobDocsStay
  BY JobsAfterSame DEF Kept
<1>2. CASE doc' = doc /\ base' \in Held \cup {None, base} /\ (base' = base \/ base' = None \/ base'.content = None)
  <2>1. VersionsOK' /\ PullStands'
    BY <1>1, <1>2, BaseKeeps
  <2>2. OwedOK' /\ (Unrecorded' => Unrecorded)
    BY <1>2, NoneIsNothingElse DEF Kept, OwedOK, Unrecorded, explained, Includes
  <2> QED
    BY <1>1, <2>1, <2>2, JobsOKStays DEF Kept
<1>3. CASE /\ doc # None /\ doc' = [doc EXCEPT !.deleted = TRUE, !.vclock = k]
           /\ base' = deletedBase(k)
  <2>1. k \in Clock /\ k[Self] > docClock[Self] /\ k[Peer] = docClock[Peer] /\ k[Peer] <= remoteClock[Peer]
    BY OwnEdit
  <2>2. doc \in Doc
    BY <1>3 DEF Kept, TypeOK, VaultTypeOK
  <2> HIDE DEF k
  <2>3. doc' \in Doc /\ base' = baseOf(doc') /\ doc'.vclock = k
    BY <1>3, <2>1, <2>2, MarkedType DEF Doc
  <2>4. base'.content = None
    BY <1>3 DEF deletedBase, synced
  <2>5. Unrecorded' => Unrecorded /\ ~explained(owed, base')
    BY <2>4 DEF Unrecorded, explained
  <2>6. k[Peer] >= docClock[Peer]
    BY <2>1, PathClocks DEF Kept
  <2> QED
    <3>1. scan'.doc = scan.doc
      BY DEF Kept, TypeOK, Scan
    <3> QED
      BY <1>1, <2>1, <2>3, <2>5, <2>6, <3>1, EditKeeps DEF JobDocsStay
<1> QED
  <2>1. doc # None => deletedBase(doc.vclock) \in Baseline
    BY DEF Kept, TypeOK, VaultTypeOK, Doc, deletedBase, synced, Baseline
  <2>2. doc # None /\ doc.deleted => deletedBase(doc.vclock) = baseOf(doc) /\ baseOf(doc) \in Held
    BY HeldDocs DEF baseOf, Kept
  <2>3. deletedBase(doc.vclock).content = None
    BY DEF deletedBase, synced
  <2> QED
    BY <1>2, <1>3, <2>2, <2>3 DEF MarkDeleted

LEMMA TrackerKeeps == ASSUME Kept, TypeOK', RaceFree, Tracker PROVE Kept'
<1>1. pulling = None
  BY NobodyInside DEF Tracker, Caller
<1>2. UNCHANGED <<remote, conflict, shown, scan, pulling>>
  BY DEF Tracker, pullVars, dialogs
<1>3. CASE TimerFires
  <2>1. UNCHANGED <<disk, doc, base, owed, owedAt, job>>
    BY <1>3 DEF TimerFires, history
  <2> QED
    BY <1>2, <2>1, QuietKeeps, JobsAfterSame, ScanStays, ShownStays DEF Quiet, Kept
<1>4. CASE DeleteEvent
  <2>1. MarkDeleted /\ UNCHANGED <<disk, job, owed, owedAt>>
    BY <1>4 DEF DeleteEvent
  <2>2. scan' = [scan EXCEPT !.stage = scan'.stage]
    BY <1>2 DEF Kept, TypeOK, Scan
  <2> QED
    BY <1>1, <1>2, <2>1, <2>2, MarkDeletedKeeps
<1>5. CASE \E r \in recording : CommitRead(r)
  BY <1>1, <1>2, <1>5, CommitReadKeeps
<1> QED
  BY <1>3, <1>4, <1>5 DEF Tracker

-----------------------------------------------------------------------------
(* The server, and the pull. *)

LEMMA OwedNoMoreKeeps ==
  ASSUME OwedOK, NEW s, OwedNoMore(s), disk' = disk, base' = base,
         owedAt' # None => doc' # None /\ Includes(doc'.vclock, owedAt')
  PROVE  OwedOK' /\ (Unrecorded' => Unrecorded)
  BY DEF OwedOK, OwedNoMore, Unrecorded, explained, Includes

LEMMA DeliverKeeps == ASSUME Kept, TypeOK', RaceFree, Deliver PROVE Kept'
<1>1. pulling = None
  BY NobodyInside DEF Deliver, Caller
<1>2. UNCHANGED <<disk, doc, base, job, conflict, shown, scan, pulling>>
  BY DEF Deliver, dialogs, scanVars
<1>3. Held' \subseteq Held /\ JobsGoOn
  BY <1>2, HeldShrinks, JobsAfterSame, ScanStays, ShownStays DEF Kept
<1>4. VersionsOK'
  BY <1>2, <1>3, DeliveredVersion DEF Deliver, Kept
<1>5. owedAt' # None => doc' # None /\ Includes(doc'.vclock, owedAt')
  BY <1>2 DEF Deliver, OwedNoMore, Kept, OwedOK
<1>6. OwedOK' /\ (Unrecorded' => Unrecorded)
  BY <1>2, <1>5, OwedNoMoreKeeps DEF Deliver, Kept
<1> QED
  BY <1>1, <1>2, <1>3, <1>4, <1>6, JobsOKStays DEF Kept, PullStands

LEMMA PeerWritesKeeps == ASSUME Kept, TypeOK', RaceFree, PeerWrites PROVE Kept'
<1>1. pulling = None
  BY NobodyInside DEF PeerWrites, Caller
<1>2. UNCHANGED <<vaultVars, conflict, shown, scan, pulling>>
  BY DEF PeerWrites, dialogs, scanVars
<1>3. UNCHANGED <<disk, doc, base, job, owed, owedAt>>
  BY <1>2 DEF vaultVars, history
<1>4. Held' \subseteq Held /\ JobsGoOn
  BY <1>2, <1>3, HeldShrinks, JobsAfterSame, ScanStays, ShownStays DEF Kept
<1>5. PICK c \in Content, gone \in BOOLEAN :
         remote' = [content |-> c, deleted |-> gone, vclock |-> incrementVC(remoteClock, Peer)]
  BY DEF PeerWrites, remoteClock
<1>6. remoteClock \in Clock
  BY PathClocks DEF Kept
<1>7. remote' \in Doc /\ remote'.vclock[Self] = remoteClock[Self]
      /\ remote'.vclock[Peer] = remoteClock[Peer] + 1
  BY <1>5, <1>6, EditClock DEF Doc
<1>8. VersionsOK'
  BY <1>2, <1>3, <1>4, <1>7, PeerVersion DEF Kept
<1>9. OwedOK' /\ (Unrecorded' => Unrecorded)
  BY <1>3 DEF Kept, OwedOK, Unrecorded, explained, Includes
<1> QED
  BY <1>1, <1>2, <1>4, <1>8, <1>9, JobsOKStays DEF Kept, PullStands

LEMMA PullJudgeKeeps == ASSUME Kept, TypeOK', PullJudge PROVE Kept'
<1>1. UNCHANGED <<vaultVars, remote, shown, scan>> /\ remote # None
  BY DEF PullJudge, scanVars
<1>2. UNCHANGED <<disk, doc, base, job, owed, owedAt>>
  BY <1>1 DEF vaultVars, history
<1>3. Held' \subseteq Held /\ JobsGoOn
  BY <1>1, <1>2, HeldShrinks, JobsAfterSame, ScanStays, ShownStays DEF Kept
<1>4. \/ conflict' = conflict
      \/ conflict' = remote
  BY DEF PullJudge, saveEmptyPullBatch
<1>5. pulling' = None \/ pulling' = acceptedOnPull(doc, remote)
  BY DEF PullJudge, saveEmptyPullBatch
<1>6. VersionsOK'
  <2>1. CASE conflict' = conflict
    BY <1>1, <1>2, <1>3, <2>1, NothingNew DEF Kept
  <2>2. CASE conflict' = remote
    <3>1. docClock' = docClock /\ remoteClock' = remoteClock
      BY <1>1, <1>2 DEF docClock, remoteClock
    <3>2. HeldOK'
      BY <1>2, <1>3, <3>1 DEF Kept, VersionsOK, HeldOK, NotAfter
    <3>3. Told' \subseteq Told
      BY <1>1, <2>2 DEF Told, baseOf, synced, deletedBase
    <3>4. OneState'
      BY <1>3, <3>3 DEF Kept, VersionsOK, OneState
    <3>5. Includes(remote.vclock, remote.vclock)
      BY <1>1, ClockPair DEF Kept, TypeOK, Doc
    <3>6. RemoteAhead'
      BY <1>1, <2>2, <3>1, <3>5 DEF Kept, VersionsOK, RemoteAhead
    <3> QED
      BY <3>2, <3>4, <3>6 DEF VersionsOK
  <2> QED
    BY <1>4, <2>1, <2>2
<1>7. PullStands'
  BY <1>1, <1>2, <1>5 DEF PullStands, acceptedOnPull
<1>8. OwedOK' /\ (Unrecorded' => Unrecorded)
  BY <1>2 DEF Kept, OwedOK, Unrecorded, explained, Includes
<1> QED
  BY <1>3, <1>6, <1>7, <1>8, JobsOKStays DEF Kept

LEMMA PullCommitKeeps == ASSUME Kept, TypeOK', PullCommit PROVE Kept'
<1>1. UNCHANGED <<disk, base, remote, conflict, shown, scan>> /\ doc' = pulling /\ pulling' = None
      /\ pulling # None
  BY DEF PullCommit, commitPullBatch, dialogs, scanVars
<1>2. remote # None /\ doc' = acceptedOnPull(doc, remote) /\ doc' # None /\ doc' \in Doc
  BY <1>1 DEF Kept, PullStands, TypeOK
<1>3. JobsGoOn /\ \A j \in Caller : job'[j] # None => job'[j].doc \in docsHeld \/ job'[j].doc = doc'
  BY <1>1, <1>2, JobsAfterStart DEF PullCommit, Caller, Kept
<1>4. Held' \subseteq Held \cup {baseOf(doc')}
  <2> DEFINE V == {baseOf(doc')}
  <2>1. baseOf(doc') \in V
    OBVIOUS
  <2>2. \A j \in Caller : job'[j] # None => job'[j].doc \in docsHeld \/ baseOf(job'[j].doc) \in V
    BY <1>3, <2>1 DEF baseOf, synced, deletedBase
  <2>3. scan'.doc # None => scan'.doc \in docsHeld
    BY <1>1, ScanStays DEF Kept
  <2>4. shown' # None => shown'.doc \in docsHeld
    BY <1>1, ShownStays DEF Kept
  <2> HIDE DEF V
  <2>5. Held' \subseteq Held \cup V
    BY <1>1, <2>1, <2>2, <2>3, <2>4, HeldAfter, Zenon DEF Kept
  <2> QED
    BY <2>5 DEF V
<1>5. VersionsOK'
  BY <1>1, <1>2, <1>4, TakenVersion DEF Kept
<1>6. PullStands'
  BY <1>1 DEF PullStands
<1>7. owedAt # None => Includes(doc'.vclock, owedAt)
  <2> SUFFICES ASSUME owedAt # None PROVE Includes(doc'.vclock, owedAt)
    OBVIOUS
  <2>1. doc # None /\ Includes(docClock, owedAt) /\ owedAt \in Clock
    BY DEF Kept, OwedOK, docClock, TypeOK, VaultTypeOK
  <2>2. doc'.vclock[Self] = docClock[Self] /\ doc'.vclock[Peer] = remoteClock[Peer]
    BY <1>2, Accepted DEF Kept
  <2>3. doc'.vclock \in Clock
    BY <1>2 DEF Doc
  <2>4. Includes(doc'.vclock, docClock)
    BY <2>2, <2>3, ClockPair, PathClocks DEF Kept, VersionsOK, RemoteAhead
  <2> QED
    BY <2>1, <2>3, <2>4, IncludesTrans, PathClocks DEF Kept
<1>8. OwedOK' /\ (Unrecorded' => Unrecorded)
  <2>1. PICK s : OwedNoMore(s)
    BY DEF PullCommit
  <2>2. owedAt' # None => doc' # None /\ Includes(doc'.vclock, owedAt')
    BY <1>2, <1>7, <2>1 DEF OwedNoMore
  <2> QED
    BY <1>1, <2>1, <2>2, OwedNoMoreKeeps DEF Kept
<1> QED
  BY <1>3, <1>5, <1>6, <1>8, JobsOKStays DEF Kept

-----------------------------------------------------------------------------
(* dbToFile. *)

LEMMA LookMeans ==
  ASSUME NEW d \in Doc
  PROVE  /\ vaultWrite(disk, d, base) = "keep"
              => (d.deleted /\ disk = None) \/ (~d.deleted /\ disk = d.content)
         /\ vaultWrite(disk, d, base) = "write" => disk = None \/ explained(disk, base)
<1>1. CASE d.deleted /\ disk = None
  BY <1>1 DEF vaultWrite
<1>2. CASE ~d.deleted /\ disk = d.content
  BY <1>2 DEF vaultWrite
<1>3. CASE (d.deleted /\ disk # None) \/ (~d.deleted /\ disk # d.content)
  <2>1. vaultWrite(disk, d, base) = IF unsyncedVaultChange(disk, d, base) THEN "decline" ELSE "write"
    BY <1>3 DEF vaultWrite
  <2> QED
    BY <2>1 DEF unsyncedVaultChange
<1> QED
  BY <1>1, <1>2, <1>3 DEF Doc

LEMMA ApplyFrame ==
  ASSUME Kept, TypeOK', Apply, doc' = doc, JobDocsStay, base' \in Held \cup {base}
  PROVE  VersionsOK' /\ PullStands'
<1>1. UNCHANGED <<remote, conflict, shown, scan, pulling>>
  BY DEF Apply, pullVars, dialogs, scanVars
<1>2. scan' = [scan EXCEPT !.stage = scan'.stage]
  BY <1>1 DEF Kept, TypeOK, Scan
<1> QED
  BY <1>1, <1>2, BaseKeeps

LEMMA CheckDiskKeeps ==
  ASSUME Kept, TypeOK', Apply, NEW k \in Caller, CheckDisk(k)
  PROVE  Kept'
<1>1. UNCHANGED <<disk, doc, base>> /\ job[k] # None
  BY DEF CheckDisk, at
<1>2. /\ job[k] \in Job /\ job[k].doc \in Doc /\ job[k].over \in BOOLEAN
      /\ verdict(job[k]) \in {"keep", "write", "decline"}
      /\ afterLook(job[k]) = CASE verdict(job[k]) = "keep"    -> "baseline"
                               [] verdict(job[k]) = "write"   -> "write"
                               [] verdict(job[k]) = "decline" -> "declined"
      /\ afterLook(job[k]) \in {"baseline", "write", "declined"}
  BY <1>1, VerdictOf, VaultTypes DEF Kept, TypeOK, VaultTypeOK, Job
<1>3. job' = [job EXCEPT ![k].stage = afterLook(job[k]), ![k].had = disk # None]
  BY DEF CheckDisk
<1>4. /\ job'[k].stage = afterLook(job[k]) /\ job'[k].over = job[k].over
      /\ \A j \in Caller \ {k} : job'[j] = job[j]
      /\ JobDocsStay
  BY <1>1, <1>2, <1>3, JobMoves, JobDocsAfterMove DEF Kept, TypeOK
<1>5. VersionsOK' /\ PullStands'
  BY <1>1, <1>4, ApplyFrame
<1>6. CASE verdict(job[k]) = "keep"
  <2>1. OwedNoMore(~job[k].doc.deleted /\ owed = disk)
    BY <1>2, <1>6 DEF CheckDisk, Integrated
  <2>2. OwedOK' /\ (Unrecorded' => Unrecorded)
    BY <1>1, <2>1, OwedNoMoreKeeps DEF OwedNoMore, Kept, OwedOK
  <2>3. vaultWrite(disk, job[k].doc, base) = "keep"
    BY <1>6 DEF verdict
  <2>4. ~Unrecorded'
    <3>1. Unrecorded => ~job[k].doc.deleted /\ owed = disk
      BY <1>2, <2>3, LookMeans DEF Kept, OwedOK, Unrecorded
    <3> QED
      BY <2>1, <2>2, <3>1 DEF OwedNoMore, Unrecorded
  <2> QED
    BY <1>5, <2>2, <2>4 DEF Kept, JobsOK
<1>7. CASE verdict(job[k]) # "keep"
  <2>1. owed' = owed /\ owedAt' = owedAt
    BY <1>7 DEF CheckDisk, history
  <2>2. OwedOK' /\ (Unrecorded' <=> Unrecorded)
    BY <1>1, <2>1 DEF Kept, OwedOK, Unrecorded, explained, Includes
  <2>3. job'[k].stage = "write" /\ ~job[k].over => ~Unrecorded
    <3> SUFFICES ASSUME job'[k].stage = "write", ~job[k].over PROVE ~Unrecorded
      OBVIOUS
    <3>1. verdict(job[k]) = "write"
      BY <1>2, <1>4, <1>7
    <3>2. vaultWrite(disk, job[k].doc, base) = "write"
      BY <3>1 DEF verdict
    <3> QED
      BY <1>2, <3>2, LookMeans DEF Kept, OwedOK, Unrecorded
  <2>4. job'[k].stage # "baseline"
    BY <1>2, <1>4, <1>7
  <2>5. JobsOK'
    BY <1>4, <2>2, <2>3, <2>4 DEF Kept, JobsOK, at
  <2> QED
    BY <1>5, <2>2, <2>5 DEF Kept
<1> QED
  BY <1>6, <1>7

LEMMA WriteDiskKeeps ==
  ASSUME Kept, TypeOK', Apply, NEW k \in Caller, WriteDisk(k)
  PROVE  Kept'
<1>1. UNCHANGED <<doc, base>> /\ job[k] # None /\ job[k].stage = "write"
      /\ (~job[k].over => ~Unrecorded)
  BY DEF WriteDisk, at, Kept, JobsOK
<1>2. PICK stage \in {"declined", "failed", "baseline"} : job' = [job EXCEPT ![k].stage = stage]
  BY DEF WriteDisk, declinedByWriter
<1>3. /\ job'[k].stage = stage /\ job'[k].over = job[k].over
      /\ \A j \in Caller \ {k} : job'[j] = job[j]
      /\ JobDocsStay
  BY <1>1, <1>2, JobMoves, JobDocsAfterMove DEF Kept, TypeOK
<1>4. VersionsOK' /\ PullStands'
  BY <1>1, <1>3, ApplyFrame
<1>5. CASE UNCHANGED <<disk, history>> /\ stage # "baseline"
  <2>1. OwedOK' /\ (Unrecorded' <=> Unrecorded)
    BY <1>1, <1>5 DEF Kept, OwedOK, Unrecorded, explained, Includes, history
  <2>2. JobsOK'
    BY <1>3, <1>5, <2>1 DEF Kept, JobsOK, at
  <2> QED
    BY <1>4, <2>1, <2>2 DEF Kept
<1>6. CASE OwedNoMore(job[k].over)
  <2>1. ~Unrecorded' /\ owedAt' \in {None, owedAt}
    BY <1>1, <1>6 DEF OwedNoMore, Unrecorded
  <2>2. OwedOK'
    BY <1>1, <2>1 DEF Kept, OwedOK, Includes
  <2> QED
    BY <1>4, <2>1, <2>2 DEF Kept, JobsOK
<1> QED
  <2>1. job[k] \in Job
    BY <1>1 DEF Kept, TypeOK, VaultTypeOK
  <2>2. \A s : job' = [job EXCEPT ![k].stage = s] => s = stage
    BY <1>1, <1>2, <1>3, <2>1 DEF Kept, TypeOK, VaultTypeOK, Job
  <2> QED
    BY <1>5, <1>6, <2>2 DEF WriteDisk, declinedByWriter

LEMMA EstablishBaselineKeeps ==
  ASSUME Kept, TypeOK', Apply, NEW k \in Caller, EstablishBaseline(k)
  PROVE  Kept'
<1>1. UNCHANGED <<disk, doc, owed, owedAt>> /\ job[k] # None /\ ~Unrecorded
      /\ base' = baseOf(job[k].doc) /\ job' = [job EXCEPT ![k].stage = "applied"]
  BY DEF EstablishBaseline, at, Kept, JobsOK, history
<1>2. base' \in Held /\ JobDocsStay
  BY <1>1, HeldDocs, JobDocsAfterMove DEF Kept
<1>3. VersionsOK' /\ PullStands'
  BY <1>1, <1>2, ApplyFrame
<1>4. OwedOK' /\ ~Unrecorded'
  BY <1>1 DEF Kept, OwedOK, Unrecorded, Includes
<1> QED
  BY <1>3, <1>4 DEF Kept, JobsOK

LEMMA ApplyKeeps == ASSUME Kept, TypeOK', Apply PROVE Kept'
<1>1. PICK k \in Caller : JobStep(k) \/ JobFails(k)
  BY DEF Apply
<1>2. CASE JobFails(k)
  <2>1. UNCHANGED <<disk, doc, base, owed, owedAt>> /\ job[k] # None
        /\ job' = [job EXCEPT ![k].stage = "failed"]
    BY <1>2 DEF JobFails, at, history
  <2>2. /\ job'[k].stage = "failed" /\ \A j \in Caller \ {k} : job'[j] = job[j]
        /\ JobDocsStay
    BY <2>1, JobMoves, JobDocsAfterMove DEF Kept, TypeOK
  <2>3. UNCHANGED <<remote, conflict, shown, scan, pulling>>
    BY DEF Apply, pullVars, dialogs, scanVars
  <2>4. JobsGoOn
    BY <2>2 DEF JobsGoOn
  <2> QED
    BY <2>1, <2>2, <2>3, <2>4, QuietKeeps, ScanStays, ShownStays DEF Quiet, Kept
<1> QED
  BY <1>1, <1>2, CheckDiskKeeps, WriteDiskKeeps, EstablishBaselineKeeps DEF JobStep

-----------------------------------------------------------------------------
(* The reconcile. *)

LEMMA AlignsSameClock ==
  ASSUME TypeOK, chosen = "align"
  PROVE  baseClock(base) = scan.doc.vclock
<1> DEFINE rel == relationOfFile(disk, scan.doc, base)
<1>1. disk \in Content /\ scan.has /\ scan.doc \in Doc
  BY Chosen DEF TypeOK, VaultTypeOK
<1>2. chosen = decisionForFile(disk, scan.doc, base) /\ scan.doc # None
  BY <1>1, NoneIsNothingElse DEF chosen, reconcileDecision
<1>3. rel \in {"identical", "vclock-only-drift", "remote-edit", "local-edit", "true-divergent"}
  BY <1>1, RelationOfFileIs DEF TypeOK, VaultTypeOK
<1>4. rel = "identical"
  BY <1>2, <1>3 DEF decisionForFile
<1>5. compareVC(diskVersion(disk, base).vclock, scan.doc.vclock) = "equal"
  <2>1. compareVC(diskVersion(disk, base).vclock, scan.doc.vclock)
          \in {"equal", "dominates", "dominated", "concurrent"}
    BY DEF compareVC
  <2>2. CASE sameState(diskVersion(disk, base), scan.doc)
    BY <1>4, <2>1, <2>2 DEF relationOfFile
  <2>3. CASE ~sameState(diskVersion(disk, base), scan.doc)
    BY <1>4, <2>1, <2>3 DEF relationOfFile
  <2> QED
    BY <2>2, <2>3
<1>6. diskVersion(disk, base).vclock = baseClock(base)
  BY DEF diskVersion
<1>7. baseClock(base) \in Clock /\ scan.doc.vclock \in Clock
  BY <1>1, ZeroIsClock DEF baseClock, TypeOK, VaultTypeOK, Baseline, Doc
<1> QED
  BY <1>5, <1>6, <1>7, CompareIsOrder

\* A baseline the reconcile aligns says already what it should.
LEMMA AlignChangesNothing ==
  ASSUME Kept, chosen = "align", Align(scan.doc)
  PROVE  base' = base
<1>1. baseClock(base) = scan.doc.vclock /\ scan.doc \in Doc /\ scan.doc # None /\ ~scan.doc.deleted
  BY AlignsSameClock, Chosen, NoneIsNothingElse DEF Kept
<1>2. /\ baseOf(scan.doc) \in Held /\ baseOf(scan.doc).vclock = scan.doc.vclock
      /\ baseOf(scan.doc).content = scan.doc.content
  BY <1>1, HeldDocs, BaseOfType DEF Kept
<1>3. base # None
  BY <1>1, <1>2, HeldBehind DEF Kept, baseClock
<1>4. base = baseOf(scan.doc)
  <2>1. base \in Held /\ base.vclock = baseOf(scan.doc).vclock
    BY <1>1, <1>2, <1>3, HeldDocs DEF Kept, baseClock
  <2> QED
    BY <1>2, <2>1 DEF Kept, VersionsOK, OneState
<1> QED
  BY <1>2, <1>3, <1>4 DEF Align, AlignLastSyncedToDoc

LEMMA ScanActKeeps == ASSUME Kept, TypeOK', RaceFree, ScanAct PROVE Kept'
<1>1. pulling = None /\ pulling' = None
  BY Closed DEF ScanAct, pullVars
<1>2. UNCHANGED <<remote, conflict, pulling>> /\ scan' = [scan EXCEPT !.stage = scan'.stage]
      /\ scan'.doc = scan.doc
  BY DEF ScanAct, pullVars, Kept, TypeOK, Scan
<1>3. scan'.doc # None => scan'.doc \in docsHeld
  BY <1>2, HeldDocs DEF Kept
<1>4. ASSUME UNCHANGED <<disk, doc, base, owed, owedAt, job>>,
             shown' # None => shown'.doc \in docsHeld
      PROVE  Kept'
  BY <1>2, <1>3, <1>4, QuietKeeps, JobsAfterSame DEF Quiet, Kept
<1>5. CASE UNCHANGED <<vaultVars, shown>>
  BY <1>4, <1>5, ShownStays DEF vaultVars, history, Kept
<1>6. CASE UNCHANGED <<disk, doc, base, job, history, shown>>
  BY <1>4, <1>6, ShownStays DEF history, Kept
<1>7. CASE chosen = "align" /\ Align(scan.doc) /\ UNCHANGED shown
  <2>1. base' = base
    BY <1>7, AlignChangesNothing
  <2> QED
    BY <1>4, <1>7, <2>1, ShownStays DEF Align, history, Kept
<1>8. CASE chosen = "adopt" /\ Adopt(scan.doc) /\ UNCHANGED shown
  <2>1. scan.doc \in Doc /\ scan.doc # None /\ ~scan.doc.deleted
    BY <1>8, Chosen, NoneIsNothingElse DEF Kept
  <2>2. base' = baseOf(scan.doc) /\ base' \in Held
    BY <1>8, <2>1, HeldDocs DEF Adopt, AdoptDocVclock, baseOf, Kept
  <2>3. UNCHANGED <<disk, doc, job>> /\ OwedNoMore(owed = disk)
    BY <1>8, <2>1 DEF Adopt, Integrated, OwedNoMore
  <2>4. JobsGoOn /\ JobDocsStay
    BY <2>3, JobsAfterSame DEF Kept
  <2>5. VersionsOK' /\ PullStands'
    BY <1>2, <1>8, <2>2, <2>3, <2>4, BaseKeeps
  <2>6. ~Unrecorded'
    BY <2>3 DEF OwedNoMore, Unrecorded, Kept, OwedOK
  <2>7. OwedOK'
    BY <2>3, <2>6 DEF OwedNoMore, Kept, OwedOK, Includes
  <2> QED
    BY <2>4, <2>5, <2>6, <2>7, JobsOKStays DEF Kept
<1>9. CASE /\ chosen = "apply" /\ Start("scan", scan.doc, FALSE)
           /\ UNCHANGED <<disk, doc, base, history, shown>>
  <2>1. scan.doc \in Doc /\ scan.doc \in docsHeld
    BY <1>9, Chosen, HeldDocs, NoneIsNothingElse DEF Kept
  <2>2. JobsGoOn /\ JobDocsStay
    BY <1>9, <2>1, JobsAfterStart DEF JobDocsStay, Caller, Kept
  <2> QED
    BY <1>2, <1>3, <1>9, <2>2, QuietKeeps, ShownStays DEF Quiet, history, Kept
<1>10. CASE MarkDeleted /\ UNCHANGED <<disk, job, owed, owedAt, shown>>
  BY <1>1, <1>2, <1>10, MarkDeletedKeeps
<1>11. CASE /\ chosen = "conflict" /\ UNCHANGED vaultVars
            /\ \/ shown' = [doc |-> scan.doc, file |-> IF scan.has THEN disk ELSE None]
               \/ UNCHANGED shown
  <2>1. scan.doc \in docsHeld
    BY <1>11, Chosen, HeldDocs, NoneIsNothingElse DEF Kept
  <2>2. shown' # None => shown'.doc \in docsHeld
    BY <1>11, <2>1, ShownStays DEF Kept
  <2> QED
    BY <1>4, <1>11, <2>2 DEF vaultVars, history
<1> QED
  BY <1>5, <1>6, <1>7, <1>8, <1>9, <1>10, <1>11 DEF ScanAct

-----------------------------------------------------------------------------
(* The dialogs. *)

LEMMA AnswerKeeps == ASSUME Kept, TypeOK', RaceFree, Answer PROVE Kept'
<1> DEFINE k == incrementVC(docClock, Self)
<1>1. pulling = None /\ pulling' = None
  BY Closed DEF Answer, pullVars
<1>2. UNCHANGED <<remote, conflict, pulling, scan>> /\ shown' = None
  BY DEF Answer, pullVars
<1>3. CASE UNCHANGED vaultVars
  <2>1. UNCHANGED <<disk, doc, base, owed, owedAt, job>>
    BY <1>3 DEF vaultVars, history
  <2> QED
    BY <1>2, <2>1, QuietKeeps, JobsAfterSame, ScanStays DEF Quiet, Kept
<1>4. CASE TakeDocToVault(shown.doc)
  <2>1. doc \in Doc /\ doc \in docsHeld
    BY <1>4, HeldDocs DEF TakeDocToVault, stands, Kept, TypeOK, VaultTypeOK
  <2>2. JobsGoOn /\ JobDocsStay
    BY <1>4, <2>1, JobsAfterStart DEF TakeDocToVault, JobDocsStay, Caller, Kept
  <2> QED
    BY <1>2, <1>4, <2>2, QuietKeeps, ScanStays DEF TakeDocToVault, Quiet, history, Kept
<1>5. k \in Clock /\ k[Self] > docClock[Self] /\ k[Peer] = docClock[Peer]
      /\ k[Peer] <= remoteClock[Peer] /\ k[Peer] >= docClock[Peer]
  BY OwnEdit, PathClocks DEF Kept
<1>6. CASE KeepFile(shown.doc)
  <2>1. /\ doc' = alive(disk, k) /\ base' = synced(disk, k) /\ disk \in Content
        /\ owed' = owed /\ owedAt' = IF owed = disk THEN k ELSE owedAt
        /\ UNCHANGED <<disk, job>>
    BY <1>6 DEF KeepFile, Recorded, Kept, TypeOK, VaultTypeOK
  <2>2. JobsGoOn /\ JobDocsStay
    BY <2>1, JobsAfterSame DEF Kept
  <2> HIDE DEF k
  <2>3. doc' \in Doc /\ base' = baseOf(doc') /\ doc'.vclock = k
    BY <1>5, <2>1, AliveType DEF alive
  <2>4. ~Unrecorded'
    BY <1>5, <2>1, NoneIsNothingElse DEF Unrecorded, Kept, OwedOK
  <2>5. owed' \in {None, owed} /\ owedAt' \in {None, owedAt, k}
    BY <2>1
  <2> QED
    BY <1>1, <1>2, <1>5, <2>1, <2>2, <2>3, <2>4, <2>5, EditKeeps DEF JobDocsStay
<1>7. CASE KeepDeletion(shown.doc)
  <2>1. /\ doc' = [doc EXCEPT !.deleted = TRUE, !.vclock = k] /\ base' = deletedBase(k)
        /\ doc \in Doc /\ UNCHANGED <<disk, job, owed, owedAt>>
    BY <1>7 DEF KeepDeletion, stands, Kept, TypeOK, VaultTypeOK
  <2>2. JobsGoOn /\ JobDocsStay
    BY <2>1, JobsAfterSame DEF Kept
  <2> HIDE DEF k
  <2>3. doc' \in Doc /\ base' = baseOf(doc') /\ doc'.vclock = k
    BY <1>5, <2>1, MarkedType DEF Doc
  <2>4. base'.content = None
    BY <2>1 DEF deletedBase, synced
  <2>5. Unrecorded' => Unrecorded /\ ~explained(owed, base')
    BY <2>1, <2>4 DEF Unrecorded, explained
  <2> QED
    BY <1>1, <1>2, <1>5, <2>1, <2>2, <2>3, <2>5, EditKeeps DEF JobDocsStay
<1> QED
  BY <1>3, <1>4, <1>6, <1>7 DEF Answer, KeepVault, TakeDoc

\* The version of a conflict that its dialog may take.
LEMMA ConflictIsAhead ==
  ASSUME Kept, conflict # None, resolveOnPull(doc, conflict) = "concurrent"
  PROVE  /\ doc \in Doc /\ conflict \in Doc
         /\ conflict.vclock[Self] <= docClock[Self] /\ conflict.vclock[Peer] > docClock[Peer]
         /\ conflict.vclock[Self] = remoteClock[Self] /\ conflict.vclock[Peer] <= remoteClock[Peer]
<1>1. doc \in Doc /\ conflict \in Doc /\ doc # None
  BY DEF resolveOnPull, Kept, TypeOK, VaultTypeOK
<1>2. doc.vclock = docClock /\ conflict.vclock \in Clock
  BY <1>1 DEF docClock, Doc
<1>3. baseOf(conflict) \in Told /\ baseOf(conflict).vclock = conflict.vclock
  BY <1>1, HeldDocs, BaseOfType DEF Kept
<1>4. /\ conflict.vclock[Self] <= docClock[Self] /\ conflict.vclock[Peer] <= remoteClock[Peer]
      /\ conflict.vclock[Self] \in Nat /\ conflict.vclock[Peer] \in Nat
  BY <1>2, <1>3, ToldBehind, ClockPair DEF Kept
<1>5. ~sameState(doc, conflict)
      /\ (Concurrent(docClock, conflict.vclock) \/ docClock = conflict.vclock)
  BY <1>1, <1>2, Verdicts
<1>6. docClock # conflict.vclock
  <2> SUFFICES ASSUME docClock = conflict.vclock PROVE FALSE
    OBVIOUS
  <2>1. baseOf(doc) \in Held /\ baseOf(doc).vclock = docClock
    BY <1>1, <1>2, HeldDocs, BaseOfType DEF Kept
  <2>2. baseOf(doc) = baseOf(conflict)
    BY <1>3, <2>1 DEF Kept, VersionsOK, OneState
  <2>3. (IF doc.deleted THEN None ELSE doc.content) = IF conflict.deleted THEN None ELSE conflict.content
    BY <1>1, <2>2, BaseOfType
  <2>4. doc.content \in Content /\ conflict.content \in Content
        /\ doc.deleted \in BOOLEAN /\ conflict.deleted \in BOOLEAN
    BY <1>1 DEF Doc
  <2> QED
    BY <1>5, <2>3, <2>4, NoneIsNothingElse DEF sameState
<1>7. conflict.vclock[Peer] > docClock[Peer]
  BY <1>2, <1>4, <1>5, <1>6, ClockPair, PathClocks DEF Concurrent, Kept
<1> QED
  BY <1>1, <1>4, <1>7 DEF Kept, VersionsOK, RemoteAhead, remoteClock

LEMMA AnswerPullKeeps == ASSUME Kept, TypeOK', RaceFree, AnswerPull PROVE Kept'
<1> DEFINE k == decidedClock(doc, conflict)
<1>1. pulling = None /\ pulling' = None
  BY Closed DEF AnswerPull, pullVars
<1>2. UNCHANGED <<remote, pulling, shown, scan>> /\ conflict' = None /\ conflict # None
  BY DEF AnswerPull, pullVars, scanVars
<1>3. CASE UNCHANGED vaultVars
  <2>1. UNCHANGED <<disk, doc, base, owed, owedAt, job>>
    BY <1>3 DEF vaultVars, history
  <2> QED
    BY <1>2, <2>1, QuietKeeps, JobsAfterSame, ScanStays, ShownStays DEF Quiet, Kept
<1>4. CASE resolveOnPull(doc, conflict) = "concurrent" /\ (KeepLocalDoc(conflict) \/ TakeRemoteDoc(conflict))
  <2>1. /\ doc \in Doc /\ conflict \in Doc
        /\ conflict.vclock[Self] <= docClock[Self] /\ conflict.vclock[Peer] > docClock[Peer]
        /\ conflict.vclock[Self] = remoteClock[Self] /\ conflict.vclock[Peer] <= remoteClock[Peer]
    BY <1>2, <1>4, ConflictIsAhead
  <2>2. doc.vclock = docClock /\ conflict.vclock \in Clock
        /\ conflict.vclock[Self] \in Nat /\ conflict.vclock[Peer] \in Nat
    BY <2>1, NoneIsNothingElse, ClockPair DEF docClock, Doc
  <2>3. k \in Clock /\ k[Self] > docClock[Self] /\ k[Peer] >= docClock[Peer]
        /\ k[Peer] <= remoteClock[Peer]
    BY <2>1, <2>2, DecidedClock, PathClocks DEF Kept
  <2> HIDE DEF k
  <2>4. CASE KeepLocalDoc(conflict)
    <3>1. doc' = [doc EXCEPT !.vclock = k] /\ UNCHANGED <<disk, owed, owedAt>>
      BY <2>4 DEF KeepLocalDoc, k
    <3>2. doc' \in Doc /\ doc'.vclock = k /\ baseOf(doc') = synced(baseOf(doc).content, k)
      BY <2>1, <2>3, <3>1, MarkedType DEF Doc
    <3>3. CASE baselineHoldsContent(doc)
      <4>1. base' = baseOf(doc') /\ UNCHANGED job
        BY <2>4, <3>3 DEF KeepLocalDoc
      <4>2. base # None /\ baseOf(doc').content = base.content
        BY <2>1, <3>2, <3>3, BaseOfType DEF baselineHoldsContent, synced
      <4>3. JobsGoOn /\ JobDocsStay
        BY <4>1, JobsAfterSame DEF Kept
      <4>4. Unrecorded' => Unrecorded /\ ~explained(owed, base')
        BY <3>1, <4>1, <4>2 DEF Unrecorded, Kept, OwedOK, explained
      <4> QED
        BY <1>1, <1>2, <2>3, <3>1, <3>2, <4>1, <4>3, <4>4, EditKeeps DEF JobDocsStay
    <3>4. CASE ~baselineHoldsContent(doc)
      <4>1. base' = base /\ Start("dialog", doc', FALSE)
        BY <2>4, <3>4 DEF KeepLocalDoc
      <4>2. JobsGoOn /\ \A j \in Caller : job'[j] # None => job'[j].doc \in docsHeld \/ job'[j].doc = doc'
        BY <3>2, <4>1, JobsAfterStart DEF Caller, Kept
      <4>3. Unrecorded' => Unrecorded /\ ~explained(owed, base')
        BY <3>1, <4>1 DEF Unrecorded, Kept, OwedOK, explained
      <4> QED
        BY <1>1, <1>2, <2>3, <3>1, <3>2, <4>1, <4>2, <4>3, EditKeeps
    <3> QED
      BY <3>3, <3>4
  <2>5. CASE TakeRemoteDoc(conflict)
    <3>1. /\ doc' = IF conflict.deleted THEN [conflict EXCEPT !.vclock = k] ELSE conflict
          /\ Start("dialog", doc', FALSE) /\ UNCHANGED <<disk, base>>
      BY <2>5 DEF TakeRemoteDoc, k
    <3>2. owed' \in {None, owed} /\ owedAt' = None /\ (Unrecorded' => Unrecorded)
      BY <2>5 DEF TakeRemoteDoc, OwedNoMore, Unrecorded
    <3>3. Unrecorded' => Unrecorded /\ ~explained(owed, base')
      BY <3>1, <3>2 DEF Kept, OwedOK, explained
    <3>4. doc' \in Doc
      BY <2>1, <2>3, <3>1, MarkedType
    <3>5. JobsGoOn /\ \A j \in Caller : job'[j] # None => job'[j].doc \in docsHeld \/ job'[j].doc = doc'
      BY <3>1, <3>4, JobsAfterStart DEF Caller, Kept
    <3>6. CASE conflict.deleted
      <4>1. doc'.vclock = k
        BY <2>1, <3>1, <3>6 DEF Doc
      <4> QED
        BY <1>1, <1>2, <2>3, <3>1, <3>2, <3>3, <3>4, <3>5, <4>1, EditKeeps
    <3>7. CASE ~conflict.deleted
      <4>1. doc' = conflict
        BY <3>1, <3>7
      <4>2. Held' \subseteq Held \cup {baseOf(conflict)}
        <5> DEFINE V == {baseOf(conflict)}
        <5>1. baseOf(conflict) \in V
          OBVIOUS
        <5>2. baseOf(doc') \in V /\ \A j \in Caller : job'[j] # None
                => job'[j].doc \in docsHeld \/ baseOf(job'[j].doc) \in V
          BY <3>5, <4>1, <5>1 DEF baseOf, synced, deletedBase
        <5>3. scan'.doc # None => scan'.doc \in docsHeld
          BY <1>2, ScanStays DEF Kept
        <5>4. shown' # None => shown'.doc \in docsHeld
          BY <1>2, ShownStays DEF Kept
        <5> HIDE DEF V
        <5>5. Held' \subseteq Held \cup V
          BY <3>1, <5>2, <5>3, <5>4, HeldAfter, Zenon DEF Kept
        <5> QED
          BY <5>5 DEF V
      <4>3. OneState'
        <5>1. Told' \subseteq Told
          BY <1>2 DEF Told, baseOf, synced, deletedBase
        <5>2. baseOf(conflict) \in Told
          BY <1>2, HeldDocs DEF Kept
        <5>3. Held' \cup Told' \subseteq Held \cup Told
          BY <4>2, <5>1, <5>2
        <5> QED
          BY <5>3 DEF Kept, VersionsOK, OneState
      <4>4. docClock' = conflict.vclock /\ remoteClock' = remoteClock
        BY <1>2, <4>1 DEF docClock, remoteClock
      <4>5. HeldOK'
        <5>1. \A w \in Held : NotAfter(w.vclock, conflict.vclock) /\ w.vclock # ZeroClock
          BY <2>1, <2>2, HeldBehind, ClocksOfVersions, PathClocks DEF Kept, NotAfter
        <5>2. baseOf(conflict).vclock = conflict.vclock /\ conflict.vclock # ZeroClock
              /\ NotAfter(conflict.vclock, conflict.vclock)
          BY <1>2, <2>1, <2>2, BaseOfType DEF NotAfter, Kept, VersionsOK, RemoteAhead
        <5>3. \A w \in Held' : NotAfter(w.vclock, conflict.vclock) /\ w.vclock # ZeroClock
          BY <4>2, <5>1, <5>2
        <5> QED
          BY <1>2, <4>1, <4>4, <5>3 DEF HeldOK, NotAfter
      <4>6. RemoteAhead'
        <5>1. remoteClock[Self] <= conflict.vclock[Self] /\ conflict.vclock[Peer] <= remoteClock[Peer]
          BY <2>1, PathClocks DEF Kept
        <5> QED
          BY <1>2, <4>4, <5>1 DEF Kept, VersionsOK, RemoteAhead
      <4>7. OwedOK'
        BY <3>1, <3>2, <3>3 DEF Kept, OwedOK, Unrecorded
      <4> QED
        BY <1>1, <3>2, <3>5, <4>3, <4>5, <4>6, <4>7, JobsOKStays DEF Kept, VersionsOK, PullStands
    <3> QED
      BY <3>6, <3>7
  <2> QED
    BY <1>4, <2>4, <2>5
<1> QED
  BY <1>3, <1>4 DEF AnswerPull

-----------------------------------------------------------------------------
(* The whole. *)

LEMMA InitKeeps == Init => Kept
<1> SUFFICES ASSUME Init PROVE Kept
  OBVIOUS
<1>1. TypeOK
  BY InitTypes
<1>2. /\ job = [k \in Caller |-> None] /\ owed = None /\ owedAt = None /\ pulling = None
      /\ conflict = None /\ shown = None /\ scan.doc = None
  BY DEF Init, VaultInit, noScan
<1>3. PullStands /\ OwedOK /\ JobsOK
  BY <1>2 DEF PullStands, OwedOK, JobsOK, Unrecorded, at
<1>4. CASE doc = None /\ base = None /\ remote = None
  <2>1. docsHeld = {} /\ Held = {} /\ Told = {}
    BY <1>2, <1>4 DEF docsHeld, Held, Told
  <2>2. RemoteAhead
    BY <1>2, <1>4, PathClocks, <1>1 DEF RemoteAhead, docClock, remoteClock
  <2> QED
    BY <1>1, <1>3, <2>1, <2>2 DEF Kept, VersionsOK, HeldOK, OneState
<1>5. ASSUME NEW c \in Content, NEW clock, clock = incrementVC(ZeroClock, Peer),
             doc = alive(c, clock), base = synced(c, clock), remote = doc
      PROVE  Kept
  <2>1. clock \in Clock /\ clock # ZeroClock
    BY <1>5, ZeroIsClock, EditClock
  <2>2. /\ doc \in Doc /\ base \in Baseline /\ baseOf(doc) = base /\ doc.vclock = clock
        /\ base.vclock = clock
    BY <1>5, <2>1, AliveType DEF alive, synced
  <2>3. docClock = clock /\ remoteClock = clock /\ doc # None /\ remote # None
    BY <1>5, <2>2, NoneIsNothingElse DEF docClock, remoteClock
  <2>4. docsHeld \subseteq {doc} /\ Held \subseteq {base} /\ Told \subseteq {base}
    <3>1. docsHeld \subseteq {doc}
      BY <1>2 DEF docsHeld
    <3> QED
      BY <1>2, <1>5, <2>2, <3>1 DEF Held, Told
  <2>5. HeldOK
    BY <2>1, <2>2, <2>3, <2>4, ClockPair DEF HeldOK, NotAfter
  <2>6. RemoteAhead
    BY <1>1, <1>2, <1>5, <2>1, <2>2, <2>3, PathClocks DEF RemoteAhead
  <2> QED
    BY <1>1, <1>3, <2>4, <2>5, <2>6 DEF Kept, VersionsOK, OneState
<1> QED
  BY <1>4, <1>5 DEF Init, VaultInit

LEMMA StepKeeps == ASSUME RaceFree PROVE Kept /\ [Next]_vars => Kept'
<1> SUFFICES ASSUME Kept, [Next]_vars PROVE Kept'
  OBVIOUS
<1>1. TypeOK'
  BY StepTypes DEF Kept
<1>2. CASE UNCHANGED vars
  <2>1. UNCHANGED <<disk, doc, base, owed, owedAt, job, remote, conflict, shown, scan, pulling>>
    BY <1>2 DEF vars, vaultVars, history, replVars, pullVars, dialogs, scanVars
  <2> QED
    BY <1>1, <2>1, QuietKeeps, JobsAfterSame, ScanStays, ShownStays DEF Quiet, Kept
<1>3. CASE \/ PullDone \/ Drain \/ DrainDone
           \/ ScanSkipped \/ ScanVault \/ ScanDocs \/ ScanApplied \/ ScanEnd
           \/ Stop \/ StartUp \/ StampVaultDrift \/ CatchUp \/ CatchUpEnds \/ DialogDone
  BY <1>1, <1>3, QuietPull, QuietScan, QuietSessions, QuietKeeps DEF Kept
<1> QED
  BY <1>1, <1>2, <1>3, UserKeeps, TrackerKeeps, DeliverKeeps, PeerWritesKeeps,
     PullJudgeKeeps, PullCommitKeeps, ApplyKeeps, ScanActKeeps, AnswerKeeps, AnswerPullKeeps
     DEF Next, Pull

(***************************************************************************)
(* The user's saved text is never lost, however the reads and commits of   *)
(* fileToDb and markDeleted, pulls, reconciles, dialogs, failures, quits   *)
(* and restarts come between each other, as long as nobody cuts in         *)
(* between a pull's verdict and its commit (pull-writer.ts), or between a  *)
(* dbToFile's look at the disk and the baseline it establishes             *)
(* (vault-sync.ts): the three races that do lose a text are shown by TLC.  *)
(***************************************************************************)
THEOREM NothingSavedIsLost ==
  ASSUME Interrupts \cap {"pull", "write", "baseline"} = {}
  PROVE  Spec => []NoLostEdit
<1>1. Kept => NoLostEdit
  BY DEF Kept, OwedOK, Unrecorded, NoLostEdit
<1>2. RaceFree
  BY DEF RaceFree
<1> QED
  BY <1>1, <1>2, InitKeeps, StepKeeps, PTL DEF Spec

-----------------------------------------------------------------------------
(***************************************************************************)
(* No file comes back that the user deleted: a write that was allowed over *)
(* nothing on the disk was allowed because the baseline knows of no file.  *)
(***************************************************************************)
LookHolds == \A k \in Caller :
               at(k, "write") /\ ~job[k].over /\ ~job[k].doc.deleted /\ disk = None
                 => base = None \/ base.content = None

\* What may happen to the baseline while a write is on its way.
BaseStaysGone ==
  /\ disk' = disk
  /\ disk = None => \/ base' \in {None, base}
                    \/ base'.content = None
                    \/ base # None /\ base'.content = base.content

LEMMA LookHoldsOn ==
  ASSUME LookHolds, JobsGoOn, BaseStaysGone
  PROVE  LookHolds'
  BY DEF LookHolds, JobsGoOn, BaseStaysGone, at

LEMMA NoWriteNoLook ==
  ASSUME JobsGoOn, \A k \in Caller : ~at(k, "write")
  PROVE  LookHolds'
  BY DEF LookHolds, JobsGoOn, at

LEMMA WriteClosed ==
  ASSUME "write" \notin Interrupts, NEW a, mayRun(a)
  PROVE  \A k \in Caller : at(k, "write") => a = k
<1> SUFFICES ASSUME NEW k \in Caller, at(k, "write") PROVE a = k
  OBVIOUS
<1>1. <<job[k].stage, k>> \in inside
  BY DEF inside, at
<1> QED
  BY <1>1 DEF mayRun, at

LEMMA ApplyKeepsLook ==
  ASSUME TypeOK, LookHolds, "write" \notin Interrupts, Apply
  PROVE  LookHolds'
<1>1. PICK k \in Caller : mayRun(k) /\ (JobStep(k) \/ JobFails(k))
  BY DEF Apply
<1>2. \A j \in Caller \ {k} : ~at(j, "write")
  BY <1>1, WriteClosed
<1>3. CASE CheckDisk(k)
  <2>1. UNCHANGED <<disk, base>> /\ job[k] # None
    BY <1>3 DEF CheckDisk, at
  <2>2. /\ job[k] \in Job /\ job[k].doc \in Doc
        /\ verdict(job[k]) \in {"keep", "write", "decline"}
        /\ afterLook(job[k]) = CASE verdict(job[k]) = "keep"    -> "baseline"
                                 [] verdict(job[k]) = "write"   -> "write"
                                 [] verdict(job[k]) = "decline" -> "declined"
        /\ afterLook(job[k]) \in {"baseline", "write", "declined"}
    BY <2>1, VerdictOf, VaultTypes DEF TypeOK, VaultTypeOK, Job
  <2>3. /\ job'[k].stage = afterLook(job[k]) /\ job'[k].over = job[k].over
        /\ job'[k].doc = job[k].doc /\ \A j \in Caller \ {k} : job'[j] = job[j]
    BY <1>3, <2>1, <2>2, JobMoves DEF CheckDisk, TypeOK
  <2>4. ASSUME afterLook(job[k]) = "write", ~job[k].over, ~job[k].doc.deleted, disk = None
        PROVE  base = None \/ base.content = None
    <3>1. verdict(job[k]) = "write"
      BY <2>2, <2>4
    <3>2. vaultWrite(disk, job[k].doc, base) = "write"
      BY <2>4, <3>1 DEF verdict
    <3>3. disk # job[k].doc.content
      BY <2>2, <2>4, NoneIsNothingElse DEF Doc
    <3>4. vaultWrite(disk, job[k].doc, base)
            = IF unsyncedVaultChange(disk, job[k].doc, base) THEN "decline" ELSE "write"
      BY <2>4, <3>3 DEF vaultWrite
    <3> QED
      BY <2>4, <3>2, <3>4 DEF unsyncedVaultChange
  <2> QED
    BY <1>2, <2>1, <2>3, <2>4 DEF LookHolds, at
<1>4. CASE WriteDisk(k) \/ EstablishBaseline(k) \/ JobFails(k)
  <2>1. job[k] # None
    BY <1>4 DEF WriteDisk, EstablishBaseline, JobFails, at
  <2>2. \E stage \in {"declined", "failed", "baseline", "applied"} : job' = [job EXCEPT ![k].stage = stage]
    BY <1>4 DEF WriteDisk, declinedByWriter, EstablishBaseline, JobFails
  <2>3. job'[k].stage # "write" /\ \A j \in Caller \ {k} : job'[j] = job[j]
    BY <2>1, <2>2, JobMoves DEF TypeOK
  <2> QED
    BY <1>2, <2>3 DEF LookHolds, at
<1> QED
  BY <1>1, <1>3, <1>4 DEF JobStep

LEMMA StepKeepsLook ==
  ASSUME TypeOK, LookHolds, "write" \notin Interrupts, [Next]_vars
  PROVE  LookHolds'
<1>1. CASE UNCHANGED vars
  BY <1>1 DEF vars, vaultVars, LookHolds, at
<1>2. ASSUME Quiet PROVE LookHolds'
  BY <1>2, LookHoldsOn DEF Quiet, BaseStaysGone
<1>3. CASE \/ PullDone \/ Drain \/ DrainDone
           \/ ScanSkipped \/ ScanVault \/ ScanDocs \/ ScanApplied \/ ScanEnd
           \/ Stop \/ StartUp \/ StampVaultDrift \/ CatchUp \/ CatchUpEnds \/ DialogDone
  BY <1>2, <1>3, QuietPull, QuietScan, QuietSessions
<1>4. CASE User \/ Tracker
  <2>1. job' = job
    BY <1>4 DEF User, Type, SaveTyped, EditFile, DeleteFile, Tracker, TimerFires, DeleteEvent,
                CommitRead
  <2>2. \A k \in Caller : ~at(k, "write")
    BY <1>4, WriteClosed DEF User, Tracker, Caller
  <2> QED
    BY <2>1, <2>2, NoWriteNoLook, JobsAfterSame
<1>5. CASE Deliver \/ PeerWrites \/ PullJudge
  <2>1. UNCHANGED <<disk, base, job>>
    BY <1>5 DEF Deliver, PeerWrites, PullJudge, vaultVars
  <2> QED
    BY <2>1, LookHoldsOn, JobsAfterSame DEF BaseStaysGone
<1>6. CASE PullCommit
  <2>1. UNCHANGED <<disk, base>> /\ pulling \in Doc
    BY <1>6 DEF PullCommit, TypeOK
  <2>2. JobsGoOn
    BY <1>6, <2>1, JobsAfterStart DEF PullCommit, Caller
  <2> QED
    BY <2>1, <2>2, LookHoldsOn DEF BaseStaysGone
<1>7. ASSUME NEW d \in Doc, NEW k \in Caller, NEW over \in BOOLEAN, Start(k, d, over)
      PROVE  JobsGoOn
  BY <1>7, JobsAfterStart
<1>8. ASSUME MarkDeleted, UNCHANGED <<disk, job>> PROVE LookHolds'
  <2>1. base' \in {None, base} \/ base'.content = None
    BY <1>8 DEF MarkDeleted, deletedBase, synced
  <2>2. BaseStaysGone
    BY <1>8, <2>1 DEF BaseStaysGone
  <2>3. JobsGoOn
    BY <1>8, JobsAfterSame
  <2> QED
    BY <2>2, <2>3, LookHoldsOn
<1>9. CASE ScanAct
  <2>1. CASE UNCHANGED <<disk, base, job>>
    BY <2>1, LookHoldsOn, JobsAfterSame DEF BaseStaysGone
  <2>2. CASE chosen \in {"align", "adopt"} /\ (Align(scan.doc) \/ Adopt(scan.doc))
    BY <2>2, Chosen, LookHoldsOn, JobsAfterSame DEF BaseStaysGone, Align, Adopt
  <2>3. CASE chosen = "apply" /\ Start("scan", scan.doc, FALSE) /\ UNCHANGED <<disk, base>>
    BY <1>7, <2>3, Chosen, LookHoldsOn DEF BaseStaysGone, Caller
  <2>4. CASE MarkDeleted /\ UNCHANGED <<disk, job>>
    BY <1>8, <2>4
  <2> QED
    BY <1>9, <2>1, <2>2, <2>3, <2>4 DEF ScanAct, vaultVars
<1>10. CASE Answer
  <2>1. CASE UNCHANGED vaultVars
    BY <2>1, LookHoldsOn, JobsAfterSame DEF BaseStaysGone, vaultVars
  <2>2. CASE KeepFile(shown.doc)
    BY <2>2, LookHoldsOn, JobsAfterSame DEF BaseStaysGone, KeepFile
  <2>3. CASE KeepDeletion(shown.doc)
    <3>1. disk' = disk /\ job' = job /\ base'.content = None
      BY <2>3 DEF KeepDeletion, deletedBase, synced
    <3>2. BaseStaysGone /\ JobsGoOn
      BY <3>1, JobsAfterSame DEF BaseStaysGone
    <3> QED
      BY <3>2, LookHoldsOn
  <2>4. CASE TakeDocToVault(shown.doc)
    <3>1. doc \in Doc
      BY <2>4 DEF TakeDocToVault, stands, TypeOK, VaultTypeOK
    <3> QED
      BY <1>7, <2>4, <3>1, LookHoldsOn DEF BaseStaysGone, TakeDocToVault, Caller
  <2> QED
    BY <1>10, <2>1, <2>2, <2>3, <2>4 DEF Answer, KeepVault, TakeDoc
<1>11. CASE AnswerPull
  <2>1. CASE UNCHANGED vaultVars
    BY <2>1, LookHoldsOn, JobsAfterSame DEF BaseStaysGone, vaultVars
  <2>2. CASE resolveOnPull(doc, conflict) = "concurrent" /\ (KeepLocalDoc(conflict) \/ TakeRemoteDoc(conflict))
    <3>1. doc \in Doc /\ conflict \in Doc
      BY <1>11, <2>2 DEF AnswerPull, resolveOnPull, TypeOK, VaultTypeOK
    <3>2. decidedClock(doc, conflict) \in Clock
      BY <3>1, DecidedClock
    <3>3. CASE KeepLocalDoc(conflict)
      <4> DEFINE k == decidedClock(doc, conflict)
      <4>0. doc' = [doc EXCEPT !.vclock = k] /\ k \in Clock
        BY <3>2, <3>3 DEF KeepLocalDoc
      <4> HIDE DEF k
      <4>a. doc' \in Doc /\ baseOf(doc') = synced(baseOf(doc).content, k)
        BY <3>1, <4>0, MarkedType
      <4>1. doc' \in Doc /\ baseOf(doc').content = baseOf(doc).content
        BY <4>a DEF synced
      <4>2. CASE baselineHoldsContent(doc)
        <5>1. base # None /\ base'.content = base.content /\ UNCHANGED <<disk, job>>
          BY <3>1, <3>3, <4>1, <4>2, BaseOfType DEF KeepLocalDoc, baselineHoldsContent
        <5> QED
          BY <5>1, LookHoldsOn, JobsAfterSame DEF BaseStaysGone
      <4>3. CASE ~baselineHoldsContent(doc)
        <5>1. UNCHANGED <<disk, base>> /\ Start("dialog", doc', FALSE)
          BY <3>3, <4>3 DEF KeepLocalDoc
        <5> QED
          BY <1>7, <4>1, <5>1, LookHoldsOn DEF BaseStaysGone, Caller
      <4> QED
        BY <4>2, <4>3
    <3>4. CASE TakeRemoteDoc(conflict)
      <4>1. doc' \in Doc
        BY <3>1, <3>2, <3>4, MarkedType DEF TakeRemoteDoc
      <4> QED
        BY <1>7, <3>4, <4>1, LookHoldsOn DEF BaseStaysGone, TakeRemoteDoc, Caller
    <3> QED
      BY <2>2, <3>3, <3>4
  <2> QED
    BY <1>11, <2>1, <2>2 DEF AnswerPull
<1> QED
  BY <1>1, <1>3, <1>4, <1>5, <1>6, <1>9, <1>10, <1>11, ApplyKeepsLook DEF Next, Pull

(***************************************************************************)
(* A file this device had synced and the user deleted is not written again *)
(* before the deletion is recorded, unless the user chose to, as long as   *)
(* nobody cuts in between a dbToFile's look at the disk and its write      *)
(* (vault-sync.ts dbToFile, hasUnsyncedVaultChange).                       *)
(***************************************************************************)
THEOREM NoDeletionUndone ==
  ASSUME "write" \notin Interrupts
  PROVE  Spec => NoUndoneDeletion
<1>1. Init => TypeOK /\ LookHolds
  <2>1. Init => job = [k \in Caller |-> None]
    BY DEF Init, VaultInit
  <2>2. Init => LookHolds
    BY <2>1 DEF LookHolds, at
  <2> QED
    BY <2>2, InitTypes
<1>2. (TypeOK /\ LookHolds) /\ [Next]_vars => (TypeOK /\ LookHolds)'
  BY StepTypes, StepKeepsLook
<1>3. TypeOK /\ LookHolds /\ [Next]_vars
        => [\A k \in Caller :
              at(k, "write") /\ WriteDisk(k) /\ disk = None /\ disk' # None
                => job[k].over \/ removed = None
                   \/ base \in {None, deletedBase(baseClock(base))}]_vars
  <2> SUFFICES ASSUME TypeOK, LookHolds, NEW k \in Caller,
                      at(k, "write"), WriteDisk(k), disk = None, disk' # None, ~job[k].over
               PROVE  base \in {None, deletedBase(baseClock(base))}
    OBVIOUS
  <2>1. ~job[k].doc.deleted
    BY DEF WriteDisk, declinedByWriter, history
  <2>2. base = None \/ base.content = None
    BY <2>1 DEF LookHolds
  <2>3. base # None => base = [content |-> base.content, vclock |-> base.vclock]
    BY DEF TypeOK, VaultTypeOK, Baseline
  <2> QED
    BY <2>2, <2>3 DEF deletedBase, synced, baseClock
<1> QED
  BY <1>1, <1>2, <1>3, PTL DEF Spec, NoUndoneDeletion

-----------------------------------------------------------------------------
(***************************************************************************)
(* What the file was made on. The text in an editor and the texts read are *)
(* texts of the file as it is; and what a write has put on the disk, or a  *)
(* baseline says of it, the file was made on.                              *)
(***************************************************************************)
TypedHere == typed # None => disk # None /\ typed.on = madeOn
ReadsHere == \A r \in recording : r.on = madeOn

WrittenSeen == \A k \in Caller :
                 job[k] # None /\ job[k].stage = "baseline"
                   => madeOn[Peer] >= job[k].doc.vclock[Peer]

BaselineDue == \E k \in Caller : job[k] # None /\ job[k].stage = "baseline"
BaseSeen    == base # None /\ base.content # None /\ ~BaselineDue
                 => madeOn[Peer] >= base.vclock[Peer]

\* Until it acts, a reconcile has no dbToFile under way.
ScanWaits == scan.stage # "acting" => job["scan"] = None

SeenOK == TypedHere /\ ReadsHere /\ WrittenSeen /\ BaseSeen /\ ScanWaits

BaselinesStay == \A k \in Caller :
                   job[k] # None /\ job[k].stage = "baseline" => job'[k] = job[k]

\* The plugin does not stop between a write to the disk and its baseline.
QuitsBetweenWrites == Stop => ~BaselineDue

AllClosed == Interrupts \cap {"record", "pull", "write", "baseline"} = {}

LEMMA ReadsClosed ==
  ASSUME AllClosed, NEW a, mayRun(a), a # "tracker"
  PROVE  recording = {}
<1> SUFFICES ASSUME recording # {} PROVE FALSE
  OBVIOUS
<1>1. <<"record", "tracker">> \in inside
  BY DEF inside
<1> QED
  BY <1>1 DEF mayRun, AllClosed

LEMMA BaselinesClosed ==
  ASSUME AllClosed, NEW a, mayRun(a), NEW k \in Caller, job[k] # None, job[k].stage = "baseline"
  PROVE  a = k
<1>1. RaceFree
  BY DEF AllClosed, RaceFree
<1> QED
  BY <1>1, Closed DEF at

LEMMA FileStaysMade ==
  ASSUME SeenOK, ScanWaits', madeOn' = madeOn,
         base' = base \/ base' = None \/ base'.content = None,
         typed' # None => disk' # None /\ typed'.on = madeOn,
         \A r \in recording' : r.on = madeOn,
         JobsGoOn, BaselinesStay
  PROVE  SeenOK'
<1>1. TypedHere' /\ ReadsHere'
  BY DEF TypedHere, ReadsHere
<1>2. WrittenSeen'
  BY DEF SeenOK, WrittenSeen, JobsGoOn
<1>3. BaselineDue => BaselineDue'
  BY DEF BaselineDue, BaselinesStay
<1>4. BaseSeen'
  BY <1>3 DEF SeenOK, BaseSeen
<1> QED
  BY <1>1, <1>2, <1>4 DEF SeenOK

LEMMA FileBuildsOn ==
  ASSUME TypeOK, SeenOK, NEW clock, NEW reads, reads \subseteq recording,
         BuildsOn(clock, reads), disk' = disk
  PROVE  TypedHere' /\ ReadsHere' /\ madeOn' = clock
<1>1. madeOn' = clock
  BY DEF BuildsOn
<1>2. ASSUME NEW t \in Read, t.on = madeOn
      PROVE  [t EXCEPT !.on = goesAlong(@, clock)].on = clock
  BY <1>2 DEF Read, goesAlong
<1>3. typed \in Read \cup {None} /\ recording \subseteq Read
  BY DEF TypeOK, VaultTypeOK
<1>4. TypedHere'
  BY <1>1, <1>2, <1>3 DEF BuildsOn, SeenOK, TypedHere
<1>5. ReadsHere'
  BY <1>1, <1>2, <1>3 DEF BuildsOn, SeenOK, ReadsHere
<1> QED
  BY <1>1, <1>4, <1>5

LEMMA JobsAreBehind ==
  ASSUME Kept, NEW k \in Caller, job[k] # None
  PROVE  /\ job[k].doc.vclock \in Clock /\ job[k].doc.vclock[Peer] \in Nat
         /\ job[k].doc.vclock[Peer] <= docClock[Peer]
<1>1. job[k].doc \in docsHeld /\ job[k].doc \in Doc
  BY HeldDocs DEF Kept
<1>2. baseOf(job[k].doc) \in Held /\ baseOf(job[k].doc).vclock = job[k].doc.vclock
  BY <1>1, HeldDocs, BaseOfType DEF Kept
<1>3. job[k].doc.vclock \in Clock /\ job[k].doc.vclock[Peer] \in Nat
  BY <1>1, ClockPair DEF Doc
<1> QED
  BY <1>2, <1>3, HeldBehind, PathClocks DEF Kept, NotAfter

\* The file and the document become one version.
LEMMA FileIsDocument ==
  ASSUME Kept, NEW clock \in Clock, clock[Peer] >= docClock[Peer],
         TypedHere', ReadsHere', ScanWaits', madeOn' = clock, base'.vclock = clock, JobsGoOn
  PROVE  SeenOK'
<1>1. clock[Peer] \in Nat
  BY ClockPair
<1>2. ASSUME NEW k \in Caller, job'[k] # None, job'[k].stage = "baseline"
      PROVE  clock[Peer] >= job'[k].doc.vclock[Peer]
  <2>1. job'[k] = job[k]
    BY <1>2 DEF JobsGoOn
  <2> QED
    BY <1>1, <1>2, <2>1, JobsAreBehind, PathClocks DEF Kept
<1>3. WrittenSeen' /\ BaseSeen'
  BY <1>1, <1>2 DEF WrittenSeen, BaseSeen
<1> QED
  BY <1>3 DEF SeenOK

\* Which steps leave the jobs at their baselines alone.
LEMMA JobsStay ==
  ASSUME TypeOK, NEW k \in Caller,
         \/ job' = job
         \/ \E d, over : Start(k, d, over)
         \/ /\ \E outcome \in {"applied", "declined", "failed"} : at(k, outcome)
            /\ job' = [job EXCEPT ![k] = None]
  PROVE  /\ BaselinesStay
         /\ \A j \in Caller \ {k} : job'[j] = job[j]
<1>1. job \in [Caller -> Job \cup {None}]
  BY DEF TypeOK, VaultTypeOK
<1> QED
  BY <1>1 DEF BaselinesStay, Start, at

\* A read for a fileToDb is a read of the file as it is.
LEMMA ReadsAreHere ==
  ASSUME SeenOK, recording' = recording \/ ReadFile
  PROVE  \A r \in recording' : r.on = madeOn
  BY DEF SeenOK, ReadsHere, ReadFile

LEMMA PullSeen ==
  ASSUME TypeOK, SeenOK, PullDone \/ Drain \/ DrainDone \/ PullJudge \/ PullCommit
  PROVE  SeenOK'
<1>1. UNCHANGED <<disk, base, madeOn, typed, recording, scan>>
  BY DEF PullDone, Drain, DrainDone, PullJudge, PullCommit, events, history, scanVars, vaultVars
<1>2. PICK k \in {"pull", "drain"} :
        \/ job' = job
        \/ \E d, over : Start(k, d, over)
        \/ /\ \E outcome \in {"applied", "declined", "failed"} : at(k, outcome)
           /\ job' = [job EXCEPT ![k] = None]
  BY DEF PullDone, Drain, DrainDone, PullJudge, PullCommit, vaultVars
<1>3. BaselinesStay /\ job'["scan"] = job["scan"]
  BY <1>2, JobsStay DEF Caller
<1>4. JobsGoOn
  <2>1. CASE PullJudge
    BY <2>1, JobsAfterSame DEF PullJudge, vaultVars
  <2>2. CASE PullCommit
    <3>1. pulling \in Doc
      BY <2>2 DEF PullCommit, TypeOK
    <3> QED
      BY <2>2, <3>1, JobsAfterStart DEF PullCommit, Caller
  <2> QED
    BY <2>1, <2>2, QuietPull DEF Quiet
<1>5. ScanWaits'
  BY <1>1, <1>3 DEF SeenOK, ScanWaits
<1> QED
  BY <1>1, <1>3, <1>4, <1>5, FileStaysMade DEF SeenOK, TypedHere, ReadsHere

LEMMA ScanSeen ==
  ASSUME TypeOK, SeenOK, ScanSkipped \/ ScanVault \/ ScanDocs \/ ScanApplied \/ ScanEnd
  PROVE  SeenOK'
<1>1. UNCHANGED <<disk, base, madeOn, typed, recording>>
  BY DEF ScanSkipped, ScanVault, ScanDocs, ScanApplied, ScanEnd, events, history, vaultVars
<1>2. BaselinesStay
  <2>1. CASE ScanApplied
    BY <2>1, JobsStay DEF ScanApplied, Caller
  <2>2. CASE job' = job
    BY <2>2 DEF BaselinesStay
  <2> QED
    BY <2>1, <2>2 DEF ScanSkipped, ScanVault, ScanDocs, ScanEnd, vaultVars
<1>3. JobsGoOn
  BY QuietScan DEF Quiet
<1>4. ScanWaits'
  <2>1. CASE ScanApplied
    <3>1. job'["scan"] = None
      BY <2>1 DEF ScanApplied, TypeOK, VaultTypeOK, Caller
    <3> QED
      BY <3>1 DEF ScanWaits
  <2>2. CASE ScanSkipped
    BY <2>2 DEF ScanSkipped, SeenOK, ScanWaits, vaultVars
  <2>3. CASE ScanVault \/ ScanDocs \/ ScanEnd
    <3>1. job' = job /\ job["scan"] = None
      BY <2>3 DEF ScanVault, ScanDocs, ScanEnd, SeenOK, ScanWaits, vaultVars
    <3> QED
      BY <3>1 DEF ScanWaits
  <2> QED
    BY <2>1, <2>2, <2>3
<1> QED
  BY <1>1, <1>2, <1>3, <1>4, FileStaysMade DEF SeenOK, TypedHere, ReadsHere

LEMMA SessionsSeen ==
  ASSUME TypeOK, SeenOK, QuitsBetweenWrites,
         Stop \/ StartUp \/ StampVaultDrift \/ CatchUp \/ CatchUpEnds \/ DialogDone
  PROVE  SeenOK'
<1>1. JobsGoOn
  BY QuietSessions DEF Quiet
<1>2. CASE Stop
  <2>1. ~BaselineDue /\ UNCHANGED <<disk, base, madeOn>> /\ typed' = None /\ recording' = {}
        /\ job' = [k \in Caller |-> None]
    BY <1>2 DEF Stop, history, QuitsBetweenWrites
  <2>2. BaselinesStay /\ ScanWaits'
    BY <2>1 DEF BaselineDue, BaselinesStay, ScanWaits, Caller
  <2> QED
    BY <1>1, <2>1, <2>2, FileStaysMade
<1>3. CASE StartUp \/ StampVaultDrift \/ CatchUp \/ CatchUpEnds \/ DialogDone
  <2>1. UNCHANGED <<disk, base, madeOn, typed, scan>>
    BY <1>3 DEF StartUp, StampVaultDrift, CatchUp, CatchUpEnds, DialogDone, events, history,
                vaultVars, scanVars, replVars
  <2>2. \A r \in recording' : r.on = madeOn
    <3>1. recording' = recording \/ ReadFile
      BY <1>3 DEF StartUp, StampVaultDrift, CatchUp, CatchUpEnds, DialogDone, vaultVars
    <3> QED
      BY <3>1, ReadsAreHere
  <2>3. BaselinesStay /\ job'["scan"] = job["scan"]
    <3>1. \/ job' = job
          \/ /\ \E outcome \in {"applied", "declined", "failed"} : at("dialog", outcome)
             /\ job' = [job EXCEPT !["dialog"] = None]
      BY <1>3 DEF StartUp, StampVaultDrift, CatchUp, CatchUpEnds, DialogDone, vaultVars
    <3> QED
      BY <3>1, JobsStay DEF Caller
  <2>4. ScanWaits'
    BY <2>1, <2>3 DEF SeenOK, ScanWaits
  <2> QED
    BY <1>1, <2>1, <2>2, <2>3, <2>4, FileStaysMade DEF SeenOK, TypedHere
<1> QED
  BY <1>2, <1>3

LEMMA UserSeen == ASSUME TypeOK, SeenOK, User PROVE SeenOK'
<1>1. UNCHANGED <<base, job, recording, scan>> /\ BaselinesStay
  BY DEF User, Type, SaveTyped, EditFile, DeleteFile, replVars, scanVars, BaselinesStay
<1>2. JobsGoOn /\ ScanWaits'
  BY <1>1, JobsAfterSame DEF SeenOK, ScanWaits
<1>3. ASSUME NEW c \in Content, Type(c) PROVE typed'.on = madeOn /\ disk' # None /\ madeOn' = madeOn
  BY <1>3 DEF Type, history
<1>4. ASSUME SaveTyped PROVE typed' = None /\ madeOn' = madeOn
  BY <1>4 DEF SaveTyped, Saves, SeenOK, TypedHere
<1>5. ASSUME NEW c \in Content, NEW heard, EditFile(c, heard) PROVE typed' = None /\ madeOn' = madeOn
  BY <1>5 DEF EditFile, Saves
<1>6. ASSUME NEW heard, DeleteFile(heard) PROVE typed' = None /\ madeOn' = madeOn
  BY <1>6 DEF DeleteFile
<1>7. madeOn' = madeOn /\ (typed' # None => disk' # None /\ typed'.on = madeOn)
  BY <1>3, <1>4, <1>5, <1>6 DEF User
<1> QED
  BY <1>1, <1>2, <1>7, FileStaysMade DEF SeenOK, ReadsHere

LEMMA TrackerSeen ==
  ASSUME Kept, SeenOK, Tracker
  PROVE  SeenOK'
<1>1. UNCHANGED <<disk, job, scan>> /\ BaselinesStay
  BY DEF Tracker, TimerFires, DeleteEvent, CommitRead, BaselinesStay
<1>2. JobsGoOn /\ ScanWaits'
  BY <1>1, JobsAfterSame DEF SeenOK, ScanWaits, Kept
<1>3. ASSUME UNCHANGED <<madeOn, typed>>,
             base' = base \/ base' = None \/ base'.content = None,
             \A r \in recording' : r.on = madeOn
      PROVE  SeenOK'
  BY <1>1, <1>2, <1>3, FileStaysMade DEF SeenOK, TypedHere
<1>4. CASE TimerFires
  BY <1>3, <1>4, ReadsAreHere DEF TimerFires, history
<1>5. CASE DeleteEvent
  <2>1. base' = base \/ base' = None \/ base'.content = None
    BY <1>5 DEF DeleteEvent, MarkDeleted, deletedBase, synced
  <2> QED
    BY <1>3, <1>5, <2>1, ReadsAreHere DEF DeleteEvent
<1>6. ASSUME NEW r \in recording, CommitRead(r) PROVE SeenOK'
  <2> DEFINE clock == incrementVC(docClock, Self)
  <2>1. CASE recordsFile(r.content, doc, base)
    <3>1. clock \in Clock /\ clock[Peer] >= docClock[Peer]
      BY OwnEdit, PathClocks DEF Kept
    <3>2. r.on = madeOn
      BY DEF SeenOK, ReadsHere
    <3>3. BuildsOn(clock, recording \ {r}) /\ base' = synced(r.content, clock)
      BY <1>6, <2>1, <3>2 DEF CommitRead, Recorded
    <3>4. base'.vclock = clock
      BY <3>3 DEF synced
    <3> HIDE DEF clock
    <3>5. TypedHere' /\ ReadsHere' /\ madeOn' = clock
      BY <1>1, <3>3, FileBuildsOn DEF Kept
    <3> QED
      BY <1>2, <3>1, <3>4, <3>5, FileIsDocument
  <2>2. CASE ~recordsFile(r.content, doc, base)
    <3>1. recording' = recording \ {r} /\ UNCHANGED <<base, typed, madeOn>>
      BY <1>6, <2>2 DEF CommitRead, history
    <3> QED
      BY <1>3, <3>1 DEF SeenOK, ReadsHere
  <2> QED
    BY <2>1, <2>2
<1> QED
  BY <1>4, <1>5, <1>6 DEF Tracker

LEMMA CheckDiskSeen ==
  ASSUME Kept, SeenOK, AllClosed, NEW k \in Caller, mayRun(k), CheckDisk(k), scan' = scan
  PROVE  SeenOK'
<1>1. UNCHANGED <<disk, base>> /\ job[k] # None /\ job[k].stage = "check"
  BY DEF CheckDisk, at
<1>2. /\ job[k] \in Job /\ job[k].doc \in Doc
      /\ verdict(job[k]) \in {"keep", "write", "decline"}
      /\ afterLook(job[k]) = CASE verdict(job[k]) = "keep"    -> "baseline"
                               [] verdict(job[k]) = "write"   -> "write"
                               [] verdict(job[k]) = "decline" -> "declined"
      /\ afterLook(job[k]) \in {"baseline", "write", "declined"}
  BY <1>1, VerdictOf, VaultTypes DEF Kept, TypeOK, VaultTypeOK, Job
<1>3. /\ job'[k].stage = afterLook(job[k]) /\ job'[k].doc = job[k].doc
      /\ \A j \in Caller \ {k} : job'[j] = job[j]
  BY <1>1, <1>2, JobMoves DEF CheckDisk, Kept, TypeOK
<1>4. \A j \in Caller \ {k} : ~(job[j] # None /\ job[j].stage = "baseline")
  BY BaselinesClosed
<1>5. ScanWaits'
  <2>1. k = "scan" => scan.stage = "acting"
    BY <1>1 DEF SeenOK, ScanWaits
  <2> QED
    BY <1>3, <2>1 DEF SeenOK, ScanWaits, Caller
<1>6. CASE verdict(job[k]) = "keep"
  <2> DEFINE clock == job[k].doc.vclock
  <2>1. BuildsOn(clock, recording)
    BY <1>2, <1>6 DEF CheckDisk, Integrated
  <2>2. TypedHere' /\ ReadsHere' /\ madeOn' = clock
    BY <1>1, <2>1, FileBuildsOn DEF Kept
  <2>3. clock[Peer] \in Nat
    BY <1>1, JobsAreBehind
  <2>4. job'[k].stage = "baseline" /\ job'[k] # None
    <3>1. job'[k] \in Job
      BY <1>1, <1>2, JobMoves DEF CheckDisk, Kept, TypeOK
    <3> QED
      BY <1>2, <1>3, <1>6, <3>1, NoneIsNoJob
  <2>5. BaseSeen'
    BY <2>4 DEF BaseSeen, BaselineDue
  <2>6. WrittenSeen'
    BY <1>3, <1>4, <2>2, <2>3 DEF WrittenSeen
  <2> QED
    BY <1>5, <2>2, <2>5, <2>6 DEF SeenOK
<1>7. CASE verdict(job[k]) # "keep"
  <2>1. UNCHANGED <<typed, recording, madeOn>>
    BY <1>2, <1>7 DEF CheckDisk, history
  <2>2. job'[k].stage # "baseline"
    BY <1>2, <1>3, <1>7
  <2>3. WrittenSeen'
    BY <1>3, <1>4, <2>2 DEF WrittenSeen
  <2>4. BaseSeen'
    BY <1>1, <1>4, <2>1 DEF SeenOK, BaseSeen, BaselineDue
  <2> QED
    BY <1>1, <1>5, <2>1, <2>3, <2>4 DEF SeenOK, TypedHere, ReadsHere
<1> QED
  BY <1>6, <1>7

LEMMA WriteDiskSeen ==
  ASSUME Kept, SeenOK, AllClosed, NEW k \in Caller, mayRun(k), WriteDisk(k), scan' = scan
  PROVE  SeenOK'
<1>1. UNCHANGED <<base, typed, recording>> /\ job[k] # None /\ job[k].stage = "write"
      /\ job[k].doc \in Doc /\ job[k].had \in BOOLEAN
  BY DEF WriteDisk, at, Kept, TypeOK, VaultTypeOK, Job
<1>2. PICK stage \in {"declined", "failed", "baseline"} : job' = [job EXCEPT ![k].stage = stage]
  BY DEF WriteDisk, declinedByWriter
<1>3. /\ job'[k].stage = stage /\ job'[k].doc = job[k].doc
      /\ \A j \in Caller \ {k} : job'[j] = job[j]
      /\ job[k] \in Job /\ job'[k] # None
  <2>1. /\ job'[k].stage = stage /\ job'[k].doc = job[k].doc
        /\ \A j \in Caller \ {k} : job'[j] = job[j]
        /\ job[k] \in Job /\ job'[k] \in Job
    BY <1>1, <1>2, JobMoves DEF Kept, TypeOK
  <2> QED
    BY <2>1, NoneIsNoJob
<1>4. \A j \in Caller \ {k} : ~(job[j] # None /\ job[j].stage = "baseline")
  BY BaselinesClosed
<1>5. ScanWaits'
  <2>1. k = "scan" => scan.stage = "acting"
    BY <1>1 DEF SeenOK, ScanWaits
  <2> QED
    BY <1>3, <2>1 DEF SeenOK, ScanWaits, Caller
<1>6. recording = {}
  BY ReadsClosed DEF Caller
<1>7. CASE stage # "baseline"
  <2>1. UNCHANGED <<disk, madeOn>>
    <3>1. \A s : job' = [job EXCEPT ![k].stage = s] => s = stage
      BY <1>2, <1>3 DEF Kept, TypeOK, VaultTypeOK, Job
    <3> QED
      BY <1>7, <3>1 DEF WriteDisk, declinedByWriter, history
  <2>2. WrittenSeen'
    BY <1>3, <1>4, <1>7 DEF WrittenSeen
  <2>3. BaseSeen'
    BY <1>1, <1>4, <2>1 DEF SeenOK, BaseSeen, BaselineDue
  <2> QED
    BY <1>1, <1>5, <2>1, <2>2, <2>3 DEF SeenOK, TypedHere, ReadsHere
<1>8. CASE stage = "baseline"
  <2>1. madeOn' = job[k].doc.vclock /\ ~unsavedText(job[k]) /\ ~cameOrWent(job[k])
    <3>1. \A s : job' = [job EXCEPT ![k].stage = s] => s = stage
      BY <1>2, <1>3 DEF Kept, TypeOK, VaultTypeOK, Job
    <3> QED
      BY <1>8, <3>1 DEF WriteDisk, declinedByWriter
  <2>2. typed = None
    BY <1>1, <2>1 DEF unsavedText, cameOrWent, SeenOK, TypedHere, Doc
  <2>3. WrittenSeen' /\ BaseSeen'
    <3>1. job[k].doc.vclock[Peer] \in Nat
      BY <1>1, JobsAreBehind
    <3> QED
      BY <1>3, <1>4, <1>8, <2>1, <3>1 DEF WrittenSeen, BaseSeen, BaselineDue
  <2> QED
    BY <1>1, <1>5, <1>6, <2>2, <2>3 DEF SeenOK, TypedHere, ReadsHere
<1> QED
  BY <1>7, <1>8

LEMMA BaselineSeen ==
  ASSUME Kept, SeenOK, AllClosed, NEW k \in Caller, mayRun(k),
         EstablishBaseline(k) \/ JobFails(k), scan' = scan
  PROVE  SeenOK'
<1>1. UNCHANGED <<disk, typed, recording, madeOn>> /\ job[k] # None /\ job[k].doc \in Doc
  BY DEF EstablishBaseline, JobFails, at, events, history, Kept, TypeOK, VaultTypeOK, Job
<1>2. PICK stage \in {"applied", "failed"} : job' = [job EXCEPT ![k].stage = stage]
  BY DEF EstablishBaseline, JobFails
<1>3. /\ job'[k].stage = stage /\ job'[k].doc = job[k].doc
      /\ \A j \in Caller \ {k} : job'[j] = job[j]
  BY <1>1, <1>2, JobMoves DEF Kept, TypeOK
<1>4. \A j \in Caller \ {k} : ~(job[j] # None /\ job[j].stage = "baseline")
  BY BaselinesClosed
<1>5. ScanWaits'
  <2>1. k = "scan" => scan.stage = "acting"
    BY <1>1 DEF SeenOK, ScanWaits
  <2> QED
    BY <1>3, <2>1 DEF SeenOK, ScanWaits, Caller
<1>6. WrittenSeen'
  BY <1>3, <1>4 DEF WrittenSeen
<1>7. BaseSeen'
  <2>1. CASE EstablishBaseline(k)
    <3>1. base'.vclock = job[k].doc.vclock
      BY <1>1, <2>1, BaseOfType DEF EstablishBaseline
    <3>2. madeOn[Peer] >= job[k].doc.vclock[Peer]
      BY <2>1 DEF EstablishBaseline, at, SeenOK, WrittenSeen
    <3> QED
      BY <1>1, <3>1, <3>2 DEF BaseSeen
  <2>2. CASE JobFails(k)
    <3>1. base' = base /\ job[k].stage # "baseline"
      BY <2>2 DEF JobFails, at
    <3> QED
      BY <1>1, <1>4, <3>1 DEF SeenOK, BaseSeen, BaselineDue
  <2> QED
    BY <2>1, <2>2
<1> QED
  BY <1>1, <1>5, <1>6, <1>7 DEF SeenOK, TypedHere, ReadsHere

LEMMA ApplySeen == ASSUME Kept, SeenOK, AllClosed, Apply PROVE SeenOK'
<1>1. PICK k \in Caller : mayRun(k) /\ (JobStep(k) \/ JobFails(k))
  BY DEF Apply
<1>2. scan' = scan
  BY DEF Apply, scanVars
<1> QED
  BY <1>1, <1>2, CheckDiskSeen, WriteDiskSeen, BaselineSeen DEF JobStep

LEMMA ScanActSeen == ASSUME Kept, SeenOK, AllClosed, ScanAct PROVE SeenOK'
<1>1. recording = {} /\ scan'.stage = "acting" /\ scan.stage = "docs"
  BY ReadsClosed DEF ScanAct, Kept, TypeOK, Scan
<1>2. ~BaselineDue
  <2>1. job["scan"] = None
    BY <1>1 DEF SeenOK, ScanWaits
  <2> QED
    BY <2>1, BaselinesClosed DEF ScanAct, BaselineDue
<1>3. ScanWaits' /\ BaselinesStay
  BY <1>1, <1>2 DEF ScanWaits, BaselinesStay, BaselineDue
<1>4. ASSUME UNCHANGED <<disk, typed, madeOn>>, recording' = recording \/ ReadFile,
             base' = base \/ base' = None \/ base'.content = None, JobsGoOn
      PROVE  SeenOK'
  BY <1>3, <1>4, ReadsAreHere, FileStaysMade DEF SeenOK, TypedHere
<1>5. CASE UNCHANGED vaultVars
  BY <1>4, <1>5, JobsAfterSame DEF vaultVars, events, history, Kept
<1>6. CASE tryPush /\ UNCHANGED <<disk, base, typed, job, history>>
  BY <1>4, <1>6, JobsAfterSame DEF tryPush, history, Kept
<1>7. CASE chosen = "align" /\ Align(scan.doc)
  <2>1. base' = base
    BY <1>7, AlignChangesNothing
  <2> QED
    BY <1>4, <1>7, <2>1, JobsAfterSame DEF Align, events, history, Kept
<1>8. CASE chosen = "adopt" /\ Adopt(scan.doc)
  <2> DEFINE clock == scan.doc.vclock
  <2>1. base'.vclock = clock /\ BuildsOn(clock, recording) /\ UNCHANGED <<disk, job>>
    BY <1>8 DEF Adopt, AdoptDocVclock, synced, Integrated
  <2>2. clock \in Clock
    BY <1>8, Chosen DEF Kept, Doc
  <2> HIDE DEF clock
  <2>3. TypedHere' /\ ReadsHere' /\ madeOn' = clock
    BY <2>1, FileBuildsOn DEF Kept
  <2>4. clock[Peer] \in Nat
    BY <2>2, ClockPair
  <2>5. WrittenSeen' /\ BaseSeen'
    BY <1>2, <2>1, <2>3, <2>4 DEF BaselineDue, WrittenSeen, BaseSeen
  <2> QED
    BY <1>3, <2>3, <2>5 DEF SeenOK
<1>9. CASE chosen = "apply" /\ Start("scan", scan.doc, FALSE)
           /\ UNCHANGED <<disk, base, events, recording, history>>
  <2>1. JobsGoOn
    BY <1>9, Chosen, JobsAfterStart DEF Caller, Kept
  <2> QED
    BY <1>4, <1>9, <2>1 DEF events, history
<1>10. CASE MarkDeleted /\ UNCHANGED <<disk, typed, recording, job, madeOn>>
  <2>1. base' = base \/ base' = None \/ base'.content = None
    BY <1>10 DEF MarkDeleted, deletedBase, synced
  <2>2. JobsGoOn
    BY <1>10, JobsAfterSame DEF Kept
  <2> QED
    BY <1>4, <1>10, <2>1, <2>2
<1> QED
  BY <1>5, <1>6, <1>7, <1>8, <1>9, <1>10 DEF ScanAct

LEMMA AnswerSeen == ASSUME Kept, SeenOK, AllClosed, Answer PROVE SeenOK'
<1>1. recording = {} /\ scan' = scan
  BY ReadsClosed DEF Answer
<1>2. ASSUME UNCHANGED <<disk, typed, recording, madeOn>>, BaselinesStay, JobsGoOn, ScanWaits',
             base' = base \/ base' = None \/ base'.content = None
      PROVE  SeenOK'
  BY <1>2, FileStaysMade DEF SeenOK, TypedHere, ReadsHere
<1>3. job' = job => BaselinesStay /\ JobsGoOn /\ ScanWaits'
  BY <1>1, JobsAfterSame DEF BaselinesStay, SeenOK, ScanWaits, Kept
<1>4. CASE UNCHANGED vaultVars
  BY <1>2, <1>3, <1>4 DEF vaultVars, events, history
<1>5. CASE TakeDocToVault(shown.doc)
  <2>1. doc \in Doc /\ Start("dialog", doc, TRUE)
    BY <1>5 DEF TakeDocToVault, stands, Kept, TypeOK, VaultTypeOK
  <2>2. BaselinesStay /\ JobsGoOn /\ job'["scan"] = job["scan"]
    BY <2>1, JobsAfterStart, JobsStay DEF Caller, Kept
  <2>3. ScanWaits'
    BY <1>1, <2>2 DEF SeenOK, ScanWaits
  <2> QED
    BY <1>2, <1>5, <2>2, <2>3 DEF TakeDocToVault, events, history
<1>6. CASE KeepDeletion(shown.doc)
  <2>1. base'.content = None /\ job' = job
    BY <1>6 DEF KeepDeletion, deletedBase, synced
  <2> QED
    BY <1>2, <1>3, <1>6, <2>1 DEF KeepDeletion, events
<1>7. CASE KeepFile(shown.doc)
  <2> DEFINE clock == incrementVC(docClock, Self)
             r == [content |-> disk, on |-> madeOn]
  <2>1. clock \in Clock /\ clock[Peer] >= docClock[Peer]
    BY OwnEdit, PathClocks DEF Kept
  <2>2. base' = synced(disk, clock) /\ BuildsOn(clock, recording \ {r}) /\ UNCHANGED <<disk, job>>
    BY <1>7 DEF KeepFile, Recorded
  <2>3. base'.vclock = clock /\ recording \ {r} \subseteq recording
    BY <2>2 DEF synced
  <2> HIDE DEF clock, r
  <2>4. TypedHere' /\ ReadsHere' /\ madeOn' = clock
    BY <2>2, <2>3, FileBuildsOn DEF Kept
  <2> QED
    BY <1>3, <2>1, <2>2, <2>3, <2>4, FileIsDocument
<1> QED
  BY <1>4, <1>5, <1>6, <1>7 DEF Answer, KeepVault, TakeDoc

LEMMA AnswerPullSeen == ASSUME Kept, SeenOK, AllClosed, AnswerPull PROVE SeenOK'
<1>1. scan' = scan /\ conflict # None
  BY DEF AnswerPull, scanVars
<1>2. CASE UNCHANGED vaultVars
  <2>1. JobsGoOn /\ BaselinesStay /\ ScanWaits'
    BY <1>1, <1>2, JobsAfterSame DEF vaultVars, BaselinesStay, SeenOK, ScanWaits, Kept
  <2> QED
    BY <1>2, <2>1, FileStaysMade DEF vaultVars, events, history, SeenOK, TypedHere, ReadsHere
<1>3. CASE resolveOnPull(doc, conflict) = "concurrent" /\ (KeepLocalDoc(conflict) \/ TakeRemoteDoc(conflict))
  <2> DEFINE k == decidedClock(doc, conflict)
  <2>1. /\ doc \in Doc /\ conflict \in Doc /\ conflict.vclock[Peer] > docClock[Peer]
        /\ doc.vclock = docClock
    BY <1>1, <1>3, ConflictIsAhead, NoneIsNothingElse DEF docClock
  <2>2. k \in Clock /\ k[Peer] >= docClock[Peer]
    <3>1. conflict.vclock[Peer] \in Nat /\ docClock[Peer] \in Nat
      BY <2>1, ClockPair DEF Doc
    <3> QED
      BY <2>1, <3>1, DecidedClock
  <2> HIDE DEF k
  <2>3. doc' = [doc EXCEPT !.vclock = k] => doc' \in Doc /\ doc'.vclock = k
    BY <2>1, <2>2, MarkedType DEF Doc
  <2>4. CASE KeepLocalDoc(conflict) /\ baselineHoldsContent(doc)
    <3>1. base' = baseOf(doc') /\ BuildsOn(k, recording) /\ UNCHANGED <<disk, job>>
          /\ doc' \in Doc /\ doc'.vclock = k
      BY <2>3, <2>4 DEF KeepLocalDoc, k
    <3>2. base'.vclock = k
      BY <3>1, BaseOfType
    <3>3. TypedHere' /\ ReadsHere' /\ madeOn' = k
      BY <3>1, FileBuildsOn DEF Kept
    <3>4. JobsGoOn /\ ScanWaits'
      BY <1>1, <3>1, JobsAfterSame DEF SeenOK, ScanWaits, Kept
    <3> QED
      BY <2>2, <3>2, <3>3, <3>4, FileIsDocument
  <2>5. CASE \/ KeepLocalDoc(conflict) /\ ~baselineHoldsContent(doc)
             \/ TakeRemoteDoc(conflict)
    <3>1. Start("dialog", doc', FALSE) /\ UNCHANGED <<disk, base, typed, recording, madeOn>>
      BY <2>5 DEF KeepLocalDoc, TakeRemoteDoc, events
    <3>2. doc' \in Doc
      BY <2>1, <2>2, <2>3, <2>5, MarkedType DEF KeepLocalDoc, TakeRemoteDoc, k
    <3>3. BaselinesStay /\ JobsGoOn /\ job'["scan"] = job["scan"]
      BY <3>1, <3>2, JobsAfterStart, JobsStay DEF Caller, Kept
    <3>4. ScanWaits'
      BY <1>1, <3>3 DEF SeenOK, ScanWaits
    <3> QED
      BY <3>1, <3>3, <3>4, FileStaysMade DEF SeenOK, TypedHere, ReadsHere
  <2> QED
    BY <1>3, <2>4, <2>5
<1> QED
  BY <1>2, <1>3 DEF AnswerPull

LEMMA InitSeen == Init => SeenOK
<1> SUFFICES ASSUME Init PROVE SeenOK
  OBVIOUS
<1>1. typed = None /\ recording = {} /\ \A k \in Caller : job[k] = None
  BY DEF Init, VaultInit
<1>2. scan = noScan
  BY DEF Init
<1>3. BaseSeen
  <2>1. CASE VaultInit
    BY <2>1 DEF VaultInit, BaseSeen
  <2>2. ASSUME NEW c \in Content, NEW clock, clock = incrementVC(ZeroClock, Peer),
               base = synced(c, clock), madeOn = clock
        PROVE  BaseSeen
    <3>1. clock \in Clock
      BY <2>2, ZeroIsClock, EditClock
    <3>2. base.vclock = clock /\ clock[Peer] \in Nat
      BY <2>2, <3>1, ClockPair DEF synced
    <3> QED
      BY <2>2, <3>2 DEF BaseSeen
  <2> QED
    BY <2>1, <2>2 DEF Init
<1> QED
  BY <1>1, <1>2, <1>3 DEF SeenOK, TypedHere, ReadsHere, WrittenSeen, ScanWaits, Caller

LEMMA StepSeen ==
  ASSUME AllClosed
  PROVE  Kept /\ SeenOK /\ [Next]_vars /\ [QuitsBetweenWrites]_vars => SeenOK'
<1> SUFFICES ASSUME Kept, SeenOK, [Next]_vars, [QuitsBetweenWrites]_vars PROVE SeenOK'
  OBVIOUS
<1>1. TypeOK
  BY DEF Kept
<1>2. CASE UNCHANGED vars
  <2>1. UNCHANGED <<typed, disk, madeOn, recording, job, base, scan>>
    BY <1>2 DEF vars, vaultVars, events, history, replVars, scanVars
  <2> QED
    BY <2>1 DEF SeenOK, TypedHere, ReadsHere, WrittenSeen, BaseSeen, BaselineDue, ScanWaits
<1>3. CASE Deliver \/ PeerWrites
  <2>1. UNCHANGED <<typed, disk, madeOn, recording, job, base, scan>>
    BY <1>3 DEF Deliver, PeerWrites, vaultVars, events, history, scanVars
  <2> QED
    BY <2>1 DEF SeenOK, TypedHere, ReadsHere, WrittenSeen, BaseSeen, BaselineDue, ScanWaits
<1>4. ASSUME vars' = vars \/ QuitsBetweenWrites,
             Stop \/ StartUp \/ StampVaultDrift \/ CatchUp \/ CatchUpEnds \/ DialogDone
      PROVE  SeenOK'
  BY <1>1, <1>2, <1>4, SessionsSeen
<1> QED
  BY <1>1, <1>2, <1>3, <1>4, UserSeen, TrackerSeen, PullSeen, ApplySeen, ScanSeen,
     ScanActSeen, AnswerSeen, AnswerPullSeen DEF Next, Pull

\* A text that goes over the document was made on a file that had the document.
LEMMA RecordedOverSeen ==
  ASSUME Kept, SeenOK, ~BaselineDue, NEW r \in recording,
         CommitRead(r), doc # None, doc' # doc, ~doc.deleted
  PROVE  r.on[Peer] >= doc.vclock[Peer]
<1> DEFINE left == diskVersion(r.content, base)
<1>1. doc \in Doc /\ r \in Read /\ doc.vclock \in Clock /\ r.content \in Content
  BY DEF Kept, TypeOK, VaultTypeOK, Doc, Read
<1>2. recordsFile(r.content, doc, base)
  BY DEF CommitRead
<1>3. doc.content # r.content
      /\ relationOfFile(r.content, doc, base) \notin {"remote-edit", "true-divergent"}
  BY <1>2 DEF recordsFile
<1>4. ~sameState(left, doc) /\ left.vclock = baseClock(base)
  BY <1>3 DEF sameState, diskVersion
<1>5. baseClock(base) \in Clock
  BY ZeroIsClock DEF baseClock, Kept, TypeOK, VaultTypeOK, Baseline
<1>6. Includes(baseClock(base), doc.vclock)
  <2>1. compareVC(left.vclock, doc.vclock) \in {"equal", "dominates", "dominated", "concurrent"}
    BY DEF compareVC
  <2>2. compareVC(left.vclock, doc.vclock) \in {"equal", "dominates"}
    BY <1>3, <1>4, <2>1 DEF relationOfFile
  <2> QED
    <3>1. CASE compareVC(left.vclock, doc.vclock) = "equal"
      <4>1. baseClock(base) = doc.vclock
        BY <1>1, <1>4, <1>5, <3>1, CompareIsOrder
      <4> QED
        BY <1>1, <4>1, ClockPair
    <3>2. CASE compareVC(left.vclock, doc.vclock) = "dominates"
      BY <1>1, <1>4, <1>5, <3>2, CompareIsOrder DEF Dominates
    <3> QED
      BY <2>2, <3>1, <3>2
<1>7. docClock = doc.vclock /\ baseOf(doc) \in Held /\ baseOf(doc).vclock = doc.vclock
      /\ baseOf(doc).content = doc.content
  BY <1>1, HeldDocs, BaseOfType DEF docClock, Kept
<1>8. base # None
  <2>1. doc.vclock # ZeroClock
    BY <1>7, HeldBehind DEF Kept
  <2> QED
    BY <1>1, <1>5, <1>6, <2>1, ClockPair, ZeroIsClock DEF baseClock
<1>9. base \in Held /\ baseClock(base) = base.vclock
  BY <1>8, HeldDocs DEF baseClock, Kept
<1>10. base.vclock = doc.vclock
  <2>1. NotAfter(base.vclock, doc.vclock)
    BY <1>7, <1>9, HeldBehind DEF Kept
  <2> QED
    BY <1>1, <1>5, <1>6, <1>9, <2>1, ClockPair DEF NotAfter
<1>11. base = baseOf(doc)
  BY <1>7, <1>9, <1>10 DEF Kept, VersionsOK, OneState
<1>12. base.content # None
  BY <1>1, <1>7, <1>11, NoneIsNothingElse DEF Doc
<1>13. madeOn[Peer] >= doc.vclock[Peer]
  BY <1>8, <1>10, <1>12 DEF SeenOK, BaseSeen
<1> QED
  BY <1>13 DEF SeenOK, ReadsHere

\* While a read and its commit, and a look and its baseline, are one.
LEMMA RecordsSeen ==
  ASSUME AllClosed, Kept, SeenOK, [Next]_vars
  PROVE  [\A r \in recording :
            CommitRead(r) /\ doc # None /\ doc' # doc
              => doc.deleted \/ r.on[Peer] >= doc.vclock[Peer]]_vars
<1> SUFFICES ASSUME NEW r \in recording,
                    CommitRead(r), doc # None, doc' # doc, ~doc.deleted
             PROVE  r.on[Peer] >= doc.vclock[Peer]
  OBVIOUS
<1>1. ~BaselineDue
  <2>1. ~(PullCommit \/ ScanAct \/ Answer \/ AnswerPull)
    BY ReadsClosed DEF PullCommit, ScanAct, Answer, AnswerPull
  <2>2. ~Quiet /\ TypeOK
    BY DEF Quiet, Kept
  <2>3. ~(User \/ Deliver \/ PeerWrites \/ PullJudge \/ Apply \/ UNCHANGED vars)
    BY DEF User, Type, SaveTyped, EditFile, DeleteFile, Deliver, PeerWrites, PullJudge,
           Apply, JobStep, CheckDisk, WriteDisk, EstablishBaseline, JobFails, vaultVars, vars
  <2>4. Tracker
    BY <2>1, <2>2, <2>3, QuietPull, QuietScan, QuietSessions DEF Next, Pull
  <2> QED
    BY <2>4, BaselinesClosed DEF Tracker, BaselineDue, Caller
<1> QED
  BY <1>1, RecordedOverSeen

-----------------------------------------------------------------------------
(***************************************************************************)
(* What a tombstone written without asking stands for, while only dialogs  *)
(* leave others room. A file the user deleted had been made on the version *)
(* that is on record of it; what a dbToFile or a reconcile looked at is    *)
(* still so; and a file this device had and has no more, that the user did *)
(* not delete, is one whose document is a tombstone, or went past the      *)
(* baseline to a version the other devices have.                           *)
(***************************************************************************)
RemovedHere  == removed # None => disk = None /\ removed = madeOn
DeletingHere == deleting => disk = None
ReadsOnDisk  == recording # {} => disk # None

ScanFresh == /\ scan.stage \in {"vault", "docs"} => (scan.has <=> disk # None)
             /\ scan.stage = "docs" => scan.doc = doc

working == {"check", "write", "baseline"}

Working(k) == job[k] # None /\ job[k].stage \in working

JobCurrent == \A k \in Caller : Working(k) =>
                /\ job[k].doc = doc
                /\ job[k].stage = "baseline"
                     => madeOn = doc.vclock /\ disk = baseOf(doc).content

BaseMade == base # None /\ base.content # None => madeOn[Peer] >= base.vclock[Peer]

Gone == base # None /\ base.content # None /\ disk = None /\ removed = None
          => doc.deleted \/ (doc.vclock # base.vclock /\ Includes(remoteClock, doc.vclock))

FileOK == /\ RemovedHere /\ DeletingHere /\ ReadsOnDisk /\ ScanFresh
          /\ JobCurrent /\ BaseMade /\ Gone

Settled == Kept /\ SeenOK /\ FileOK

DialogOnly == Interrupts \subseteq {"dialog"}

LEMMA Alone ==
  ASSUME DialogOnly, NEW a, mayRun(a)
  PROVE  /\ recording # {} => a = "tracker"
         /\ deleting = TRUE => a = "tracker"
         /\ pulling # None => a = "pull"
         /\ scan.stage \in {"vault", "docs"} => a = "scan"
         /\ \A k \in Caller : Working(k) => a = k
<1>1. \A i \in inside : i[1] # "dialog" => i[2] = a
  BY DEF mayRun, DialogOnly
<1>2. recording # {} => <<"record", "tracker">> \in inside
  BY DEF inside
<1>3. deleting = TRUE => <<"delete", "tracker">> \in inside
  BY DEF inside
<1>4. pulling # None => <<"pull", "pull">> \in inside
  BY DEF inside
<1>5. scan.stage \in {"vault", "docs"} => <<scan.stage, "scan">> \in inside
  BY DEF inside
<1>6. \A k \in Caller : Working(k) => <<job[k].stage, k>> \in inside
  BY DEF inside, Working, working
<1> QED
  BY <1>1, <1>2, <1>3, <1>4, <1>5, <1>6 DEF Working, working

\* One who is no dbToFile, and not the tracker, runs while nothing is open.
LEMMA NothingOpen ==
  ASSUME TypeOK, DialogOnly, NEW a, mayRun(a), a # "tracker"
  PROVE  recording = {} /\ ~deleting /\ \A k \in Caller : Working(k) => a = k
  BY Alone DEF TypeOK, VaultTypeOK

LEMMA NothingListed ==
  ASSUME DialogOnly, NEW a, mayRun(a), a # "scan"
  PROVE  scan.stage \notin {"vault", "docs"}
  BY Alone

\* Every dbToFile under way was before, or looks at the document as it is.
JobsFollow == \A k \in Caller :
                job'[k] # None /\ job'[k].stage \in working
                  => \/ job'[k] = job[k]
                     \/ job'[k].stage # "baseline" /\ job'[k].doc = doc'

LEMMA JobsStayCurrent ==
  ASSUME JobCurrent, JobsFollow, UNCHANGED <<disk, doc, madeOn>>
  PROVE  JobCurrent'
  BY DEF JobCurrent, JobsFollow, Working, baseOf, synced, deletedBase

LEMMA JobsStartCurrent ==
  ASSUME JobsFollow, \A k \in Caller : ~Working(k)
  PROVE  JobCurrent'
  BY DEF JobCurrent, JobsFollow, Working

LEMMA FollowSame == ASSUME job' = job PROVE JobsFollow
  BY DEF JobsFollow

LEMMA FollowStart ==
  ASSUME TypeOK, NEW k \in Caller, NEW d \in Doc, NEW over \in BOOLEAN, Start(k, d, over), d = doc'
  PROVE  JobsFollow
<1>1. job'[k] = newJob(d, over) /\ \A j \in Caller \ {k} : job'[j] = job[j]
  BY DEF Start, TypeOK, VaultTypeOK
<1>2. job'[k].doc = d /\ job'[k].stage = "check"
  BY <1>1 DEF newJob
<1> QED
  BY <1>1, <1>2 DEF JobsFollow

LEMMA FollowDone ==
  ASSUME TypeOK, NEW k \in Caller, job' = [job EXCEPT ![k] = None]
  PROVE  JobsFollow
<1>1. \A j \in Caller : job'[j] # None => job'[j] = job[j]
  BY DEF TypeOK, VaultTypeOK
<1> QED
  BY <1>1 DEF JobsFollow

LEMMA ScanStaysFresh ==
  ASSUME ScanFresh, UNCHANGED <<disk, doc>>, scan' = scan
  PROVE  ScanFresh'
  BY DEF ScanFresh

LEMMA ScanNotLooking == ASSUME scan'.stage \notin {"vault", "docs"} PROVE ScanFresh'
  BY DEF ScanFresh

\* Steps that leave the file, its history, the document and the baseline alone.
LEMMA FileStays ==
  ASSUME TypeOK, FileOK, UNCHANGED <<disk, doc, base, madeOn, removed>>,
         deleting' => deleting, recording' \subseteq recording \/ ReadFile,
         ScanFresh', JobsFollow,
         remoteClock' = remoteClock \/ Includes(remoteClock', remoteClock), remoteClock' \in Clock,
         base # None => doc # None
  PROVE  FileOK'
<1>1. RemovedHere' /\ DeletingHere' /\ BaseMade'
  BY DEF FileOK, RemovedHere, DeletingHere, BaseMade
<1>2. ReadsOnDisk'
  BY DEF FileOK, ReadsOnDisk, ReadFile
<1>3. JobCurrent'
  BY JobsStayCurrent DEF FileOK
<1>4. Gone'
  <2>1. base # None => doc.vclock \in Clock
    BY DEF TypeOK, VaultTypeOK, Doc
  <2>2. base # None /\ Includes(remoteClock, doc.vclock) => Includes(remoteClock', doc.vclock)
    BY <2>1, IncludesTrans, PathClocks
  <2>3. UNCHANGED <<doc.deleted, doc.vclock, base.content, base.vclock>>
    OBVIOUS
  <2>4. Includes(remoteClock, doc.vclock)' <=> Includes(remoteClock', doc.vclock)
    BY DEF Includes
  <2> QED
    BY <2>2, <2>3, <2>4 DEF FileOK, Gone
<1> QED
  BY <1>1, <1>2, <1>3, <1>4 DEF FileOK

LEMMA BaseMeansDoc == ASSUME Kept, base # None PROVE doc # None
  BY HeldDocs, HeldBehind DEF Kept

\* The document this device has is not behind its baseline.
LEMMA BaseIsBehind ==
  ASSUME Kept, base # None
  PROVE  /\ doc \in Doc /\ docClock = doc.vclock
         /\ base.vclock \in Clock /\ base.vclock[Self] \in Nat /\ base.vclock[Peer] \in Nat
         /\ NotAfter(base.vclock, docClock)
<1>1. base \in Held /\ doc # None
  BY HeldDocs, BaseMeansDoc DEF Kept
<1> QED
  BY <1>1, HeldBehind, ClocksOfVersions DEF Kept, TypeOK, VaultTypeOK, docClock

LEMMA RemoteSame ==
  ASSUME TypeOK, remote' = remote
  PROVE  remoteClock' = remoteClock /\ remoteClock' \in Clock
<1>1. remoteClock' = remoteClock
  BY DEF remoteClock
<1> QED
  BY <1>1, PathClocks

\* The steps of a database that is not touched.
LEMMA FileQuiet ==
  ASSUME Settled, UNCHANGED <<disk, doc, base, madeOn, removed, remote>>,
         deleting' => deleting, recording' \subseteq recording \/ ReadFile,
         ScanFresh', JobsFollow
  PROVE  FileOK'
BY FileStays, RemoteSame, BaseMeansDoc DEF Settled, Kept

-----------------------------------------------------------------------------
(* The user, the tracker and the server. *)

LEMMA UserFile == ASSUME Settled, DialogOnly, User PROVE FileOK'
<1>1. recording = {} /\ ~deleting /\ \A k \in Caller : ~Working(k)
  BY NothingOpen DEF User, Settled, Kept, Caller
<1>2. scan.stage \notin {"vault", "docs"}
  BY NothingListed DEF User
<1>3. UNCHANGED <<doc, base, job, recording, remote, scan>>
  BY DEF User, Type, SaveTyped, EditFile, DeleteFile, replVars, pullVars, scanVars
<1>4. ScanFresh' /\ JobCurrent' /\ ReadsOnDisk'
  BY <1>1, <1>2, <1>3, ScanNotLooking, JobsStartCurrent, FollowSame DEF ReadsOnDisk
<1>5. CASE \E c \in Content : Type(c)
  BY <1>3, <1>5, FileQuiet, FollowSame, ScanStaysFresh DEF Type, history, Settled, FileOK
<1>6. ASSUME NEW c \in Content, NEW on, NEW heard, Saves(c, on, heard), on = madeOn,
             deleting' = deleting
      PROVE  FileOK'
  <2>1. disk' = c /\ c # None /\ madeOn' = madeOn /\ removed' = None
    BY <1>1, <1>6, NoneIsNothingElse DEF Saves
  <2>2. RemovedHere' /\ DeletingHere' /\ Gone'
    BY <1>1, <1>6, <2>1 DEF RemovedHere, DeletingHere, Gone
  <2>3. BaseMade'
    BY <1>3, <2>1 DEF Settled, FileOK, BaseMade
  <2> QED
    BY <1>4, <2>2, <2>3 DEF FileOK
<1>7. CASE SaveTyped
  <2>1. typed.content \in Content /\ typed.on = madeOn
    BY <1>7 DEF SaveTyped, Settled, SeenOK, TypedHere, Kept, TypeOK, VaultTypeOK, Read
  <2> QED
    BY <1>6, <1>7, <2>1 DEF SaveTyped
<1>8. CASE \E c \in Content : EditFile(c, running)
  BY <1>6, <1>8 DEF EditFile
<1>9. CASE DeleteFile(running)
  <2>1. disk' = None /\ removed' = madeOn /\ madeOn' = madeOn /\ madeOn # None
    BY <1>9, NoneIsNothingElse DEF DeleteFile, Settled, Kept, TypeOK, VaultTypeOK
  <2>2. RemovedHere' /\ DeletingHere' /\ Gone'
    BY <2>1 DEF RemovedHere, DeletingHere, Gone
  <2>3. BaseMade'
    BY <1>3, <2>1 DEF Settled, FileOK, BaseMade
  <2> QED
    BY <1>4, <2>2, <2>3 DEF FileOK
<1> QED
  BY <1>5, <1>7, <1>8, <1>9 DEF User

LEMMA MarkDeletedFile ==
  ASSUME Settled, MarkDeleted, UNCHANGED <<disk, madeOn, remote>>
  PROVE  RemovedHere' /\ BaseMade' /\ Gone'
<1>1. CASE base' = None \/ base'.content = None
  <2>1. removed' \in {None, removed}
    BY DEF MarkDeleted
  <2> QED
    BY <1>1, <2>1 DEF RemovedHere, BaseMade, Gone, Settled, FileOK
<1>2. CASE UNCHANGED <<doc, base, removed>>
  <2>1. Includes(remoteClock', doc.vclock) <=> Includes(remoteClock, doc.vclock)
    BY DEF remoteClock, Includes
  <2>2. Includes(remoteClock, doc.vclock)' <=> Includes(remoteClock', doc.vclock)
    BY <1>2 DEF Includes
  <2> QED
    BY <1>2, <2>1, <2>2 DEF RemovedHere, BaseMade, Gone, Settled, FileOK
<1> QED
  BY <1>1, <1>2 DEF MarkDeleted, deletedBase, synced

LEMMA TrackerFile == ASSUME Settled, DialogOnly, Tracker PROVE FileOK'
<1>1. scan.stage \notin {"vault", "docs"} /\ \A k \in Caller : ~Working(k)
  <2>1. mayRun("tracker")
    BY DEF Tracker
  <2>2. \A k \in Caller : Working(k) => "tracker" = k
    BY <2>1, Alone
  <2> QED
    BY <2>1, <2>2, NothingListed DEF Caller
<1>2. UNCHANGED <<disk, job, remote, scan>>
  BY DEF Tracker, TimerFires, DeleteEvent, CommitRead, pullVars
<1>3. ScanFresh' /\ JobsFollow /\ JobCurrent'
  BY <1>1, <1>2, ScanNotLooking, JobsStartCurrent, FollowSame
<1>4. CASE TimerFires
  BY <1>2, <1>3, <1>4, FileQuiet DEF TimerFires, history
<1>5. CASE DeleteEvent
  <2>1. RemovedHere' /\ BaseMade' /\ Gone'
    BY <1>2, <1>5, MarkDeletedFile DEF DeleteEvent
  <2>2. DeletingHere' /\ ReadsOnDisk'
    BY <1>5 DEF DeleteEvent, DeletingHere, ReadsOnDisk, Settled, FileOK
  <2> QED
    BY <1>3, <2>1, <2>2 DEF FileOK
<1>6. ASSUME NEW r \in recording, CommitRead(r) PROVE FileOK'
  <2> DEFINE clock == incrementVC(docClock, Self)
  <2>1. CASE recordsFile(r.content, doc, base)
    <3>1. base' = synced(r.content, clock) /\ removed' = None /\ r.on = madeOn
          /\ madeOn' = IF r.on = madeOn THEN clock ELSE madeOn
      BY <1>6, <2>1 DEF CommitRead, Recorded, BuildsOn, Settled, SeenOK, ReadsHere
    <3>2. clock[Peer] \in Nat
      BY OwnEdit, ClockPair DEF Settled
    <3> HIDE DEF clock
    <3>3. base'.vclock = clock /\ madeOn' = clock
      BY <3>1 DEF synced
    <3>4. disk' # None
      BY <1>2, <1>6 DEF Settled, FileOK, ReadsOnDisk
    <3>5. deleting' = deleting
      BY <1>6 DEF CommitRead
    <3>6. RemovedHere' /\ BaseMade' /\ Gone' /\ DeletingHere' /\ ReadsOnDisk'
      BY <1>2, <3>1, <3>2, <3>3, <3>4, <3>5
         DEF RemovedHere, BaseMade, Gone, DeletingHere, ReadsOnDisk, Settled, FileOK
    <3> QED
      BY <1>3, <3>6 DEF FileOK
  <2>2. CASE ~recordsFile(r.content, doc, base)
    BY <1>2, <1>3, <1>6, <2>2, FileQuiet DEF CommitRead, history
  <2> QED
    BY <2>1, <2>2
<1> QED
  BY <1>4, <1>5, <1>6 DEF Tracker

LEMMA ServerFile == ASSUME Settled, TypeOK', Deliver \/ PeerWrites PROVE FileOK'
<1>1. UNCHANGED <<disk, doc, base, madeOn, removed, deleting, recording, job, scan>>
  BY DEF Deliver, PeerWrites, vaultVars, events, history, scanVars
<1>2. remoteClock' \in Clock
  BY ZeroIsClock DEF TypeOK, remoteClock, Doc
<1>3. Includes(remoteClock', remoteClock)
  <2>1. CASE Deliver
    <3>1. doc \in Doc /\ remoteClock' = doc.vclock /\ doc.vclock \in Clock
      BY <2>1 DEF Deliver, remoteClock, Settled, Kept, TypeOK, VaultTypeOK, Doc
    <3>2. CASE remote = None
      BY <3>1, <3>2, ClockPair, ZeroIsClock DEF remoteClock
    <3>3. CASE remote # None
      BY <2>1, <3>1, <3>3 DEF Deliver, remoteClock, Dominates
    <3> QED
      BY <3>2, <3>3
  <2>2. CASE PeerWrites
    <3>1. remoteClock' = incrementVC(remoteClock, Peer)
      <4>1. PICK c \in Content, gone \in BOOLEAN :
              remote' = [content |-> c, deleted |-> gone, vclock |-> incrementVC(remoteClock, Peer)]
        BY <2>2 DEF PeerWrites, remoteClock
      <4>2. remote' # None
        BY <4>1, NoneIsNothingElse, EditClock, PathClocks DEF Doc, Settled, Kept
      <4> QED
        BY <4>1, <4>2 DEF remoteClock
    <3> QED
      BY <3>1, EditClock, ClockPair, PathClocks DEF Settled, Kept
  <2> QED
    BY <2>1, <2>2
<1>4. ScanFresh' /\ JobsFollow
  BY <1>1, ScanStaysFresh, FollowSame DEF Settled, FileOK
<1> QED
  BY <1>1, <1>2, <1>3, <1>4, FileStays, BaseMeansDoc DEF Settled, Kept

-----------------------------------------------------------------------------
(* The pull. *)

\* What the pull accepts of a document that was read as it is.
LEMMA PullTakesThemAlong ==
  ASSUME Settled, remote # None, NEW d, d = acceptedOnPull(doc, remote), d # None,
         base # None, base.content # None, disk = None, removed = None, ~d.deleted
  PROVE  d.vclock # base.vclock /\ Includes(remoteClock, d.vclock)
<1>1. /\ doc \in Doc /\ docClock = doc.vclock /\ base.vclock \in Clock
      /\ base.vclock[Self] \in Nat /\ base.vclock[Peer] \in Nat
      /\ NotAfter(base.vclock, docClock)
  BY BaseIsBehind DEF Settled
<1>2. /\ d \in Doc /\ d.vclock[Self] = docClock[Self] /\ d.vclock[Peer] = remoteClock[Peer]
  BY Accepted DEF Settled, Kept
<1>3. remote \in Doc /\ remoteClock = remote.vclock /\ doc # None /\ d.vclock \in Clock
  BY <1>1, <1>2, NoneIsNothingElse DEF remoteClock, Settled, Kept, TypeOK, Doc
<1>4. remoteClock[Self] <= docClock[Self] /\ docClock[Peer] <= remoteClock[Peer]
  BY DEF Settled, Kept, VersionsOK, RemoteAhead
<1>5. resolveOnPull(doc, remote) \in {"take-remote", "silent-merge"}
  BY <1>1, <1>2, <1>3, NoneIsNothingElse, ResolvesSomehow DEF acceptedOnPull
<1>6. d.vclock = base.vclock => docClock = base.vclock
  BY <1>1, <1>2, <1>3, <1>4, ClockPair, PathClocks DEF NotAfter, Settled, Kept
<1>7. CASE resolveOnPull(doc, remote) = "take-remote"
  <2>1. d = remote
    BY <1>7 DEF acceptedOnPull
  <2>2. Dominates(remoteClock, docClock)
    BY <1>1, <1>3, <1>7, Verdicts
  <2>3. remoteClock # docClock /\ Includes(remoteClock, remoteClock)
    BY <2>2, ClockPair, PathClocks DEF Dominates, Settled, Kept
  <2> QED
    BY <1>3, <1>6, <2>1, <2>3
<1>8. CASE resolveOnPull(doc, remote) = "silent-merge"
  <2>1. d = [remote EXCEPT !.vclock = mergeVC(doc.vclock, remote.vclock)]
    BY <1>8 DEF acceptedOnPull
  <2>2. d.deleted = remote.deleted /\ sameState(doc, remote)
    BY <1>1, <1>3, <1>8, <2>1, Verdicts DEF Doc
  <2>3. ~doc.deleted
    BY <2>2 DEF sameState
  <2>4. docClock # base.vclock /\ Includes(remoteClock, docClock)
    BY <1>1, <2>3 DEF Settled, FileOK, Gone
  <2>5. remoteClock[Self] = docClock[Self]
    BY <1>4, <2>4, ClockPair, PathClocks DEF Settled, Kept
  <2> QED
    BY <1>2, <1>3, <1>6, <2>4, <2>5, ClockPair, PathClocks DEF Settled, Kept
<1> QED
  BY <1>5, <1>7, <1>8

LEMMA PullCommitFile == ASSUME Settled, TypeOK', DialogOnly, PullCommit PROVE FileOK'
<1>1. recording = {} /\ ~deleting /\ \A k \in Caller : Working(k) => k = "pull"
  BY NothingOpen DEF PullCommit, Settled, Kept
<1>2. scan.stage \notin {"vault", "docs"}
  BY NothingListed DEF PullCommit
<1>3. /\ UNCHANGED <<disk, base, recording, deleting, madeOn, removed, remote, scan>>
      /\ pulling # None /\ doc' = pulling /\ Start("pull", pulling, FALSE)
  BY DEF PullCommit, commitPullBatch, events, scanVars
<1>4. job["pull"] = None /\ pulling \in Doc /\ remote # None /\ pulling = acceptedOnPull(doc, remote)
  BY <1>3 DEF Start, Settled, Kept, TypeOK, PullStands
<1>5. JobCurrent'
  <2>1. JobsFollow
    BY <1>3, <1>4, FollowStart DEF Caller, Settled, Kept
  <2>2. \A k \in Caller : ~Working(k)
    BY <1>1, <1>4 DEF Working
  <2> QED
    BY <2>1, <2>2, JobsStartCurrent
<1>6. RemovedHere' /\ DeletingHere' /\ ReadsOnDisk' /\ BaseMade' /\ ScanFresh'
  BY <1>1, <1>2, <1>3, ScanNotLooking
     DEF RemovedHere, DeletingHere, ReadsOnDisk, BaseMade, Settled, FileOK
<1>7. Gone'
  <2> SUFFICES ASSUME base # None, base.content # None, disk = None, removed = None,
                      ~pulling.deleted
               PROVE  pulling.vclock # base.vclock /\ Includes(remoteClock', pulling.vclock)
    BY <1>3 DEF Gone, Includes
  <2>1. remoteClock' = remoteClock
    BY <1>3, RemoteSame DEF Settled, Kept
  <2> QED
    BY <1>3, <1>4, <2>1, PullTakesThemAlong
<1> QED
  BY <1>5, <1>6, <1>7 DEF FileOK

LEMMA PullFile == ASSUME Settled, PullDone \/ Drain \/ DrainDone \/ PullJudge PROVE FileOK'
<1>1. UNCHANGED <<disk, doc, base, madeOn, removed, deleting, recording, remote, scan>>
  BY DEF PullDone, Drain, DrainDone, PullJudge, vaultVars, events, history, pullVars, scanVars
<1>2. JobsFollow
  <2>1. CASE PullDone
    BY <2>1, FollowDone DEF PullDone, Caller, Settled, Kept
  <2>2. CASE DrainDone
    BY <2>2, FollowDone DEF DrainDone, Caller, Settled, Kept
  <2>3. CASE Drain /\ stillPending /\ Start("drain", doc, FALSE)
    <3>1. doc \in Doc /\ doc' = doc
      BY <1>1, <2>3 DEF stillPending, Settled, Kept, TypeOK, VaultTypeOK
    <3> QED
      BY <2>3, <3>1, FollowStart DEF Caller, Settled, Kept
  <2>4. CASE job' = job
    BY <2>4, FollowSame
  <2> QED
    BY <2>1, <2>2, <2>3, <2>4 DEF Drain, PullJudge, vaultVars
<1> QED
  BY <1>1, <1>2, FileQuiet, ScanStaysFresh DEF Settled, FileOK

-----------------------------------------------------------------------------
(* The steps of a reconcile, and of sessions, that write nothing. *)

LEMMA ScanFile ==
  ASSUME Settled, DialogOnly, ScanSkipped \/ ScanVault \/ ScanDocs \/ ScanApplied \/ ScanEnd
  PROVE  FileOK'
<1>1. UNCHANGED <<disk, doc, base, madeOn, removed, deleting, recording, remote>>
  BY DEF ScanSkipped, ScanVault, ScanDocs, ScanApplied, ScanEnd, vaultVars, events, history,
         pullVars
<1>2. JobsFollow
  <2>1. CASE ScanApplied
    BY <2>1, FollowDone DEF ScanApplied, Caller, Settled, Kept
  <2> QED
    BY <2>1, FollowSame DEF ScanSkipped, ScanVault, ScanDocs, ScanEnd, vaultVars
<1>3. ScanFresh'
  <2>1. CASE ScanSkipped \/ ScanApplied
    BY <1>1, <2>1, ScanStaysFresh DEF ScanSkipped, ScanApplied, scanVars, Settled, FileOK
  <2>2. CASE ScanVault
    <3>1. scan'.stage = "vault" /\ scan'.has = (disk # None)
      BY <2>2 DEF ScanVault, noScan
    <3> QED
      BY <1>1, <3>1 DEF ScanFresh
  <2>3. CASE ScanDocs
    <3>1. scan'.stage = "docs" /\ scan'.has = scan.has /\ scan'.doc = doc
      BY <2>3 DEF ScanDocs, Settled, Kept, TypeOK, Scan
    <3>2. scan.has <=> disk # None
      BY <2>3 DEF ScanDocs, Settled, FileOK, ScanFresh
    <3> QED
      BY <1>1, <3>1, <3>2 DEF ScanFresh
  <2>4. CASE ScanEnd
    BY <2>4, ScanNotLooking DEF ScanEnd, noScan
  <2> QED
    BY <2>1, <2>2, <2>3, <2>4
<1> QED
  BY <1>1, <1>2, <1>3, FileQuiet

LEMMA SessionsFile ==
  ASSUME Settled, Stop \/ StartUp \/ StampVaultDrift \/ CatchUp \/ CatchUpEnds \/ DialogDone
  PROVE  FileOK'
<1>1. UNCHANGED <<disk, doc, base, madeOn, removed, remote>>
  BY DEF Stop, StartUp, StampVaultDrift, CatchUp, CatchUpEnds, DialogDone, vaultVars, history,
         pullVars, replVars
<1>2. deleting' => deleting
  BY DEF Stop, StartUp, StampVaultDrift, CatchUp, CatchUpEnds, DialogDone, vaultVars, events
<1>3. recording' \subseteq recording \/ ReadFile
  BY DEF Stop, StartUp, StampVaultDrift, CatchUp, CatchUpEnds, DialogDone, vaultVars
<1>4. JobsFollow
  <2>1. CASE Stop
    BY <2>1 DEF Stop, JobsFollow
  <2>2. CASE DialogDone
    BY <2>2, FollowDone DEF DialogDone, Caller, Settled, Kept
  <2> QED
    BY <2>1, <2>2, FollowSame DEF StartUp, StampVaultDrift, CatchUp, CatchUpEnds, vaultVars
<1>5. ScanFresh'
  <2>1. CASE Stop
    BY <2>1, ScanNotLooking DEF Stop, noScan
  <2>2. CASE scan' = scan
    BY <1>1, <2>2, ScanStaysFresh DEF Settled, FileOK
  <2> QED
    BY <2>1, <2>2 DEF StartUp, StampVaultDrift, CatchUp, CatchUpEnds, DialogDone, scanVars,
                      replVars
<1> QED
  BY <1>1, <1>2, <1>3, <1>4, <1>5, FileQuiet

-----------------------------------------------------------------------------
(* dbToFile. *)

\* A file that builds on the document as it is has seen what its baseline says.
LEMMA DocIsSeen ==
  ASSUME Settled, base # None
  PROVE  doc.vclock[Peer] >= base.vclock[Peer]
  BY BaseIsBehind, PathClocks DEF NotAfter, Settled, Kept

LEMMA CheckDiskFile ==
  ASSUME Settled, NEW k \in Caller, CheckDisk(k),
         recording = {}, ~deleting, \A j \in Caller : Working(j) => j = k,
         ScanFresh', remote' = remote
  PROVE  FileOK'
<1>1. /\ UNCHANGED <<disk, doc, base, deleting>> /\ job[k] # None /\ job[k].stage = "check"
      /\ job[k].doc = doc
  BY DEF CheckDisk, at, Settled, FileOK, JobCurrent, Working, working
<1>2. /\ job[k] \in Job /\ doc \in Doc /\ doc.vclock \in Clock
      /\ verdict(job[k]) \in {"keep", "write", "decline"}
      /\ afterLook(job[k]) = CASE verdict(job[k]) = "keep"    -> "baseline"
                               [] verdict(job[k]) = "write"   -> "write"
                               [] verdict(job[k]) = "decline" -> "declined"
      /\ afterLook(job[k]) \in {"baseline", "write", "declined"}
  BY <1>1, VerdictOf, VaultTypes DEF Settled, Kept, TypeOK, VaultTypeOK, Job, Doc
<1>3. /\ job'[k].stage = afterLook(job[k]) /\ job'[k].doc = doc
      /\ \A j \in Caller \ {k} : job'[j] = job[j]
  BY <1>1, <1>2, JobMoves DEF CheckDisk, Settled, Kept, TypeOK
<1>4. CASE verdict(job[k]) = "keep"
  <2>1. Integrated(doc)
    BY <1>1, <1>2, <1>4 DEF CheckDisk
  <2>2. madeOn' = doc.vclock /\ recording' = {}
    BY <2>1 DEF Integrated, BuildsOn
  <2>3. vaultWrite(disk, doc, base) = "keep"
    BY <1>1, <1>4 DEF verdict
  <2>4. disk = baseOf(doc).content /\ (~doc.deleted => disk # None)
    BY <1>2, <2>3, LookMeans, BaseOfType, NoneIsNothingElse DEF Doc
  <2>5. removed' = None
    <3>1. ~doc.deleted => removed = None
      BY <2>4 DEF Settled, FileOK, RemovedHere
    <3>2. madeOn # None
      BY NoneIsNothingElse DEF Settled, Kept, TypeOK, VaultTypeOK
    <3> QED
      BY <2>1, <3>1, <3>2 DEF Integrated, goesAlong
  <2>6. RemovedHere' /\ DeletingHere' /\ ReadsOnDisk'
    BY <1>1, <2>2, <2>5 DEF RemovedHere, DeletingHere, ReadsOnDisk
  <2>7. baseOf(doc)' = baseOf(doc)
    BY <1>1 DEF baseOf, synced, deletedBase
  <2>8. JobCurrent'
    <3> SUFFICES ASSUME NEW j \in Caller, Working(j)'
                 PROVE  job'[j].doc = doc' /\ madeOn' = doc'.vclock /\ disk' = baseOf(doc)'.content
      BY DEF JobCurrent
    <3>1. j = k
      BY <1>3 DEF Working
    <3> QED
      BY <1>1, <1>3, <2>2, <2>4, <2>7, <3>1
  <2>9. BaseMade'
    BY <1>1, <2>2, DocIsSeen DEF BaseMade
  <2>10. Gone'
    BY <1>1, <2>4 DEF Gone
  <2> QED
    BY <2>6, <2>8, <2>9, <2>10 DEF FileOK
<1>5. CASE verdict(job[k]) # "keep"
  <2>1. UNCHANGED <<madeOn, removed, recording>>
    BY <1>2, <1>5 DEF CheckDisk, history
  <2>2. job'[k].stage # "baseline"
    BY <1>2, <1>3, <1>5
  <2>3. JobsFollow
    BY <1>1, <1>3, <2>2 DEF JobsFollow
  <2> QED
    BY <1>1, <2>1, <2>3, FileQuiet
<1> QED
  BY <1>4, <1>5

LEMMA WriteDiskFile ==
  ASSUME Settled, NEW k \in Caller, WriteDisk(k),
         recording = {}, ~deleting, \A j \in Caller : Working(j) => j = k,
         scan' = scan, scan.stage \notin {"vault", "docs"}, remote' = remote
  PROVE  FileOK'
<1>1. /\ UNCHANGED <<doc, base, deleting, recording>> /\ job[k] # None /\ job[k].stage = "write"
      /\ job[k].doc = doc /\ doc \in Doc
  BY DEF WriteDisk, at, Settled, FileOK, JobCurrent, Working, working, Kept, TypeOK,
         VaultTypeOK, Job
<1>2. PICK stage \in {"declined", "failed", "baseline"} : job' = [job EXCEPT ![k].stage = stage]
  BY DEF WriteDisk, declinedByWriter
<1>3. /\ job'[k].stage = stage /\ job'[k].doc = doc
      /\ \A j \in Caller \ {k} : job'[j] = job[j]
      /\ job[k] \in Job
  BY <1>1, <1>2, JobMoves DEF Settled, Kept, TypeOK
<1>4. ScanFresh'
  BY ScanNotLooking
<1>5. \A s : job' = [job EXCEPT ![k].stage = s] => s = stage
  BY <1>2, <1>3 DEF Settled, Kept, TypeOK, VaultTypeOK, Job
<1>6. CASE stage # "baseline"
  <2>1. UNCHANGED <<disk, madeOn, removed>>
    BY <1>5, <1>6 DEF WriteDisk, declinedByWriter, history
  <2>2. JobsFollow
    BY <1>3, <1>6 DEF JobsFollow, working
  <2> QED
    BY <1>1, <1>4, <2>1, <2>2, FileQuiet
<1>7. CASE stage = "baseline"
  <2>1. /\ disk' = IF doc.deleted THEN None ELSE doc.content
        /\ madeOn' = doc.vclock /\ removed' = None
    BY <1>1, <1>5, <1>7 DEF WriteDisk, declinedByWriter
  <2>2. RemovedHere' /\ DeletingHere' /\ ReadsOnDisk'
    BY <1>1, <2>1 DEF RemovedHere, DeletingHere, ReadsOnDisk
  <2>3. baseOf(doc)' = baseOf(doc) /\ disk' = baseOf(doc).content
    BY <1>1, <2>1, BaseOfType DEF baseOf, synced, deletedBase
  <2>4. JobCurrent'
    <3> SUFFICES ASSUME NEW j \in Caller, Working(j)'
                 PROVE  job'[j].doc = doc' /\ madeOn' = doc'.vclock /\ disk' = baseOf(doc)'.content
      BY DEF JobCurrent
    <3>1. j = k
      BY <1>3 DEF Working
    <3> QED
      BY <1>1, <1>3, <2>1, <2>3, <3>1
  <2>5. BaseMade'
    BY <1>1, <2>1, DocIsSeen DEF BaseMade
  <2>6. Gone'
    BY <1>1, <2>1, NoneIsNothingElse DEF Gone, Doc
  <2> QED
    BY <1>4, <2>2, <2>4, <2>5, <2>6 DEF FileOK
<1> QED
  BY <1>6, <1>7

LEMMA BaselineFile ==
  ASSUME Settled, NEW k \in Caller, EstablishBaseline(k), ScanFresh', remote' = remote
  PROVE  FileOK'
<1>1. /\ UNCHANGED <<disk, doc, deleting, recording, madeOn, removed>>
      /\ job[k] # None /\ job[k].stage = "baseline" /\ base' = baseOf(job[k].doc)
      /\ job' = [job EXCEPT ![k].stage = "applied"]
  BY DEF EstablishBaseline, at, history
<1>2. job[k].doc = doc /\ madeOn = doc.vclock /\ disk = baseOf(doc).content
  BY <1>1 DEF Settled, FileOK, JobCurrent, Working, working
<1>3. job[k] \in Job /\ doc \in Doc
  BY <1>1, <1>2 DEF Settled, Kept, TypeOK, VaultTypeOK, Job
<1>4. base'.vclock = doc.vclock /\ base'.content = disk /\ doc.vclock[Peer] \in Nat
  BY <1>1, <1>2, <1>3, BaseOfType, ClockPair DEF Doc
<1>5. JobCurrent'
  <2>1. job'[k].stage = "applied" /\ \A j \in Caller \ {k} : job'[j] = job[j]
    BY <1>1, JobMoves DEF Settled, Kept, TypeOK
  <2>2. JobsFollow
    BY <2>1 DEF JobsFollow, working
  <2> QED
    BY <1>1, <2>2, JobsStayCurrent DEF Settled, FileOK
<1>6. BaseMade' /\ Gone'
  BY <1>1, <1>2, <1>4 DEF BaseMade, Gone
<1>7. RemovedHere' /\ DeletingHere' /\ ReadsOnDisk'
  BY <1>1 DEF RemovedHere, DeletingHere, ReadsOnDisk, Settled, FileOK
<1> QED
  BY <1>5, <1>6, <1>7 DEF FileOK

LEMMA ApplyFile == ASSUME Settled, DialogOnly, Apply PROVE FileOK'
<1>1. PICK k \in Caller : mayRun(k) /\ (JobStep(k) \/ JobFails(k))
  BY DEF Apply
<1>2. UNCHANGED <<scan, remote>>
  BY DEF Apply, pullVars, scanVars
<1>3. recording = {} /\ ~deleting /\ \A j \in Caller : Working(j) => j = k
  BY <1>1, NothingOpen DEF Settled, Kept, Caller
<1>4. scan.stage \notin {"vault", "docs"}
  <2>1. CASE k = "scan"
    <3>1. job["scan"] # None
      BY <1>1, <2>1 DEF JobStep, CheckDisk, WriteDisk, EstablishBaseline, JobFails, at
    <3> QED
      BY <3>1 DEF Settled, SeenOK, ScanWaits
  <2>2. CASE k # "scan"
    BY <1>1, <2>2, NothingListed
  <2> QED
    BY <2>1, <2>2
<1>5. ScanFresh'
  BY <1>2, <1>4, ScanNotLooking
<1>6. CASE JobFails(k)
  <2>1. /\ UNCHANGED <<disk, doc, base, madeOn, removed, deleting, recording>>
        /\ job[k] # None /\ job' = [job EXCEPT ![k].stage = "failed"]
    BY <1>6 DEF JobFails, at, events, history
  <2>2. job'[k].stage = "failed" /\ \A j \in Caller \ {k} : job'[j] = job[j]
    BY <2>1, JobMoves DEF Settled, Kept, TypeOK
  <2>3. JobsFollow
    BY <2>2 DEF JobsFollow, working
  <2> QED
    BY <1>2, <1>5, <2>1, <2>3, FileQuiet
<1> QED
  BY <1>1, <1>2, <1>3, <1>4, <1>5, <1>6, CheckDiskFile, WriteDiskFile, BaselineFile DEF JobStep

-----------------------------------------------------------------------------
(* The reconcile's acts, and the answers. *)

LEMMA ScanActFile == ASSUME Settled, DialogOnly, ScanAct PROVE FileOK'
<1>1. scan.stage = "docs" /\ scan.doc = doc /\ (scan.has <=> disk # None)
  BY DEF ScanAct, Settled, FileOK, ScanFresh
<1>2. recording = {} /\ ~deleting /\ \A k \in Caller : ~Working(k)
  <2>1. recording = {} /\ ~deleting /\ \A k \in Caller : Working(k) => k = "scan"
    BY NothingOpen DEF ScanAct, Settled, Kept
  <2>2. ~Working("scan")
    BY <1>1 DEF Settled, SeenOK, ScanWaits, Working
  <2> QED
    BY <2>1, <2>2
<1>3. ScanFresh'
  <2>1. scan'.stage = "acting"
    BY DEF ScanAct, Settled, Kept, TypeOK, Scan
  <2> QED
    BY <2>1, ScanNotLooking
<1>4. remote' = remote
  BY DEF ScanAct, pullVars
<1>5. ASSUME UNCHANGED <<disk, doc, base, madeOn, removed, deleting>>,
             recording' = recording \/ ReadFile, JobsFollow
      PROVE  FileOK'
  BY <1>3, <1>4, <1>5, FileQuiet
<1>6. CASE UNCHANGED vaultVars
  BY <1>5, <1>6, FollowSame DEF vaultVars, events, history
<1>7. CASE tryPush /\ UNCHANGED <<disk, doc, base, typed, timer, deleting, job, edits, history>>
  BY <1>5, <1>7, FollowSame DEF tryPush, history
<1>8. CASE chosen = "align" /\ Align(scan.doc)
  <2>1. base' = base
    BY <1>8, AlignChangesNothing DEF Settled
  <2> QED
    BY <1>5, <1>8, <2>1, FollowSame DEF Align, events, history
<1>9. CASE chosen = "adopt" /\ Adopt(scan.doc)
  <2>1. /\ disk # None /\ doc \in Doc /\ UNCHANGED <<disk, doc, job, deleting>>
        /\ base' = synced(doc.content, doc.vclock) /\ Integrated(doc) /\ ~doc.deleted
    BY <1>1, <1>9, Chosen DEF Adopt, AdoptDocVclock, Settled, Kept
  <2>2. madeOn' = doc.vclock /\ recording' = {} /\ doc.vclock[Peer] \in Nat
    BY <1>2, <2>1, ClockPair DEF Integrated, BuildsOn, Doc
  <2>3. removed' = None
    BY <2>1, NoneIsNothingElse
       DEF Integrated, goesAlong, Settled, FileOK, RemovedHere, Kept, TypeOK, VaultTypeOK
  <2>4. RemovedHere' /\ DeletingHere' /\ ReadsOnDisk' /\ Gone'
    BY <1>2, <2>1, <2>2, <2>3 DEF RemovedHere, DeletingHere, ReadsOnDisk, Gone
  <2>5. BaseMade'
    BY <2>1, <2>2 DEF BaseMade, synced
  <2>6. JobCurrent'
    BY <1>2, <2>1, FollowSame, JobsStartCurrent
  <2> QED
    BY <1>3, <2>4, <2>5, <2>6 DEF FileOK
<1>10. CASE chosen = "apply" /\ Start("scan", scan.doc, FALSE)
            /\ UNCHANGED <<disk, doc, base, events, recording, history>>
  <2>1. scan.doc \in Doc /\ scan.doc = doc'
    BY <1>1, <1>10, Chosen DEF Settled, Kept
  <2>2. JobsFollow
    BY <1>10, <2>1, FollowStart DEF Caller, Settled, Kept
  <2> QED
    BY <1>5, <1>10, <2>2 DEF events, history
<1>11. CASE MarkDeleted /\ UNCHANGED <<disk, deleting, recording, job, madeOn>>
  <2>1. RemovedHere' /\ BaseMade' /\ Gone'
    BY <1>4, <1>11, MarkDeletedFile
  <2>2. DeletingHere' /\ ReadsOnDisk'
    BY <1>11 DEF DeletingHere, ReadsOnDisk, Settled, FileOK
  <2>3. JobCurrent'
    BY <1>2, <1>11, FollowSame, JobsStartCurrent
  <2> QED
    BY <1>3, <2>1, <2>2, <2>3 DEF FileOK
<1> QED
  BY <1>6, <1>7, <1>8, <1>9, <1>10, <1>11 DEF ScanAct

LEMMA DialogIsFree ==
  ASSUME Settled, DialogOnly, mayRun("dialog"), job["dialog"] = None
  PROVE  /\ recording = {} /\ ~deleting /\ \A k \in Caller : ~Working(k)
         /\ scan.stage \notin {"vault", "docs"}
<1>1. recording = {} /\ ~deleting /\ \A k \in Caller : Working(k) => k = "dialog"
  BY NothingOpen DEF Settled, Kept
<1>2. scan.stage \notin {"vault", "docs"}
  BY NothingListed
<1> QED
  BY <1>1, <1>2 DEF Working

LEMMA AnswerFile == ASSUME Settled, DialogOnly, Answer PROVE FileOK'
<1>1. /\ recording = {} /\ ~deleting /\ \A k \in Caller : ~Working(k)
      /\ scan.stage \notin {"vault", "docs"}
  BY DialogIsFree DEF Answer
<1>2. UNCHANGED <<scan, remote>>
  BY DEF Answer, pullVars
<1>3. ScanFresh'
  BY <1>1, <1>2, ScanNotLooking
<1>4. CASE UNCHANGED vaultVars
  BY <1>2, <1>3, <1>4, FileQuiet, FollowSame DEF vaultVars, events, history
<1>5. CASE TakeDocToVault(shown.doc)
  <2>1. /\ doc \in Doc /\ Start("dialog", doc, TRUE) /\ doc' = doc
        /\ UNCHANGED <<disk, base, madeOn, removed, deleting, recording>>
    BY <1>5 DEF TakeDocToVault, stands, events, history, Settled, Kept, TypeOK, VaultTypeOK
  <2>2. JobsFollow
    BY <2>1, FollowStart DEF Caller, Settled, Kept
  <2> QED
    BY <1>2, <1>3, <2>1, <2>2, FileQuiet
<1>6. CASE KeepFile(shown.doc)
  <2> DEFINE clock == incrementVC(docClock, Self)
             r == [content |-> disk, on |-> madeOn]
  <2>1. /\ base' = synced(disk, clock) /\ Recorded(r, clock) /\ disk # None
        /\ UNCHANGED <<disk, deleting, job>>
    BY <1>6 DEF KeepFile
  <2>2. clock[Peer] \in Nat
    BY OwnEdit, ClockPair DEF Settled
  <2>3. madeOn' = clock /\ recording' = {} /\ removed' = None
    BY <1>1, <2>1 DEF Recorded, BuildsOn
  <2> HIDE DEF clock, r
  <2>4. RemovedHere' /\ DeletingHere' /\ ReadsOnDisk' /\ Gone'
    BY <1>1, <2>1, <2>3 DEF RemovedHere, DeletingHere, ReadsOnDisk, Gone
  <2>5. BaseMade'
    BY <2>1, <2>2, <2>3 DEF BaseMade, synced
  <2>6. JobCurrent'
    BY <1>1, <2>1, FollowSame, JobsStartCurrent
  <2> QED
    BY <1>3, <2>4, <2>5, <2>6 DEF FileOK
<1>7. CASE KeepDeletion(shown.doc)
  <2>1. base'.content = None /\ removed' = None /\ UNCHANGED <<disk, deleting, recording, job>>
    BY <1>7 DEF KeepDeletion, deletedBase, synced, events
  <2>2. RemovedHere' /\ DeletingHere' /\ ReadsOnDisk' /\ Gone' /\ BaseMade'
    BY <1>1, <2>1 DEF RemovedHere, DeletingHere, ReadsOnDisk, Gone, BaseMade
  <2>3. JobCurrent'
    BY <1>1, <2>1, FollowSame, JobsStartCurrent
  <2> QED
    BY <1>3, <2>2, <2>3 DEF FileOK
<1> QED
  BY <1>4, <1>5, <1>6, <1>7 DEF Answer, KeepVault, TakeDoc

\* What the user keeps against the other devices, they have not.
LEMMA KeptIsNotTold ==
  ASSUME Settled, conflict # None, resolveOnPull(doc, conflict) = "concurrent"
  PROVE  ~Includes(remoteClock, doc.vclock)
<1>1. /\ doc \in Doc /\ conflict \in Doc
      /\ conflict.vclock[Self] <= docClock[Self] /\ conflict.vclock[Peer] > docClock[Peer]
      /\ conflict.vclock[Self] = remoteClock[Self]
  BY ConflictIsAhead DEF Settled
<1>2. doc.vclock = docClock /\ conflict.vclock \in Clock
  BY <1>1, NoneIsNothingElse DEF docClock, Doc
<1>3. Concurrent(docClock, conflict.vclock) \/ docClock = conflict.vclock
  BY <1>1, <1>2, Verdicts
<1> QED
  BY <1>1, <1>2, <1>3, ClockPair, PathClocks DEF Concurrent, Settled, Kept

LEMMA AnswerPullFile == ASSUME Settled, DialogOnly, AnswerPull PROVE FileOK'
<1> DEFINE k == decidedClock(doc, conflict)
<1>1. /\ recording = {} /\ ~deleting /\ \A j \in Caller : ~Working(j)
      /\ scan.stage \notin {"vault", "docs"}
  BY DialogIsFree DEF AnswerPull
<1>2. UNCHANGED <<scan, remote>> /\ conflict # None
  BY DEF AnswerPull, pullVars, scanVars
<1>3. ScanFresh'
  BY <1>1, <1>2, ScanNotLooking
<1>4. CASE UNCHANGED vaultVars
  BY <1>2, <1>3, <1>4, FileQuiet, FollowSame DEF vaultVars, events, history
<1>5. CASE resolveOnPull(doc, conflict) = "concurrent" /\ (KeepLocalDoc(conflict) \/ TakeRemoteDoc(conflict))
  <2>1. /\ doc \in Doc /\ conflict \in Doc /\ conflict.vclock[Peer] > docClock[Peer]
        /\ doc.vclock = docClock /\ conflict.vclock \in Clock /\ conflict.vclock[Peer] \in Nat
    BY <1>2, <1>5, ConflictIsAhead, NoneIsNothingElse, ClockPair DEF docClock, Doc, Settled
  <2>2. k \in Clock /\ k[Peer] \in Nat
    BY <2>1, DecidedClock, ClockPair
  <2>3. ~Includes(remoteClock, doc.vclock)
    BY <1>2, <1>5, KeptIsNotTold
  <2>4. base # None /\ base.content # None /\ disk = None /\ removed = None => doc.deleted
    BY <2>3 DEF Settled, FileOK, Gone
  <2> HIDE DEF k
  <2>5. CASE KeepLocalDoc(conflict)
    <3>1. doc' = [doc EXCEPT !.vclock = k] /\ UNCHANGED <<disk, deleting>>
      BY <2>5 DEF KeepLocalDoc, k
    <3>2. /\ doc' \in Doc /\ doc'.vclock = k /\ doc'.deleted = doc.deleted
          /\ baseOf(doc') = synced(baseOf(doc).content, k)
      BY <2>1, <2>2, <3>1, MarkedType DEF Doc
    <3>3. CASE baselineHoldsContent(doc)
      <4>1. /\ base' = baseOf(doc') /\ BuildsOn(k, recording)
            /\ removed' = goesAlong(removed, k) /\ job' = job
        BY <2>5, <3>2, <3>3 DEF KeepLocalDoc
      <4>2. madeOn' = k /\ recording' = {}
        BY <1>1, <4>1 DEF BuildsOn
      <4>3. /\ removed # None => removed' = k /\ disk = None
            /\ removed = None => removed' = None
        BY <4>1, NoneIsNothingElse
           DEF goesAlong, Settled, FileOK, RemovedHere, Kept, TypeOK, VaultTypeOK
      <4>4. RemovedHere' /\ DeletingHere' /\ ReadsOnDisk'
        BY <1>1, <3>1, <4>2, <4>3 DEF RemovedHere, DeletingHere, ReadsOnDisk
      <4>5. BaseMade'
        BY <2>2, <3>2, <4>1, <4>2, BaseOfType DEF BaseMade
      <4>6. Gone'
        <5>1. base'.content = None \/ ~doc.deleted
          BY <2>1, <3>2, <4>1, BaseOfType DEF synced
        <5>2. ~doc.deleted => base # None /\ base.content # None
          BY <2>1, <3>3, NoneIsNothingElse DEF baselineHoldsContent, Doc
        <5>3. removed' = None => removed = None
          BY <2>2, <4>3, NoneIsNothingElse
        <5> QED
          BY <2>4, <3>1, <5>1, <5>2, <5>3 DEF Gone
      <4>7. JobCurrent'
        BY <1>1, <4>1, FollowSame, JobsStartCurrent
      <4> QED
        BY <1>3, <4>4, <4>5, <4>6, <4>7 DEF FileOK
    <3>4. CASE ~baselineHoldsContent(doc)
      <4>1. Start("dialog", doc', FALSE) /\ UNCHANGED <<base, recording, madeOn, removed>>
        BY <2>5, <3>4 DEF KeepLocalDoc
      <4>2. JobCurrent'
        <5>1. JobsFollow
          BY <3>2, <4>1, FollowStart DEF Caller, Settled, Kept
        <5> QED
          BY <1>1, <5>1, JobsStartCurrent
      <4>3. RemovedHere' /\ DeletingHere' /\ ReadsOnDisk' /\ BaseMade'
        BY <1>1, <3>1, <4>1
           DEF RemovedHere, DeletingHere, ReadsOnDisk, BaseMade, Settled, FileOK
      <4>4. Gone'
        BY <2>4, <3>1, <3>2, <4>1 DEF Gone
      <4> QED
        BY <1>3, <4>2, <4>3, <4>4 DEF FileOK
    <3> QED
      BY <3>3, <3>4
  <2>6. CASE TakeRemoteDoc(conflict)
    <3>1. /\ doc' = IF conflict.deleted THEN [conflict EXCEPT !.vclock = k] ELSE conflict
          /\ Start("dialog", doc', FALSE)
          /\ UNCHANGED <<disk, base, deleting, recording, madeOn, removed>>
      BY <2>6 DEF TakeRemoteDoc, k, events
    <3>2. doc' \in Doc /\ (conflict.deleted => doc'.deleted)
      BY <2>1, <2>2, <3>1, MarkedType DEF Doc
    <3>3. JobCurrent'
      <4>1. JobsFollow
        BY <3>1, <3>2, FollowStart DEF Caller, Settled, Kept
      <4> QED
        BY <1>1, <4>1, JobsStartCurrent
    <3>4. RemovedHere' /\ DeletingHere' /\ ReadsOnDisk' /\ BaseMade'
      BY <1>1, <3>1
         DEF RemovedHere, DeletingHere, ReadsOnDisk, BaseMade, Settled, FileOK
    <3>5. Gone'
      <4> SUFFICES ASSUME base # None, ~conflict.deleted
                   PROVE  doc'.vclock # base.vclock /\ Includes(remoteClock', doc'.vclock)
        BY <3>1, <3>2 DEF Gone, Includes
      <4>1. doc' = conflict /\ remoteClock' = remoteClock
        BY <1>2, <3>1, RemoteSame DEF Settled, Kept
      <4>2. Includes(remoteClock, conflict.vclock)
        BY <1>2 DEF Settled, Kept, VersionsOK, RemoteAhead, remoteClock
      <4>3. conflict.vclock # base.vclock
        BY <2>1, BaseIsBehind, PathClocks DEF NotAfter, Settled, Kept
      <4> QED
        BY <4>1, <4>2, <4>3
    <3> QED
      BY <1>3, <3>3, <3>4, <3>5 DEF FileOK
  <2> QED
    BY <1>5, <2>5, <2>6
<1> QED
  BY <1>4, <1>5 DEF AnswerPull

-----------------------------------------------------------------------------
(* The whole. *)

LEMMA InitFile == Init => FileOK
<1> SUFFICES ASSUME Init PROVE FileOK
  OBVIOUS
<1>1. /\ recording = {} /\ ~deleting /\ removed = None /\ scan = noScan
      /\ \A k \in Caller : job[k] = None
  BY DEF Init, VaultInit
<1>2. RemovedHere /\ DeletingHere /\ ReadsOnDisk /\ JobCurrent /\ ScanFresh
  BY <1>1 DEF RemovedHere, DeletingHere, ReadsOnDisk, JobCurrent, Working, ScanFresh, noScan
<1>3. BaseMade /\ Gone
  <2>1. CASE VaultInit
    BY <2>1 DEF VaultInit, BaseMade, Gone
  <2>2. ASSUME NEW c \in Content, NEW clock, clock = incrementVC(ZeroClock, Peer),
               base = synced(c, clock), madeOn = clock, disk = c
        PROVE  BaseMade /\ Gone
    <3>1. clock \in Clock
      BY <2>2, ZeroIsClock, EditClock
    <3>2. base.vclock = clock /\ clock[Peer] \in Nat /\ disk # None
      BY <2>2, <3>1, ClockPair, NoneIsNothingElse DEF synced
    <3> QED
      BY <2>2, <3>2 DEF BaseMade, Gone
  <2> QED
    BY <2>1, <2>2 DEF Init
<1> QED
  BY <1>2, <1>3 DEF FileOK

\* A stop, wherever it comes, leaves a file that has seen its baseline.
LEMMA StopSeen == ASSUME Settled, Stop PROVE SeenOK'
<1>1. /\ typed' = None /\ recording' = {} /\ scan' = noScan
      /\ \A k \in Caller : job'[k] = None
      /\ UNCHANGED <<disk, base, madeOn>>
  BY DEF Stop, history
<1>2. BaseSeen'
  BY <1>1 DEF Settled, FileOK, BaseMade, BaseSeen
<1> QED
  BY <1>1, <1>2 DEF SeenOK, TypedHere, ReadsHere, WrittenSeen, ScanWaits, Caller

LEMMA StepSettled == ASSUME DialogOnly PROVE Settled /\ [Next]_vars => Settled'
<1> SUFFICES ASSUME Settled, [Next]_vars PROVE Settled'
  OBVIOUS
<1>1. RaceFree /\ AllClosed
  BY DEF DialogOnly, RaceFree, AllClosed
<1>2. Kept'
  BY <1>1, StepKeeps DEF Settled
<1>3. TypeOK'
  BY <1>2 DEF Kept
<1>4. SeenOK'
  <2>1. CASE Stop
    BY <2>1, StopSeen
  <2>2. CASE ~Stop
    BY <1>1, <2>2, StepSeen DEF Settled, QuitsBetweenWrites
  <2> QED
    BY <2>1, <2>2
<1>5. FileOK'
  <2>1. CASE UNCHANGED vars
    <3>1. UNCHANGED <<disk, doc, base, madeOn, removed, deleting, recording, job, scan, remote>>
      BY <2>1 DEF vars, vaultVars, events, history, replVars, pullVars, scanVars
    <3> QED
      BY <3>1, FileQuiet, FollowSame, ScanStaysFresh DEF Settled, FileOK
  <2> QED
    BY <1>3, <2>1, UserFile, TrackerFile, ServerFile, PullFile, PullCommitFile, ScanFile,
       SessionsFile, ApplyFile, ScanActFile, AnswerFile, AnswerPullFile DEF Next, Pull
<1> QED
  BY <1>2, <1>4, <1>5 DEF Settled

(***************************************************************************)
(* fileToDb never records a text over another device's text that it was    *)
(* made without (vault-sync.ts). While nobody cuts in between a text read  *)
(* and its commit, a pull's verdict and its commit, or a dbToFile's look   *)
(* and its baseline, that is so however fileToDb, markDeleted, the looks   *)
(* of dbToFile, reconciles, dialogs, failures, quits and restarts come     *)
(* between each other, the plugin not stopping between a write to the disk *)
(* and its baseline; and through a kill between those two as well, while   *)
(* everything but an open dialog runs to its end before another actor      *)
(* does.                                                                   *)
(***************************************************************************)
THEOREM NothingSeenIsOverwritten ==
  /\ Interrupts \cap {"record", "pull", "write", "baseline"} = {}
       => (Spec /\ [][QuitsBetweenWrites]_vars => RecordsOnlyOverSeen)
  /\ Interrupts \subseteq {"dialog"} => (Spec => RecordsOnlyOverSeen)
<1>1. ASSUME Interrupts \cap {"record", "pull", "write", "baseline"} = {}
      PROVE  Spec /\ [][QuitsBetweenWrites]_vars => RecordsOnlyOverSeen
  <2>1. AllClosed /\ RaceFree
    BY <1>1 DEF AllClosed, RaceFree
  <2>2. Init => Kept /\ SeenOK
    BY InitKeeps, InitSeen
  <2>3. (Kept /\ SeenOK) /\ [Next]_vars /\ [QuitsBetweenWrites]_vars => (Kept /\ SeenOK)'
    BY <2>1, StepKeeps, StepSeen
  <2>4. (Kept /\ SeenOK) /\ [Next]_vars
          => [\A r \in recording :
                CommitRead(r) /\ doc # None /\ doc' # doc
                  => doc.deleted \/ r.on[Peer] >= doc.vclock[Peer]]_vars
    BY <2>1, RecordsSeen
  <2> QED
    BY <2>2, <2>3, <2>4, PTL DEF Spec, RecordsOnlyOverSeen
<1>2. ASSUME Interrupts \subseteq {"dialog"}
      PROVE  Spec => RecordsOnlyOverSeen
  <2>1. DialogOnly /\ AllClosed
    BY <1>2 DEF DialogOnly, AllClosed
  <2>2. Init => Settled
    BY InitKeeps, InitSeen, InitFile DEF Settled
  <2>3. Settled /\ [Next]_vars => Settled'
    BY <2>1, StepSettled
  <2>4. Settled /\ [Next]_vars
          => [\A r \in recording :
                CommitRead(r) /\ doc # None /\ doc' # doc
                  => doc.deleted \/ r.on[Peer] >= doc.vclock[Peer]]_vars
    BY <2>1, RecordsSeen DEF Settled
  <2> QED
    BY <2>2, <2>3, <2>4, PTL DEF Spec, RecordsOnlyOverSeen
<1> QED
  BY <1>1, <1>2

\* Nothing but markDeleted writes a tombstone of this device unasked.
LEMMA OnlyMarkDeleted ==
  ASSUME Kept, [Next]_vars, tombstonesHere
  PROVE  MarkDeleted /\ ((Tracker /\ DeleteEvent) \/ (ScanAct /\ chosen = "delete"))
<1>1. doc' # doc /\ doc # None /\ ~doc.deleted /\ doc'.deleted
      /\ UNCHANGED <<shown, conflict>> /\ doc.vclock[Self] = docClock[Self]
      /\ doc'.vclock[Self] > doc.vclock[Self]
  BY DEF tombstonesHere, answers, docClock
<1>2. TypeOK
  BY DEF Kept
<1>3. ~(\/ PullDone \/ Drain \/ DrainDone
        \/ ScanSkipped \/ ScanVault \/ ScanDocs \/ ScanApplied \/ ScanEnd
        \/ Stop \/ StartUp \/ StampVaultDrift \/ CatchUp \/ CatchUpEnds \/ DialogDone)
  <2>1. ~Quiet
    BY <1>1 DEF Quiet
  <2> QED
    BY <1>2, <2>1, QuietPull, QuietScan, QuietSessions
<1>4. ~(User \/ Deliver \/ PeerWrites \/ PullJudge \/ Apply \/ UNCHANGED vars)
  BY <1>1 DEF User, Type, SaveTyped, EditFile, DeleteFile, Deliver, PeerWrites, PullJudge,
         Apply, JobStep, CheckDisk, WriteDisk, EstablishBaseline, JobFails, vaultVars, vars
<1>5. ~(Answer \/ AnswerPull)
  BY <1>1 DEF Answer, AnswerPull
<1>6. ~PullCommit
  <2> SUFFICES ASSUME PullCommit PROVE FALSE
    OBVIOUS
  <2>1. doc' = pulling /\ pulling # None /\ remote # None /\ pulling = acceptedOnPull(doc, remote)
    BY DEF PullCommit, commitPullBatch, Kept, PullStands
  <2>2. doc'.vclock[Self] = docClock[Self]
    BY <2>1, Accepted DEF Kept
  <2> QED
    BY <1>1, <1>2, <2>2, PathClocks
<1>7. CASE Tracker
  <2>1. ~TimerFires
    BY <1>1 DEF TimerFires
  <2>2. ASSUME NEW r, CommitRead(r) PROVE FALSE
    <3>1. \E c, clock : doc' = alive(c, clock)
      BY <1>1, <2>2 DEF CommitRead
    <3> QED
      BY <1>1, <3>1 DEF alive
  <2>3. DeleteEvent
    BY <1>7, <2>1, <2>2 DEF Tracker
  <2> QED
    BY <1>7, <2>3 DEF DeleteEvent
<1>8. CASE ScanAct
  <2>1. chosen = "delete" /\ MarkDeleted
    BY <1>1, <1>8 DEF ScanAct, vaultVars, Align, Adopt
  <2> QED
    BY <1>8, <2>1
<1> QED
  BY <1>3, <1>4, <1>5, <1>6, <1>7, <1>8 DEF Next, Pull

\* It tombstones only what the baseline says.
LEMMA TombstonesTheBaseline ==
  ASSUME Kept, MarkDeleted, tombstonesHere, ~Concurrent(doc.vclock, baseClock(base))
  PROVE  /\ base # None /\ base.vclock = doc.vclock
         /\ base.content = doc.content /\ base.content # None
<1>2. doc # None /\ ~doc.deleted /\ doc'.vclock[Self] > doc.vclock[Self]
  BY DEF tombstonesHere
<1>3. doc \in Doc /\ doc.vclock \in Clock /\ docClock = doc.vclock /\ doc.vclock[Peer] \in Nat
      /\ doc.vclock[Self] \in Nat
  BY <1>2, ClockPair DEF Kept, TypeOK, VaultTypeOK, Doc, docClock
<1>4. tombstones(doc, base)
  BY <1>2, <1>3 DEF MarkDeleted
<1>5. baseOf(doc) \in Held /\ baseOf(doc).vclock = doc.vclock /\ baseOf(doc).content = doc.content
  BY <1>2, <1>3, HeldDocs, BaseOfType DEF Kept
<1>6. base # None
  <2>1. doc.vclock # ZeroClock
    BY <1>5, HeldBehind DEF Kept
  <2> QED
    BY <1>4, <2>1 DEF tombstones
<1>7. ~Dominates(doc.vclock, base.vclock) /\ ~Concurrent(doc.vclock, base.vclock)
  BY <1>4, <1>6 DEF tombstones, baseClock
<1>8. base.vclock = doc.vclock
  <2>1. Includes(base.vclock, doc.vclock)
    BY <1>7 DEF Dominates, Concurrent
  <2>2. base.vclock \in Clock /\ NotAfter(base.vclock, doc.vclock)
    BY <1>3, <1>6, BaseIsBehind
  <2> QED
    BY <1>3, <2>1, <2>2, ClockPair DEF NotAfter
<1>9. base.content = doc.content /\ base.content # None
  <2>1. base = baseOf(doc)
    BY <1>5, <1>6, <1>8, HeldDocs DEF Kept, VersionsOK, OneState
  <2> QED
    BY <1>3, <1>5, <2>1, NoneIsNothingElse DEF Doc
<1> QED
  BY <1>6, <1>8, <1>9

\* And what the baseline says the file was made on, wherever the deletion, a
\* pull and a reconcile crossed.
LEMMA TombstoneWasHeld ==
  ASSUME Kept, SeenOK, AllClosed, [Next]_vars, tombstonesHere,
         ~Concurrent(doc.vclock, baseClock(base))
  PROVE  madeOn[Peer] >= doc.vclock[Peer]
<1>1. MarkDeleted /\ (Tracker \/ ScanAct)
  BY OnlyMarkDeleted
<1>2. ~BaselineDue
  <2>1. CASE Tracker
    BY <2>1, BaselinesClosed DEF Tracker, BaselineDue, Caller
  <2>2. CASE ScanAct
    <3>1. scan.stage # "acting" /\ mayRun("scan")
      BY <2>2 DEF ScanAct
    <3> QED
      BY <3>1, BaselinesClosed DEF BaselineDue, SeenOK, ScanWaits
  <2> QED
    BY <1>1, <2>1, <2>2
<1>3. base # None /\ base.vclock = doc.vclock /\ base.content # None
  BY <1>1, TombstonesTheBaseline
<1> QED
  BY <1>2, <1>3 DEF SeenOK, BaseSeen

\* With only dialogs open, the file is gone because the user deleted it.
LEMMA TombstoneIsTheUsers ==
  ASSUME Settled, DialogOnly, [Next]_vars, tombstonesHere,
         ~Concurrent(doc.vclock, baseClock(base))
  PROVE  theUserDeleted
<1>1. Kept /\ MarkDeleted /\ ((Tracker /\ DeleteEvent) \/ (ScanAct /\ chosen = "delete"))
  BY OnlyMarkDeleted DEF Settled
<1>2. base # None /\ base.vclock = doc.vclock /\ base.content # None
      /\ doc # None /\ ~doc.deleted
  BY <1>1, TombstonesTheBaseline DEF tombstonesHere
<1>3. disk = None
  <2>1. CASE DeleteEvent
    BY <2>1 DEF DeleteEvent, Settled, FileOK, DeletingHere
  <2>2. CASE ScanAct /\ chosen = "delete"
    <3>1. (IF scan.has THEN disk ELSE None) = None
      BY <1>1, <2>2, Chosen DEF Kept
    <3>2. scan.has <=> disk # None
      BY <2>2 DEF ScanAct, Settled, FileOK, ScanFresh
    <3> QED
      BY <3>1, <3>2
  <2> QED
    BY <1>1, <2>1, <2>2
<1>4. doc.vclock \in Clock
  BY <1>1, <1>2 DEF Kept, TypeOK, VaultTypeOK, Doc
<1>5. removed # None
  BY <1>2, <1>3, <1>4 DEF Settled, FileOK, Gone
<1>6. removed = madeOn /\ madeOn[Peer] >= doc.vclock[Peer]
  BY <1>2, <1>5 DEF Settled, FileOK, RemovedHere, BaseMade
<1> QED
  BY <1>5, <1>6 DEF theUserDeleted

(***************************************************************************)
(* Where a deletion of the user and another device's version of the file   *)
(* cross, a tombstone that markDeleted writes unasked replaces no version  *)
(* the file had never been made on (vault-sync.ts markDeleted,             *)
(* reconciler.ts), unless a dialog's choice left the document beside the   *)
(* baseline. While nobody cuts in between a text read and its commit, a    *)
(* pull's verdict and its commit, or a dbToFile's look and its baseline,   *)
(* that is so however the event of the deletion, pulls, the looks of       *)
(* dbToFile, reconciles, dialogs, failures and restarts come between each  *)
(* other, the plugin not stopping between a write to the disk and its      *)
(* baseline; and while everything but an open dialog runs to its end       *)
(* before another actor does, through such a stop too, and the tombstone   *)
(* then stands for a deletion the user made.                               *)
(***************************************************************************)
THEOREM NoPhantomDeletion ==
  /\ Interrupts \cap {"record", "pull", "write", "baseline"} = {}
       => (Spec /\ [][QuitsBetweenWrites]_vars => NoBlindTombstone)
  /\ Interrupts \subseteq {"dialog"}
       => (Spec => NoBlindTombstone /\ NoPhantomAfterPull)
<1>1. ASSUME Interrupts \cap {"record", "pull", "write", "baseline"} = {}
      PROVE  Spec /\ [][QuitsBetweenWrites]_vars => NoBlindTombstone
  <2>1. AllClosed /\ RaceFree
    BY <1>1 DEF AllClosed, RaceFree
  <2>2. Init => Kept /\ SeenOK
    BY InitKeeps, InitSeen
  <2>3. (Kept /\ SeenOK) /\ [Next]_vars /\ [QuitsBetweenWrites]_vars => (Kept /\ SeenOK)'
    BY <2>1, StepKeeps, StepSeen
  <2>4. (Kept /\ SeenOK) /\ [Next]_vars
          => [tombstonesHere /\ ~Concurrent(doc.vclock, baseClock(base))
                => madeOn[Peer] >= doc.vclock[Peer]]_vars
    BY <2>1, TombstoneWasHeld
  <2> QED
    BY <2>2, <2>3, <2>4, PTL DEF Spec, NoBlindTombstone
<1>2. ASSUME Interrupts \subseteq {"dialog"}
      PROVE  Spec => NoBlindTombstone /\ NoPhantomAfterPull
  <2>1. DialogOnly
    BY <1>2 DEF DialogOnly
  <2>2. Init => Settled
    BY InitKeeps, InitSeen, InitFile DEF Settled
  <2>3. Settled /\ [Next]_vars => Settled'
    BY <2>1, StepSettled
  <2>4. Settled /\ [Next]_vars
          => [tombstonesHere /\ ~Concurrent(doc.vclock, baseClock(base)) => theUserDeleted]_vars
    BY <2>1, TombstoneIsTheUsers
  <2>5. Settled /\ [Next]_vars
          => [tombstonesHere /\ ~Concurrent(doc.vclock, baseClock(base))
                => madeOn[Peer] >= doc.vclock[Peer]]_vars
    <3>1. AllClosed
      BY <2>1 DEF DialogOnly, AllClosed
    <3> QED
      BY <3>1, TombstoneWasHeld DEF Settled
  <2> QED
    BY <2>2, <2>3, <2>4, <2>5, PTL DEF Spec, NoBlindTombstone, NoPhantomAfterPull
<1> QED
  BY <1>1, <1>2

=============================================================================
