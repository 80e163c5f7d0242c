------------------------------ MODULE ChunkStore ------------------------------
(***************************************************************************)
(* Where the bytes are. A file document only names its chunks; the chunks  *)
(* live in the local databases of the devices and on the server, and every *)
(* device removes the ones it believes nobody needs: the sweep that each   *)
(* start runs, and the repair a user runs, which compares both stores and  *)
(* copies or deletes what only one side has.                               *)
(*                                                                         *)
(* Source: src/db/chunk-gc.ts, src/db/chunk-refs.ts,                       *)
(* src/sync/chunk-consistency.ts, src/sync/chunk-repair.ts, its command in *)
(* src/commands.ts, the one-shot transfers of src/db/remote-couch.ts, and  *)
(* from the push and the pull what they do with chunks. A content is one   *)
(* chunk, named by it: the same name is the same bytes.                    *)
(*                                                                         *)
(* Interrupts are the stretches between two awaits that other actors may   *)
(* run inside of; the code lets them into all.                             *)
(***************************************************************************)
EXTENDS SyncRelation

CONSTANTS
  File,         \* the file ids
  Interrupts,   \* the stretches others may run inside of
  MaxActs       \* bound: edits, deletions, and steps that stop or cut in

Window == {"push", "analysis", "phases", "sweep", "localCheck", "remoteCheck"}

ASSUME InterruptsAssumption == Interrupts \subseteq Window
ASSUME BoundsAssumption == MaxActs \in Nat

VARIABLES
  doc,        \* per device and file: its local document
  store,      \* per device: the chunks of its local database
  feed,       \* per device: the files and chunks the push has yet to look at
  held,       \* per device and file: what the disk holds, with the clock of
              \* the version it is (the baseline), or None
  remote,     \* per file: the server's document
  bodies,     \* the chunks alive on the server
  push,       \* per device: None, or the push cycle in progress
  refs,       \* per device: None, or what the sweep in progress must keep
  repair,     \* per device: None, or the repair in progress
  acts        \* the acts spent of MaxActs

locals == <<doc, store, feed, held>>
server == <<remote, bodies>>
jobs   == <<push, refs, repair>>
vars   == <<locals, server, jobs, acts>>

Docs == [File -> Doc \cup {None}]

Cycle == [ids : SUBSET (File \cup Content), files : Docs, over : Docs,
          chunks : SUBSET Content, sent : BOOLEAN]

Repair == [stage : {"analysis", "copy", "localCheck", "deleteLocal",
                    "remoteCheck", "deleteRemote"},
           used : SUBSET Content, toPush : SUBSET Content, toPull : SUBSET Content,
           toDeleteLocal : SUBSET Content, toDeleteRemote : SUBSET Content]

TypeOK ==
  /\ doc \in [Device -> Docs] /\ store \in [Device -> SUBSET Content]
  /\ feed \in [Device -> SUBSET (File \cup Content)]
  /\ held \in [Device -> [File -> Baseline \cup {None}]]
  /\ remote \in Docs /\ bodies \subseteq Content
  /\ push \in [Device -> {None} \cup Cycle]
  /\ refs \in [Device -> {None} \cup SUBSET Content]
  /\ repair \in [Device -> {None} \cup Repair]
  /\ acts \in 0..MaxActs

Init ==
  /\ doc = [d \in Device |-> [f \in File |-> None]]
  /\ store = [d \in Device |-> {}] /\ feed = [d \in Device |-> {}]
  /\ held = [d \in Device |-> [f \in File |-> None]]
  /\ remote = [f \in File |-> None] /\ bodies = {}
  /\ push = [d \in Device |-> None] /\ refs = [d \in Device |-> None]
  /\ repair = [d \in Device |-> None]
  /\ acts = 0

\* collectReferencedChunks: a deleted document pins nothing.
live(docs) == {f \in File : docs[f] # None /\ ~docs[f].deleted}
referenced(docs) == {docs[f].content : f \in live(docs)}

liveLocalChunkRefs(d) == referenced(doc[d])
liveRemoteChunkRefs   == referenced(remote)

\* What the listing of one side has and that of the other has not.
localOnly(d)  == store[d] \ bodies
remoteOnly(d) == bodies \ store[d]

-----------------------------------------------------------------------------
(* The stretches that are open, and who is inside each.                    *)

window(r) == CASE r.stage = "analysis"     -> "analysis"
               [] r.stage = "deleteLocal"  -> "localCheck"
               [] r.stage = "deleteRemote" -> "remoteCheck"
               [] r.stage \in {"copy", "localCheck", "remoteCheck"} -> "phases"

inside == {<<"push", <<d, "push">>>> : d \in {d \in Device : push[d] # None}}
          \cup {<<"sweep", <<d, "sweep">>>> : d \in {d \in Device : refs[d] # None}}
          \cup {<<window(repair[d]), <<d, "repair">>>> :
                  d \in {d \in Device : repair[d] # None}}

mayRun(d, who) == \A at \in inside : at[1] \in Interrupts \/ at[2] = <<d, who>>

act == acts < MaxActs /\ acts' = acts + 1

-----------------------------------------------------------------------------
(***************************************************************************)
(* The local database (runWriteTx). A chunk is put if absent, so only one  *)
(* that was absent becomes a row of the change feed; a row that is deleted *)
(* leaves the feed.                                                        *)
(***************************************************************************)
PutAbsent(d, chunks, files) ==
  /\ store' = [store EXCEPT ![d] = @ \cup chunks]
  /\ feed'  = [feed EXCEPT ![d] = (@ \cup (chunks \ store[d])) \cup files]

DeleteChunks(d, chunks) ==
  /\ store' = [store EXCEPT ![d] = @ \ chunks]
  /\ feed'  = [feed EXCEPT ![d] = @ \ chunks]

Commit(d, f, version) == doc' = [doc EXCEPT ![d][f] = version]

\* The baseline of a version the disk holds; the clock of the next version.

heldOf(version) == [content |-> IF version.deleted THEN None ELSE version.content,
                    vclock  |-> version.vclock]
Hold(d, f, version) == held' = [held EXCEPT ![d][f] = heldOf(version)]

nextClock(d, f) == incrementVC(IF doc[d][f] = None THEN ZeroClock
                                                   ELSE doc[d][f].vclock, d)

\* fileToDb: the chunk and the document that names it, in one transaction.
RecordFile(d, f, c) ==
  LET version == [content |-> c, deleted |-> FALSE, vclock |-> nextClock(d, f)]
  IN Commit(d, f, version) /\ Hold(d, f, version) /\ PutAbsent(d, {c}, {f})

\* markDeleted: a tombstone keeps the content of what it deletes.
RecordDeletion(d, f) ==
  LET version == [doc[d][f] EXCEPT !.deleted = TRUE, !.vclock = nextClock(d, f)]
  IN Commit(d, f, version) /\ Hold(d, f, version) /\ PutAbsent(d, {}, {f})

\* The user's edits and deletions. What the guards of the vault side make of
\* one they do not record is the subject of VaultReplication.
Edit(d, f, c) ==
  /\ act /\ mayRun(d, "vault")
  /\ recordsFile(c, doc[d][f], held[d][f])
  /\ RecordFile(d, f, c)
  /\ UNCHANGED <<server, jobs>>

Delete(d, f) ==
  /\ act /\ mayRun(d, "vault")
  /\ f \in live(doc[d]) /\ held[d][f] # None /\ held[d][f].content # None
  /\ tombstones(doc[d][f], held[d][f])
  /\ RecordDeletion(d, f)
  /\ UNCHANGED <<server, jobs>>

-----------------------------------------------------------------------------
(***************************************************************************)
(* The push. A cycle takes what the feed has, judges the documents, sends  *)
(* the chunks the server lacks and then the documents. A document whose    *)
(* chunk is in no row of the feed goes without it.                         *)
(***************************************************************************)
PushBegin(d) ==
  /\ feed[d] # {} /\ push[d] = None /\ mayRun(d, "push")
  /\ LET goes == {f \in feed[d] \cap File : classifyForPush(doc[d][f], remote[f]) = "proceed"}
     IN push' = [push EXCEPT ![d] =
          [ids    |-> feed[d],
           files  |-> [f \in File |-> IF f \in goes THEN doc[d][f] ELSE None],
           over   |-> remote,
           chunks |-> feed[d] \cap store[d],
           sent   |-> FALSE]]
  /\ feed' = [feed EXCEPT ![d] = {}]
  /\ UNCHANGED <<doc, store, held, server, refs, repair, acts>>

PushChunks(d) ==
  /\ push[d] # None /\ ~push[d].sent /\ mayRun(d, "push")
  /\ bodies' = bodies \cup push[d].chunks
  /\ push' = [push EXCEPT ![d].sent = TRUE]
  /\ UNCHANGED <<locals, remote, refs, repair, acts>>

\* A document is refused when the server's moved meanwhile; it is tried again.
PushFiles(d) ==
  /\ push[d] # None /\ push[d].sent /\ mayRun(d, "push")
  /\ LET goes  == {f \in File : push[d].files[f] # None}
         wins  == {f \in goes : remote[f] = push[d].over[f]}
     IN /\ remote' = [f \in File |-> IF f \in wins THEN push[d].files[f] ELSE remote[f]]
        /\ feed' = [feed EXCEPT ![d] = @ \cup (goes \ wins)]
  /\ push' = [push EXCEPT ![d] = None]
  /\ UNCHANGED <<doc, store, held, bodies, refs, repair, acts>>

\* The cycle fails, or its session ends: the cursor stays where it was.
PushFails(d) ==
  /\ push[d] # None /\ act
  /\ feed' = [feed EXCEPT ![d] = @ \cup (push[d].ids \ (Content \ store[d]))]
  /\ push' = [push EXCEPT ![d] = None]
  /\ UNCHANGED <<doc, store, held, server, refs, repair>>

-----------------------------------------------------------------------------
(***************************************************************************)
(* The pull. The document is committed first, as an echo the push leaves   *)
(* out, and then goes to the disk, which takes its chunk.                  *)
(***************************************************************************)
accepted(d, f) == IF remote[f] = None THEN None ELSE acceptedOnPull(doc[d][f], remote[f])

PullFile(d, f) ==
  /\ mayRun(d, "pull")
  /\ accepted(d, f) \notin {None, doc[d][f]}
  /\ Commit(d, f, accepted(d, f))
  /\ feed' = [feed EXCEPT ![d] = @ \ {f}]
  /\ UNCHANGED <<store, held, server, jobs, acts>>

(***************************************************************************)
(* A conflict: what the server has of the other side is fetched for the    *)
(* dialog, and the choice is a version that has seen both, or the other    *)
(* device's as it is (applyConflictChoice).                                *)
(***************************************************************************)
concurrent(d, f) == remote[f] # None /\ doc[d][f] # None
                    /\ resolveOnPull(doc[d][f], remote[f]) = "concurrent"

Resolve(d, f) ==
  /\ concurrent(d, f) /\ mayRun(d, "pull")
  /\ LET both  == incrementVC(mergeVC(doc[d][f].vclock, remote[f].vclock), d)
         kept  == [doc[d][f] EXCEPT !.vclock = both]
         taken == IF remote[f].deleted THEN [remote[f] EXCEPT !.vclock = both] ELSE remote[f]
     IN \/ /\ Commit(d, f, kept)
           /\ IF held[d][f] # None /\ held[d][f].content = heldOf(kept).content
                THEN Hold(d, f, kept) ELSE UNCHANGED held
        \/ /\ Commit(d, f, taken)
           /\ IF taken.deleted \/ taken.content \in store[d] \cup bodies
                THEN Hold(d, f, taken) ELSE UNCHANGED held
  /\ PutAbsent(d, {remote[f].content} \cap bodies, {f})
  /\ UNCHANGED <<server, jobs, acts>>

(***************************************************************************)
(* Whatever moved a document without its file, or the other way round, the *)
(* retries of pending-apply and the reconcile bring together. A file       *)
(* whose chunk is nowhere stays as it is (ensureChunks).                   *)
(***************************************************************************)
decision(d, f) == reconcileDecision(IF held[d][f] = None THEN None ELSE held[d][f].content,
                                    doc[d][f], held[d][f], FALSE)

TakeDoc(d, f) ==
  /\ doc[d][f].deleted \/ doc[d][f].content \in store[d] \cup bodies
  /\ Hold(d, f, doc[d][f])
  /\ PutAbsent(d, IF doc[d][f].deleted THEN {} ELSE {doc[d][f].content}, {})
  /\ UNCHANGED doc

Reconcile(d, f) ==
  /\ doc[d][f] # None /\ held[d][f] # heldOf(doc[d][f]) /\ mayRun(d, "pull")
  /\ \/ decision(d, f) \in {"nothing", "apply", "conflict"} /\ TakeDoc(d, f)
     \/ /\ decision(d, f) = "adopt" /\ Hold(d, f, doc[d][f])
        /\ UNCHANGED <<doc, store, feed>>
     \/ /\ decision(d, f) \in {"push", "conflict"} /\ held[d][f].content # None
        /\ RecordFile(d, f, held[d][f].content)
     \/ /\ decision(d, f) \in {"delete", "conflict"} /\ held[d][f].content = None
        /\ RecordDeletion(d, f)
  /\ UNCHANGED <<server, jobs, acts>>

-----------------------------------------------------------------------------
(***************************************************************************)
(* The sweep of a start (gcOrphanChunks): the references of the live       *)
(* documents, then every chunk that is not among them. No tombstone is     *)
(* left: the server is not told.                                           *)
(***************************************************************************)
SweepBegin(d) ==
  /\ refs[d] = None /\ ~(store[d] \subseteq referenced(doc[d])) /\ mayRun(d, "sweep")
  /\ refs' = [refs EXCEPT ![d] = referenced(doc[d])]
  /\ UNCHANGED <<locals, server, push, repair, acts>>

SweepOrphanChunks(d) ==
  /\ refs[d] # None /\ mayRun(d, "sweep")
  /\ DeleteChunks(d, store[d] \ refs[d])
  /\ refs' = [refs EXCEPT ![d] = None]
  /\ UNCHANGED <<doc, held, server, push, repair, acts>>

-----------------------------------------------------------------------------
(***************************************************************************)
(* The repair (analyzeChunkConsistency, repairChunkDrift). It wants every  *)
(* file at the same version on both sides; then what one side lacks is     *)
(* copied if a live document names it, and deleted if none does.           *)
(***************************************************************************)
hasDivergence(differing) == differing # {}

diffFileDocs(d) ==
  {f \in File : IF doc[d][f] = None \/ remote[f] = None
                  THEN doc[d][f] # remote[f]
                  ELSE doc[d][f].vclock # remote[f].vclock}

drift_keeps(d, used) ==
  [stage |-> "copy", used |-> used,
   toPush |-> localOnly(d), toPull |-> remoteOnly(d),
   toDeleteLocal  |-> {}, toDeleteRemote |-> {}]

drift(d, used) ==
  [stage |-> "copy", used |-> used,
   toPush |-> localOnly(d) \cap used, toPull |-> remoteOnly(d) \cap used,
   toDeleteLocal  |-> localOnly(d) \ used,
   toDeleteRemote |-> remoteOnly(d) \ used]

Analyze(d) ==
  /\ repair[d] = None /\ mayRun(d, "repair")
  /\ ~hasDivergence(diffFileDocs(d)) /\ store[d] # bodies
  /\ repair' = [repair EXCEPT ![d] = [drift(d, {}) EXCEPT !.stage = "analysis",
                  !.used = liveLocalChunkRefs(d), !.toPush = {}, !.toPull = {},
                  !.toDeleteLocal = {}, !.toDeleteRemote = {}]]
  /\ UNCHANGED <<locals, server, push, refs, acts>>

\* The chunk lists of both sides are read in one merge.
PlanFromReport(d) ==
  /\ repair' = [repair EXCEPT ![d] = drift(d, repair[d].used)]
  /\ UNCHANGED <<locals, server>>

\* pushDocs and pullDocs: what is still there is copied. One that fails is
\* reported, and the repair goes on.
pushDocs(d, ids) == bodies' = bodies \cup (ids \cap store[d])

pullDocs(d, ids) ==
  LET found == ids \cap bodies
  IN /\ store' = [store EXCEPT ![d] = @ \cup found]
     /\ feed'  = [feed EXCEPT ![d] = @ \cup found]

CopyDocs(d, fails) ==
  /\ pushDocs(d, IF fails = "push" THEN {} ELSE repair[d].toPush)
  /\ pullDocs(d, IF fails = "pull" THEN {} ELSE repair[d].toPull)
  /\ repair' = [repair EXCEPT ![d].stage = "localCheck"]
  /\ UNCHANGED <<doc, held, remote>>

\* What a live document names by now is taken off the list, on either side.
LocalCheck_trusts(d) ==
  /\ repair' = [repair EXCEPT ![d].stage = "deleteLocal"]
  /\ UNCHANGED <<locals, server>>

LocalCheck(d) ==
  /\ repair' = [repair EXCEPT ![d].stage = "deleteLocal",
                              ![d].toDeleteLocal = @ \ liveLocalChunkRefs(d)]
  /\ UNCHANGED <<locals, server>>

DeleteLocal(d) ==
  /\ DeleteChunks(d, repair[d].toDeleteLocal)
  /\ repair' = [repair EXCEPT ![d].stage = "remoteCheck"]
  /\ UNCHANGED <<doc, held, server>>

RemoteCheck(d) ==
  /\ repair' = [repair EXCEPT ![d].stage = "deleteRemote",
                              ![d].toDeleteRemote = @ \ liveRemoteChunkRefs]
  /\ UNCHANGED <<locals, server>>

DeleteRemoteDocs(d) ==
  /\ bodies' = bodies \ repair[d].toDeleteRemote
  /\ repair' = [repair EXCEPT ![d] = None]
  /\ UNCHANGED <<locals, remote>>

RepairStep(d) ==
  /\ repair[d] # None /\ mayRun(d, "repair")
  /\ \/ repair[d].stage = "analysis"     /\ PlanFromReport(d)
     \/ repair[d].stage = "copy"         /\ CopyDocs(d, "none")
     \/ repair[d].stage = "localCheck"   /\ LocalCheck(d)
     \/ repair[d].stage = "deleteLocal"  /\ DeleteLocal(d)
     \/ repair[d].stage = "remoteCheck"  /\ RemoteCheck(d)
     \/ repair[d].stage = "deleteRemote" /\ DeleteRemoteDocs(d)
  /\ UNCHANGED <<push, refs, acts>>

(***************************************************************************)
(* "Wait for sync & retry", offered while the sides differ: pullAll writes *)
(* everything the server has over the local database, a version that waits *)
(* for the push included. Taken as one step.                               *)
(***************************************************************************)
atRest(d) == /\ feed[d] = {} /\ push[d] = None
             /\ \A f \in File : /\ ~concurrent(d, f)
                                /\ accepted(d, f) \in {None, doc[d][f]}
                                /\ doc[d][f] # None => held[d][f] = heldOf(doc[d][f])

PullAll(d) ==
  /\ hasDivergence(diffFileDocs(d)) /\ repair[d] = None /\ mayRun(d, "repair")
  /\ doc' = [doc EXCEPT ![d] = [f \in File |-> IF remote[f] = None THEN @[f] ELSE remote[f]]]
  /\ store' = [store EXCEPT ![d] = @ \cup bodies]
  /\ feed'  = [feed EXCEPT ![d] = @ \cup bodies \cup {f \in File : remote[f] # None}]
  /\ UNCHANGED <<held, server, jobs>>

PullAllAtRest(d)  == atRest(d) /\ PullAll(d) /\ UNCHANGED acts
PullAllMidSync(d) == ~atRest(d) /\ PullAll(d) /\ act

\* A listing that fails, or the end of the plugin, ends the repair.
RepairFails(d) ==
  /\ repair[d] # None /\ act
  /\ \/ /\ repair[d].stage = "copy" /\ \E one \in {"push", "pull"} : CopyDocs(d, one)
     \/ repair' = [repair EXCEPT ![d] = None] /\ UNCHANGED <<locals, server>>
  /\ UNCHANGED <<push, refs>>

-----------------------------------------------------------------------------
\* The loops of the sync, the dialogs, the starts, and the user's repairs.
Sync(d) == \/ PushBegin(d) \/ PushChunks(d) \/ PushFiles(d)
           \/ \E f \in File : PullFile(d, f) \/ Reconcile(d, f) \/ Resolve(d, f)
Upkeep(d) == \/ SweepBegin(d) \/ SweepOrphanChunks(d)
             \/ Analyze(d) \/ RepairStep(d) \/ PullAllAtRest(d)

Next ==
  \E d \in Device :
    \/ \E f \in File : Delete(d, f) \/ \E c \in Content : Edit(d, f, c)
    \/ Sync(d) \/ Upkeep(d)
    \/ PushFails(d) \/ RepairFails(d) \/ PullAllMidSync(d)

Spec == Init /\ [][Next]_vars

(***************************************************************************)
(* As long as some device has something to do, some device goes on: loops  *)
(* keep running, dialogs are answered, a device is started now and then,   *)
(* and its user runs the repair when there is one to run. Nothing is asked *)
(* about the order, so two repairs that undo each other would be seen.     *)
(***************************************************************************)
Fairness == WF_vars(\E d \in Device : Sync(d) \/ Upkeep(d))

FairSpec == Spec /\ Fairness

-----------------------------------------------------------------------------
(***************************************************************************)
(* No file that others can see loses its bytes: the chunk of a live        *)
(* document on the server is on the server or in the local database of     *)
(* some device, unless some device has a newer version that will replace   *)
(* it, in its database or still on its disk.                               *)
(***************************************************************************)
newer(d, f) == /\ doc[d][f] # None /\ Dominates(doc[d][f].vclock, remote[f].vclock)
               /\ doc[d][f].deleted \/ doc[d][f].content \in store[d]

toBeRecorded(d, f) == /\ doc[d][f] # None /\ held[d][f] # None
                      /\ decision(d, f) \in {"push", "delete", "conflict"}

Recoverable ==
  \A f \in live(remote) :
    \/ remote[f].content \in bodies \cup UNION {store[d] : d \in Device}
    \/ \E d \in Device : newer(d, f) \/ toBeRecorded(d, f)

(***************************************************************************)
(* Once the edits stop, every store ends with exactly the chunks the       *)
(* files name: nothing a file needs stays on one side, nothing unneeded    *)
(* stays anywhere, and two devices never keep undoing each other's repair  *)
(* (chunk-repair.ts:16-27).                                                *)
(***************************************************************************)
Settled ==
  /\ \A d \in Device : doc[d] = remote /\ store[d] = referenced(remote)
  /\ bodies = referenced(remote)

EventuallySettled == <>[]Settled

=============================================================================
