----------------------------- MODULE LocalStore -----------------------------
(***************************************************************************)
(* The local database of a device (src/db/dexie-store.ts) behind the guard *)
(* that reopens its handle (src/db/handle-guard.ts): concurrent operations *)
(* that read, compute and commit with a compare-and-set on the version     *)
(* they read, the change feed the push reads, and the fingerprint by which *)
(* the reconcile knows that no document has changed.                       *)
(*                                                                         *)
(* A transaction is one step. Between any two steps of an operation the    *)
(* others run, the handle dies, or the app ends. The chunk of a content is *)
(* a row of its own, named by the content.                                 *)
(***************************************************************************)
EXTENDS Naturals, FiniteSets, FiniteSetsExt

CONSTANTS
  Op,           \* places for operations under way
  File,         \* file documents
  Content,      \* contents, and the ids of their chunks
  None,
  MaxAttempts,  \* of a builder, after conflicts
  MaxAborts,    \* retries of a transaction that was aborted
  MaxReopen,    \* reopenings of the handle for one operation
  MaxOps,       \* bound: operations started
  MaxCalls,     \* bound: operations, answers of the change feed and scans together
  MaxFailures   \* bound: aborts, full disks, dead handles, ends of the app

ASSUME StoreAssumption ==
  /\ File \cap Content = {} /\ None \notin File \cup Content
  /\ IsFiniteSet(File \cup Content)
  /\ MaxAttempts \in Nat \ {0} /\ {MaxAborts, MaxReopen, MaxOps, MaxCalls, MaxFailures} \subseteq Nat

VARIABLES
  rows,       \* the docs table: per id its row, or None
  updateSeq,  \* _update_seq
  vclockMeta, \* the meta table: per file the clock of the version last synced
  lastSynced, \* the same in memory, as VaultSync holds it
  handle,     \* HandleGuard.current: "none", "open", or "dead"
  op,         \* the operations
  feed,       \* an answer of changes() the push has not taken in, or None
  cursor,     \* what the push took in: up to which sequence, and which rows
  scan,       \* a reconcile between its look at the fingerprint and its end
  scanned,    \* the scan cursor, and (history) the documents its scan has read
  named,      \* history: every version of a file ever committed
  replayed,   \* history: files of which a put was committed, and then again
  peerWrites, started, reads, failures

store   == <<rows, updateSeq, vclockMeta, named, replayed>>
readers == <<feed, cursor, scan, scanned>>
bounds  == <<peerWrites, started, reads, failures>>
vars    == <<store, lastSynced, handle, op, readers, bounds>>

VC == INSTANCE VClock WITH Device <- {"me", "peer"}

Id == File \cup Content

(* What callers do: an edit (fileToDb) and a decision on a conflict
   (commitOverShown) write a file with its chunk over the version their builder
   read; a put writes a version the pull accepted; a fetch adds a chunk, a
   delete removes one; a probe reads.                                       *)
Builder == {"edit", "decision"}
Kind    == Builder \cup {"put", "fetch", "delete", "probe"}

FileRow  == [vclock : VC!Clock, content : Content, seq : Nat]
ChunkRow == [seq : Nat]

ASSUME NoneIsNothing == None \notin FileRow \cup ChunkRow \cup Kind

\* on: the handle the operation runs on is the guard's, or one it has closed.
OpState == [kind : Kind \cup {None}, id : Id \cup {None}, content : Content \cup {None},
            pc : {"idle", "read", "tx", "reopen"}, on : {"current", "closed"},
            base : FileRow \cup {None}, peer : Nat, attempt : Nat, aborts : Nat, reopens : Nat]

idle == [kind |-> None, id |-> None, content |-> None, pc |-> "idle", on |-> "closed",
         base |-> None, peer |-> 0, attempt |-> 0, aborts |-> 0, reopens |-> 0]

Version == [id : File, vclock : VC!Clock, content : Content]
nothing == [i \in Id |-> None]

Init ==
  /\ rows = nothing /\ updateSeq = 0
  /\ vclockMeta = [f \in File |-> VC!ZeroClock] /\ lastSynced = vclockMeta
  /\ named = {} /\ replayed = {}
  /\ handle = "none"
  /\ op = [o \in Op |-> idle]
  /\ feed = None /\ cursor = [seq |-> 0, taken |-> nothing]
  /\ scan = None /\ scanned = [sig |-> None, rows |-> None]
  /\ peerWrites = 0 /\ started = 0 /\ reads = 0 /\ failures = 0

Failure == failures < MaxFailures /\ failures' = failures + 1 /\ UNCHANGED <<peerWrites, started, reads>>
Quiet   == UNCHANGED bounds
Look    == started + reads < MaxCalls /\ reads' = reads + 1 /\ UNCHANGED <<peerWrites, started, failures>>

-----------------------------------------------------------------------------
(* The handle.                                                             *)

\* get(): an operation takes the guard's handle, which is built if there is none.
opened == IF handle = "none" THEN "open" ELSE handle

\* The operation from its start, on the handle get() returns.
begun(r) ==
  [r EXCEPT !.on = "current", !.attempt = 0, !.aborts = 0,
            !.pc = IF r.kind \in Builder \cup {"probe"} THEN "read" ELSE "tx"]

\* A decision is made over the row that was shown; the version a put writes is
\* a successor of the row it was judged against.
Start(o, kind, id, content) ==
  /\ op[o].pc = "idle"
  /\ started < MaxOps /\ started + reads < MaxCalls /\ started' = started + 1
  /\ peerWrites' = IF kind = "put" THEN peerWrites + 1 ELSE peerWrites
  /\ op' = [op EXCEPT ![o] = begun([idle EXCEPT !.kind = kind, !.id = id, !.content = content,
                                      !.base = IF kind \in {"decision", "put"} THEN rows[id] ELSE None,
                                      !.peer = IF kind = "put" THEN peerWrites + 1 ELSE 0])]
  /\ handle' = opened
  /\ UNCHANGED <<store, lastSynced, readers, reads, failures>>

busy(o)    == op[o].pc \in {"read", "tx"}
usable(o)  == op[o].on = "current" /\ handle = "open"
expired(o) == busy(o) /\ ~usable(o)

(* An operation whose handle has expired resets the guard's handle, whatever *)
(* that is by now: who runs on it runs on a closed one from then on.         *)
Reopen(o) ==
  /\ expired(o) /\ op[o].reopens < MaxReopen
  /\ handle' = "none"
  /\ op' = [p \in Op |->
              IF p = o THEN [op[o] EXCEPT !.pc = "reopen", !.on = "closed", !.reopens = @ + 1]
              ELSE [op[p] EXCEPT !.on = "closed"]]
  /\ UNCHANGED <<store, lastSynced, readers>> /\ Quiet

RunAgain(o) ==
  /\ op[o].pc = "reopen"
  /\ handle' = opened
  /\ op' = [op EXCEPT ![o] = begun(@)]
  /\ UNCHANGED <<store, lastSynced, readers>> /\ Quiet

Ends(o) == op' = [op EXCEPT ![o] = idle]

\* "degraded": the sync engine halts.
GivesUp(o) ==
  /\ expired(o) /\ op[o].reopens = MaxReopen
  /\ Ends(o)
  /\ UNCHANGED <<store, lastSynced, handle, readers>> /\ Quiet

\* Suspended, or killed by the browser; nobody is told.
HandleDies ==
  /\ handle = "open" /\ Failure
  /\ handle' = "dead"
  /\ UNCHANGED <<store, lastSynced, op, readers>>

EndOfApp ==
  /\ Failure
  /\ op' = [o \in Op |-> idle] /\ handle' = "none"
  /\ lastSynced' = vclockMeta
  /\ feed' = None /\ scan' = None
  /\ UNCHANGED <<store, cursor, scanned>>

-----------------------------------------------------------------------------
(* Reading and writing.                                                    *)

clockOf(row) == IF row = None THEN VC!ZeroClock ELSE row.vclock

\* fileToDb: the content is there, or the document is one the file was never
\* synced with. commitOverShown: the document is not the one shown any more.
refuses(r, row) ==
  \/ /\ r.kind = "edit" /\ row # None
     /\ \/ row.content = r.content
        \/ VC!compareVC(lastSynced[r.id], row.vclock) \in {"dominated", "concurrent"}
  \/ r.kind = "decision" /\ clockOf(row) # clockOf(r.base)

Read(o) ==
  /\ op[o].pc = "read" /\ usable(o)
  /\ LET row == rows[op[o].id]
     IN IF op[o].kind = "probe" \/ refuses(op[o], row)
        THEN Ends(o)
        ELSE op' = [op EXCEPT ![o].pc = "tx", ![o].base = row]
  /\ UNCHANGED <<store, lastSynced, handle, readers>> /\ Quiet

\* The compare-and-set of a builder's write; the other writes expect nothing.
casHolds_unchecked(r) == TRUE
casHolds(r) == r.kind \in Builder => clockOf(rows[r.id]) = clockOf(r.base)

\* Every transaction takes one number from the counter in the meta table.
nextSeq == updateSeq + 1

versionOf(r) ==
  [id |-> r.id, content |-> r.content,
   vclock |-> IF r.kind \in Builder THEN VC!incrementVC(clockOf(r.base), "me")
              ELSE [clockOf(r.base) EXCEPT !["peer"] = r.peer]]

fileRow(r)  == [vclock |-> versionOf(r).vclock, content |-> r.content, seq |-> nextSeq]
absent(i)   == rows[i] = None

\* runWriteTx: chunks if absent, documents, deletions, all with one sequence.
written(r) ==
  [i \in Id |->
     CASE r.kind \in Builder \cup {"put"} /\ i = r.id        -> fileRow(r)
       [] r.kind \in Builder /\ i = r.content /\ absent(i)  -> [seq |-> nextSeq]
       [] r.kind = "fetch" /\ i = r.id /\ absent(i)         -> [seq |-> nextSeq]
       [] r.kind = "delete" /\ i = r.id                     -> None
       [] OTHER                                             -> rows[i]]

runWriteTx(o) ==
  /\ op[o].pc = "tx" /\ usable(o) /\ casHolds(op[o])
  /\ rows' = written(op[o])
  /\ updateSeq' = nextSeq
  /\ LET version == versionOf(op[o])
         files   == op[o].kind \in Builder \cup {"put"}
     IN /\ named' = IF files THEN named \cup {version} ELSE named
        /\ replayed' = IF op[o].kind = "put" /\ version \in named
                       THEN replayed \cup {version.id} ELSE replayed

recorded(clocks, r) == [clocks EXCEPT ![r.id] = versionOf(r).vclock]

\* A builder's transaction carries the baseline, and onCommit takes it into memory.
\* A put has its own from dbToFile, if that does not decline.
Commit(o) ==
  /\ runWriteTx(o)
  /\ \/ /\ op[o].kind \in Builder \cup {"put"}
        /\ vclockMeta' = recorded(vclockMeta, op[o])
        /\ lastSynced' = recorded(lastSynced, op[o])
     \/ op[o].kind \notin Builder /\ UNCHANGED <<vclockMeta, lastSynced>>
  /\ Ends(o)
  /\ UNCHANGED <<handle, readers>> /\ Quiet

(* The transaction is on the disk and the handle dies before it is told: the *)
(* operation runs again over what it has written.                            *)
CommitUnheard(o) ==
  /\ runWriteTx(o) /\ Failure
  /\ vclockMeta' = IF op[o].kind \in Builder THEN recorded(vclockMeta, op[o]) ELSE vclockMeta
  /\ handle' = "dead"
  /\ UNCHANGED <<lastSynced, op, readers>>

\* runWriteBuilder takes a new snapshot and asks the builder again.
Conflict(o) ==
  /\ op[o].pc = "tx" /\ usable(o) /\ ~casHolds(op[o])
  /\ IF op[o].attempt + 1 < MaxAttempts
     THEN op' = [op EXCEPT ![o].pc = "read", ![o].attempt = @ + 1, ![o].aborts = 0]
     ELSE Ends(o)
  /\ UNCHANGED <<store, lastSynced, handle, readers>> /\ Quiet

\* An aborted transaction is tried again as it is; a full disk is an error.
TxFails(o) ==
  /\ op[o].pc = "tx" /\ usable(o) /\ Failure
  /\ \/ op[o].aborts < MaxAborts /\ op' = [op EXCEPT ![o].aborts = @ + 1]
     \/ Ends(o)
  /\ UNCHANGED <<store, lastSynced, handle, readers>>

-----------------------------------------------------------------------------
(* The push's change feed.                                                 *)

present(rs) == {i \in Id : rs[i] # None}

changes ==
  /\ feed = None /\ handle # "dead"
  /\ feed' = [i \in Id |-> IF rows[i] # None /\ rows[i].seq > cursor.seq THEN rows[i] ELSE None]
  /\ handle' = opened
  /\ UNCHANGED <<store, lastSynced, op, cursor, scan, scanned>> /\ Look

\* last_seq: taken from the rows of the answer.
lastSeq_counter(results) == updateSeq
lastSeq(results) == Max({cursor.seq} \cup {results[i].seq : i \in present(results)})

TakeIn ==
  /\ feed # None
  /\ cursor' = [seq   |-> lastSeq(feed),
                taken |-> [i \in Id |-> IF feed[i] # None THEN feed[i] ELSE cursor.taken[i]]]
  /\ feed' = None
  /\ UNCHANGED <<store, lastSynced, handle, op, scan, scanned>> /\ Quiet

-----------------------------------------------------------------------------
(* The reconcile's look at the documents.                                  *)

\* docsChangeSignature: both numbers in one transaction.
docsChangeSignature(rs) == [maxDocSeq |-> Max({0} \cup {rs[i].seq : i \in present(rs)}),
                            docCount  |-> Cardinality(present(rs))]

docsSigEquals(a, b) == a # None /\ a = b

(* The scan cursor gets the fingerprint of before the reading; a fingerprint *)
(* equal to the cursor's is the fast path, which reads no document.          *)
LookAtSignature ==
  /\ scan = None /\ handle # "dead"
  /\ scan' = [sig |-> docsChangeSignature(rows), rows |-> None]
  /\ handle' = opened
  /\ UNCHANGED <<store, lastSynced, op, feed, cursor, scanned>> /\ Look

allFileDocs == [f \in File |-> rows[f]]

ReadDocs ==
  /\ scan # None /\ scan.rows = None /\ handle # "dead"
  /\ scan' = [scan EXCEPT !.rows = allFileDocs]
  /\ handle' = opened
  /\ UNCHANGED <<store, lastSynced, op, feed, cursor, scanned>> /\ Quiet

putScanCursor_after ==
  /\ scan # None /\ scan.rows # None
  /\ scanned' = [scan EXCEPT !.sig = docsChangeSignature(rows)] /\ scan' = None
  /\ UNCHANGED <<store, lastSynced, handle, op, feed, cursor>> /\ Quiet

putScanCursor ==
  /\ scan # None /\ scan.rows # None
  /\ scanned' = scan /\ scan' = None
  /\ UNCHANGED <<store, lastSynced, handle, op, feed, cursor>> /\ Quiet

-----------------------------------------------------------------------------
\* A decision is about a document that is there; a chunk is fetched because it was
\* found missing, and deleted because it was found.
Starts(o) ==
  \/ \E f \in File, c \in Content, kind \in {"edit", "put"} : Start(o, kind, f, c)
  \/ \E f \in File, c \in Content : ~absent(f) /\ Start(o, "decision", f, c)
  \/ \E c \in Content : absent(c) /\ Start(o, "fetch", c, None)
  \/ \E c \in Content : ~absent(c) /\ Start(o, "delete", c, None)
  \/ \E f \in File : Start(o, "probe", f, None)

Next ==
  \/ \E o \in Op : \/ Starts(o) \/ Read(o)
                  \/ Commit(o) \/ CommitUnheard(o) \/ Conflict(o) \/ TxFails(o)
                  \/ Reopen(o) \/ RunAgain(o) \/ GivesUp(o)
  \/ HandleDies \/ EndOfApp
  \/ changes \/ TakeIn
  \/ LookAtSignature \/ ReadDocs \/ putScanCursor

Spec == Init /\ [][Next]_vars

-----------------------------------------------------------------------------
(* Properties.                                                             *)

IsTable(rs) ==
  /\ DOMAIN rs = Id
  /\ \A f \in File : rs[f] \in FileRow \cup {None}
  /\ \A c \in Content : rs[c] \in ChunkRow \cup {None}

IsScan(s) == s \in [sig : [maxDocSeq : Nat, docCount : Nat],
                   rows : [File -> FileRow \cup {None}] \cup {None}]

TypeOK ==
  /\ IsTable(rows) /\ updateSeq \in Nat
  /\ {vclockMeta, lastSynced} \subseteq [File -> VC!Clock]
  /\ named \subseteq Version /\ replayed \subseteq File
  /\ handle \in {"none", "open", "dead"} /\ op \in [Op -> OpState]
  /\ feed = None \/ IsTable(feed)
  /\ scan = None \/ IsScan(scan)
  /\ scanned.sig = None \/ IsScan(scanned)
  /\ cursor.seq \in Nat /\ IsTable(cursor.taken)
  /\ peerWrites \in Nat
  /\ started \in 0..MaxOps /\ reads \in 0..MaxCalls /\ failures \in 0..MaxFailures

(***************************************************************************)
(* A clock names one version: whatever is retried, run again or not heard, *)
(* no two contents of a file are committed under the same clock, "a vclock *)
(* tie with differing content is impossible for a legit local edit"        *)
(* (classify-sync-relation.ts:250). The one exception: a put that is run   *)
(* again after its commit was not heard puts the clock back under a        *)
(* decision made in between, and expects no version.                       *)
(***************************************************************************)
ClockNamesOneVersion ==
  \A v, w \in named :
    v.id = w.id /\ v.vclock = w.vclock /\ v.id \notin replayed => v.content = w.content

(***************************************************************************)
(* "last_seq claims every row at or below this seq has been enumerated"    *)
(* (changes): the push has taken in, as it is now, each row its cursor has *)
(* passed, whatever was committed while the answer was on its way.         *)
(***************************************************************************)
FeedMissesNothing ==
  \A i \in present(rows) : rows[i].seq <= cursor.seq => cursor.taken[i] = rows[i]

(***************************************************************************)
(* "False positives are possible ... never a missed change": a fingerprint *)
(* equal to that of the last scan means the files' documents are those it  *)
(* read, also when others wrote between the look and the reading.          *)
(***************************************************************************)
FastPathMissesNothing ==
  docsSigEquals(scanned.sig, docsChangeSignature(rows)) => scanned.rows = allFileDocs

(***************************************************************************)
(* "attempts cleanup() on the dead handle" (handle-guard.ts:8): an         *)
(* operation that finds its handle expired closes no handle that is fine.  *)
(***************************************************************************)
ClosesOnlyTheDead ==
  [][handle = "open" /\ handle' = "none" => \A o \in Op : op'[o].pc = "idle"]_vars

-----------------------------------------------------------------------------
(***************************************************************************)
(* What every step of the database keeps: the inductive invariant behind   *)
(* the three properties.                                                   *)
(***************************************************************************)
\* Only builders and probes read before they write, and each writes its own table.
OpsOfTheirKind ==
  \A o \in Op :
    /\ op[o].kind \in Builder \cup {"put", "probe"} => op[o].id \in File
    /\ op[o].kind \in Builder \cup {"put"} => op[o].content \in Content
    /\ op[o].kind \in {"fetch", "delete"} => op[o].id \in Content
    /\ op[o].pc = "read" => op[o].kind \in Builder \cup {"probe"}
    /\ op[o].pc = "tx" => op[o].kind # "probe"
    /\ op[o].pc # "idle" => op[o].kind # None

RowsNumbered == \A i \in present(rows) : rows[i].seq <= updateSeq

\* What the push will have taken in of a row its cursor will have passed.
FeedInFlight ==
  /\ cursor.seq <= updateSeq
  /\ feed # None =>
       /\ \A i \in present(feed) : feed[i].seq <= updateSeq
       /\ \A i \in present(rows) : rows[i].seq <= lastSeq(feed) =>
            rows[i] = IF feed[i] # None THEN feed[i] ELSE cursor.taken[i]

\* A scan has read each file's row as it is, but for the ones the fingerprint
\* it goes by is too old for.
ReadAsItIs(s) ==
  /\ s.sig.maxDocSeq <= updateSeq
  /\ s.rows # None =>
       \A f \in File : /\ rows[f] = None => s.rows[f] = None
                       /\ rows[f] # None /\ rows[f].seq <= s.sig.maxDocSeq
                            => s.rows[f] = rows[f]

ScansInFlight ==
  /\ scan # None => ReadAsItIs(scan)
  /\ scanned.sig # None => scanned.rows # None /\ ReadAsItIs(scanned)

\* Each put writes a version of the peer of its own.
PutsNumbered ==
  /\ \A v \in named : v.vclock["peer"] <= peerWrites
  /\ \A o \in Op : op[o].kind = "put" => op[o].peer \in 1..peerWrites
  /\ \A o, p \in Op : o # p /\ op[o].kind = "put" /\ op[p].kind = "put"
                        => op[o].peer # op[p].peer

RowsNamed ==
  \A f \in File :
    rows[f] # None =>
      [id |-> f, vclock |-> rows[f].vclock, content |-> rows[f].content] \in named

\* A row goes on from the version of the peer it builds on, and comes back to
\* it only by a put that is run again.
ClocksGoOn ==
  \A v \in named : v.id \notin replayed =>
    /\ v.vclock["peer"] = clockOf(rows[v.id])["peer"]
         => v.vclock["me"] <= clockOf(rows[v.id])["me"]
    /\ \A o \in Op : op[o].kind = "put" /\ op[o].id = v.id /\ op[o].peer = v.vclock["peer"]
                     => versionOf(op[o]) \in named

StoreInv == /\ TypeOK /\ OpsOfTheirKind /\ RowsNumbered
            /\ FeedInFlight /\ ScansInFlight
            /\ PutsNumbered /\ RowsNamed /\ ClocksGoOn /\ ClockNamesOneVersion

=============================================================================
