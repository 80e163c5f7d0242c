-------------------------- MODULE LocalStore_proofs --------------------------
(***************************************************************************)
(* LocalStore for any operations, files, contents and bounds: what the     *)
(* store keeps, the change feed, and the fast path of the reconcile.       *)
(***************************************************************************)
EXTENDS LocalStore, FiniteSetTheorems, WellFoundedInduction, TLAPS

-----------------------------------------------------------------------------
(* The greatest number of a bounded set: Max is defined for it.            *)

LEMMA LeastNatural ==
  ASSUME NEW S, S \subseteq Nat, S # {}
  PROVE  \E n \in S : \A m \in S : n <= m
<1>1. PICK x \in S : \A y \in S : ~(<<y, x>> \in OpToRel(<, Nat))
  BY NatLessThanWellFounded, WFMin
<1>2. \A y \in S : y \in Nat /\ x \in Nat /\ ~(y < x)
  BY <1>1 DEF OpToRel
<1> QED
  BY <1>2

LEMMA MaxOfBounded ==
  ASSUME NEW S, S \subseteq Nat, S # {}, NEW b \in Nat, \A n \in S : n <= b
  PROVE  Max(S) \in S /\ \A n \in S : n <= Max(S)
<1> DEFINE T == {b - n : n \in S}
<1>1. \A n \in S : n \in Nat /\ b - n \in Nat
  OBVIOUS
<1>2. T \subseteq Nat /\ T # {}
  BY <1>1, Zenon
<1>3. PICK t \in T : \A m \in T : t <= m
  BY <1>2, LeastNatural
<1>4. PICK x \in S : t = b - x
  OBVIOUS
<1>5. \A n \in S : b - n \in T
  OBVIOUS
<1>6. \A n \in S : x >= n
  BY <1>1, <1>3, <1>4, <1>5
<1> QED
  BY <1>6 DEF Max

LEMMA RowTypes ==
  ASSUME NEW rs, IsTable(rs), NEW i \in present(rs)
  PROVE  i \in Id /\ rs[i] # None /\ rs[i].seq \in Nat
  BY DEF IsTable, present, Id, FileRow, ChunkRow

(***************************************************************************)
(* The sequence of an answer of the change feed reaches from the cursor to *)
(* the newest row of the answer, and no further than the counter.          *)
(***************************************************************************)
LEMMA LastSeqBounds ==
  ASSUME TypeOK, FeedInFlight, feed # None
  PROVE  /\ lastSeq(feed) \in Nat
         /\ cursor.seq <= lastSeq(feed) /\ lastSeq(feed) <= updateSeq
         /\ \A i \in present(feed) : feed[i].seq <= lastSeq(feed)
<1> DEFINE S == {cursor.seq} \cup {feed[i].seq : i \in present(feed)}
<1>1. IsTable(feed) /\ updateSeq \in Nat /\ cursor.seq \in Nat /\ cursor.seq <= updateSeq
  BY DEF TypeOK, FeedInFlight
<1>2. \A i \in present(feed) : feed[i].seq \in Nat /\ feed[i].seq <= updateSeq
  BY <1>1, RowTypes DEF FeedInFlight
<1>3. S \subseteq Nat /\ S # {} /\ \A n \in S : n <= updateSeq
  BY <1>1, <1>2
<1>4. Max(S) \in S /\ \A n \in S : n <= Max(S)
  BY <1>1, <1>3, MaxOfBounded
<1> QED
  BY <1>3, <1>4 DEF lastSeq

(***************************************************************************)
(* The fingerprint names a sequence no row exceeds.                        *)
(***************************************************************************)
LEMMA SignatureBounds ==
  ASSUME TypeOK, RowsNumbered
  PROVE  LET sig == docsChangeSignature(rows)
         IN /\ sig \in [maxDocSeq : Nat, docCount : Nat]
            /\ sig.maxDocSeq <= updateSeq
            /\ \A i \in present(rows) : rows[i].seq <= sig.maxDocSeq
<1> DEFINE S == {0} \cup {rows[i].seq : i \in present(rows)}
<1>1. IsTable(rows) /\ updateSeq \in Nat
  BY DEF TypeOK
<1>2. \A i \in present(rows) : rows[i].seq \in Nat /\ rows[i].seq <= updateSeq
  BY <1>1, RowTypes DEF RowsNumbered
<1>3. S \subseteq Nat /\ S # {} /\ \A n \in S : n <= updateSeq
  BY <1>1, <1>2
<1>4. Max(S) \in S /\ \A n \in S : n <= Max(S)
  BY <1>1, <1>3, MaxOfBounded
<1>5. IsFiniteSet(Id) /\ present(rows) \in SUBSET Id
  BY StoreAssumption DEF Id, present
<1>6. Cardinality(present(rows)) \in Nat
  BY <1>5, FS_Subset, FS_CardinalityType
<1> QED
  BY <1>3, <1>4, <1>6 DEF docsChangeSignature

-----------------------------------------------------------------------------
(* The operations: what a step that writes no row changes of them.         *)

\* The version a put writes is fixed when it starts.
SamePut(o) ==
  op'[o].kind = "put" =>
    /\ op[o].kind = "put"
    /\ op'[o].id = op[o].id /\ op'[o].content = op[o].content
    /\ op'[o].base = op[o].base /\ op'[o].peer = op[o].peer

\* An operation on its way keeps what it is about.
OpWellFormed(r) ==
  /\ r \in OpState
  /\ r.kind \in Builder \cup {"put", "probe"} => r.id \in File
  /\ r.kind \in Builder \cup {"put"} => r.content \in Content
  /\ r.kind \in {"fetch", "delete"} => r.id \in Content
  /\ r.pc = "read" => r.kind \in Builder \cup {"probe"}
  /\ r.pc = "tx" => r.kind # "probe"
  /\ r.pc # "idle" => r.kind # None

LEMMA IdleWellFormed == OpWellFormed(idle)
  BY NoneIsNothing DEF OpWellFormed, idle, OpState, Builder, Kind

LEMMA BegunWellFormed ==
  ASSUME NEW r, OpWellFormed(r), r.kind # None
  PROVE  /\ OpWellFormed(begun(r)) /\ begun(r).kind = r.kind
         /\ begun(r).id = r.id /\ begun(r).content = r.content
         /\ begun(r).base = r.base /\ begun(r).peer = r.peer
<1>1. /\ begun(r) \in OpState /\ begun(r).kind = r.kind
      /\ begun(r).id = r.id /\ begun(r).content = r.content
      /\ begun(r).base = r.base /\ begun(r).peer = r.peer
      /\ begun(r).pc = IF r.kind \in Builder \cup {"probe"} THEN "read" ELSE "tx"
  BY DEF OpWellFormed, begun, OpState
<1> QED
  BY <1>1 DEF OpWellFormed

\* r is about the same as q.
SameSubject(r, q) == /\ r.kind = q.kind /\ r.id = q.id /\ r.content = q.content
                     /\ r.base = q.base /\ r.peer = q.peer

LEMMA OpTypes ==
  ASSUME NEW q \in OpState, NEW r, NEW n \in Nat,
         \/ r = [q EXCEPT !.pc = "read", !.attempt = n, !.aborts = 0]
         \/ r = [q EXCEPT !.pc = "reopen", !.on = "closed", !.reopens = n]
         \/ r = [q EXCEPT !.on = "closed"]
  PROVE  r \in OpState /\ SameSubject(r, q) /\ r.pc \in {q.pc, "read", "reopen"}
<1>1. r \in OpState
  <2>1. CASE r = [q EXCEPT !.pc = "read", !.attempt = n, !.aborts = 0]
    BY <2>1 DEF OpState
  <2>2. CASE r = [q EXCEPT !.pc = "reopen", !.on = "closed", !.reopens = n]
    BY <2>2 DEF OpState
  <2>3. CASE r = [q EXCEPT !.on = "closed"]
    BY <2>3 DEF OpState
  <2> QED
    BY <2>1, <2>2, <2>3
<1>2. r.pc \in {q.pc, "read", "reopen"}
  BY DEF OpState
<1>3. SameSubject(r, q)
  BY DEF OpState, SameSubject
<1> QED
  BY <1>1, <1>2, <1>3

LEMMA OpsWellFormed ==
  (op \in [Op -> OpState] /\ OpsOfTheirKind)
    <=> (op \in [Op -> OpState] /\ \A o \in Op : OpWellFormed(op[o]))
  BY DEF OpsOfTheirKind, OpWellFormed

\* What a step of the operations keeps that leaves the store and the readers alone.
OpsGoOn ==
  /\ op' \in [Op -> OpState] /\ OpsOfTheirKind' /\ \A o \in Op : SamePut(o)

LEMMA OneOpGoesOn ==
  ASSUME op \in [Op -> OpState], OpsOfTheirKind, NEW o \in Op, NEW r, OpWellFormed(r),
         op' = [op EXCEPT ![o] = r],
         r.kind = "put" => /\ op[o].kind = "put"
                           /\ r.id = op[o].id /\ r.content = op[o].content
                           /\ r.base = op[o].base /\ r.peer = op[o].peer
  PROVE  OpsGoOn
<1>1. r \in OpState /\ op' \in [Op -> OpState] /\ op'[o] = r
      /\ \A p \in Op \ {o} : op'[p] = op[p]
  BY DEF OpWellFormed
<1>2. \A p \in Op : OpWellFormed(op'[p])
  BY <1>1, OpsWellFormed
<1>3. OpsOfTheirKind'
  BY <1>1, <1>2 DEF OpsOfTheirKind, OpWellFormed
<1>4. \A p \in Op : SamePut(p)
  BY <1>1 DEF SamePut
<1> QED
  BY <1>1, <1>3, <1>4 DEF OpsGoOn

LEMMA IdleGoesOn ==
  ASSUME op \in [Op -> OpState], OpsOfTheirKind, NEW o \in Op, Ends(o)
  PROVE  OpsGoOn
<1>1. idle.kind # "put"
  BY NoneIsNothing DEF idle, Kind
<1> QED
  BY <1>1, IdleWellFormed, OneOpGoesOn DEF Ends

(***************************************************************************)
(* The clocks, over a step that commits nothing and starts no put.         *)
(***************************************************************************)
LEMMA ClocksStay ==
  ASSUME StoreInv, OpsGoOn, UNCHANGED <<store, peerWrites>>
  PROVE  PutsNumbered' /\ RowsNamed' /\ ClocksGoOn' /\ ClockNamesOneVersion'
<1>1. PutsNumbered'
  BY DEF StoreInv, PutsNumbered, OpsGoOn, SamePut, store
<1>2. RowsNamed' /\ ClockNamesOneVersion'
  BY DEF StoreInv, RowsNamed, ClockNamesOneVersion, store
<1>3. \A o \in Op : op'[o].kind = "put" =>
        versionOf(op'[o]) = versionOf(op[o])
  BY DEF OpsGoOn, SamePut, versionOf, Builder
<1>4. ClocksGoOn'
  <2> SUFFICES ASSUME NEW v \in named, v.id \notin replayed
               PROVE  /\ v.vclock["peer"] = clockOf(rows[v.id])["peer"]
                           => v.vclock["me"] <= clockOf(rows[v.id])["me"]
                      /\ \A o \in Op : op'[o].kind = "put" /\ op'[o].id = v.id
                                         /\ op'[o].peer = v.vclock["peer"]
                                         => versionOf(op'[o]) \in named
    BY DEF ClocksGoOn, store, versionOf, clockOf
  <2> QED
    BY <1>3 DEF StoreInv, ClocksGoOn, OpsGoOn, SamePut
<1> QED
  BY <1>1, <1>2, <1>4

(***************************************************************************)
(* The readers, over a step that commits nothing: what they hold is as     *)
(* good as before, also when the app ends and it is gone.                  *)
(***************************************************************************)
LEMMA ReadersStay ==
  ASSUME StoreInv, FeedMissesNothing, UNCHANGED <<store, cursor, scanned>>,
         feed' \in {feed, None}, scan' \in {scan, None}
  PROVE  RowsNumbered' /\ FeedInFlight' /\ ScansInFlight' /\ FeedMissesNothing'
<1>1. RowsNumbered' /\ FeedMissesNothing'
  BY DEF StoreInv, RowsNumbered, FeedMissesNothing, store, present
<1>2. FeedInFlight'
  <2>1. CASE feed' = feed
    BY <2>1 DEF StoreInv, FeedInFlight, store, present, lastSeq
  <2>2. CASE feed' = None
    BY <2>2 DEF StoreInv, FeedInFlight, store
  <2> QED
    BY <2>1, <2>2
<1>3. ScansInFlight'
  BY DEF StoreInv, ScansInFlight, ReadAsItIs, store
<1> QED
  BY <1>1, <1>2, <1>3

LEMMA HandleOpened ==
  TypeOK => opened \in {"none", "open", "dead"}
  BY DEF TypeOK, opened

(***************************************************************************)
(* The steps of the operations and of the handle that commit nothing.      *)
(***************************************************************************)
LEMMA OperationsGoOn ==
  ASSUME StoreInv, NEW o \in Op,
         Read(o) \/ Conflict(o) \/ TxFails(o) \/ Reopen(o) \/ RunAgain(o) \/ GivesUp(o)
  PROVE  /\ OpsGoOn /\ UNCHANGED <<store, lastSynced, readers, started, reads, peerWrites>>
         /\ handle' \in {"none", "open", "dead"} /\ failures' \in 0..MaxFailures
<1>0. /\ TypeOK /\ OpsOfTheirKind /\ op \in [Op -> OpState] /\ failures \in 0..MaxFailures
      /\ OpWellFormed(op[o])
  BY OpsWellFormed DEF StoreInv, TypeOK
<1>b. failures' \in 0..MaxFailures \/ UNCHANGED failures => failures' \in 0..MaxFailures
  BY <1>0
<1>f. Failure => failures' \in 0..MaxFailures
  BY <1>0, StoreAssumption DEF Failure
<1>1. CASE Read(o)
  <2>1. op[o].pc = "read" /\ op[o].id \in File /\ op[o].kind \in Builder \cup {"probe"}
    BY <1>0, <1>1 DEF Read, OpWellFormed
  <2>2. rows[op[o].id] \in FileRow \cup {None}
    BY <1>0, <2>1 DEF TypeOK, IsTable
  <2> DEFINE r == [op[o] EXCEPT !.pc = "tx", !.base = rows[op[o].id]]
  <2>3. CASE op[o].kind # "probe" /\ op' = [op EXCEPT ![o] = r]
    <3>1. OpWellFormed(r) /\ r.kind = op[o].kind /\ r.kind # "put"
      BY <1>0, <2>1, <2>2, <2>3, NoneIsNothing DEF OpWellFormed, OpState, Builder, Kind
    <3> QED
      BY <1>0, <1>1, <2>3, <3>1, OneOpGoesOn DEF Read, Quiet, bounds, TypeOK
  <2>4. CASE Ends(o)
    BY <1>0, <1>1, <2>4, IdleGoesOn DEF Read, Quiet, bounds, TypeOK
  <2> QED
    BY <1>0, <1>1, <2>1, <2>3, <2>4 DEF Read
<1>2. CASE Conflict(o)
  <2> DEFINE r == [op[o] EXCEPT !.pc = "read", !.attempt = @ + 1, !.aborts = 0]
  <2>1. op[o].kind \in Builder
    BY <1>2 DEF Conflict, casHolds
  <2>2. CASE op' = [op EXCEPT ![o] = r]
    <3>a. op[o] \in OpState /\ op[o].attempt + 1 \in Nat
      BY <1>0 DEF OpState
    <3>b. r \in OpState /\ SameSubject(r, op[o])
      BY <3>a, OpTypes
    <3>0. /\ r \in OpState /\ r.kind = op[o].kind /\ r.id = op[o].id
          /\ r.content = op[o].content /\ r.pc = "read"
      BY <3>a, <3>b DEF OpState, SameSubject
    <3>1. OpWellFormed(r) /\ r.kind = op[o].kind /\ r.kind # "put"
      BY <1>0, <2>1, <3>0, NoneIsNothing DEF OpWellFormed, Builder, Kind
    <3> QED
      BY <1>0, <1>2, <2>2, <3>1, OneOpGoesOn DEF Conflict, Quiet, bounds, TypeOK
  <2>3. CASE Ends(o)
    BY <1>0, <1>2, <2>3, IdleGoesOn DEF Conflict, Quiet, bounds, TypeOK
  <2> QED
    BY <1>0, <1>2, <2>2, <2>3 DEF Conflict
<1>3. CASE TxFails(o)
  <2> DEFINE r == [op[o] EXCEPT !.aborts = @ + 1]
  <2>1. CASE op' = [op EXCEPT ![o] = r]
    <3>1. /\ OpWellFormed(r) /\ r.kind = op[o].kind /\ r.id = op[o].id
          /\ r.content = op[o].content /\ r.base = op[o].base /\ r.peer = op[o].peer
      BY <1>0 DEF OpWellFormed, OpState
    <3>2. OpsGoOn
      BY <1>0, <2>1, <3>1, OneOpGoesOn
    <3> QED
      BY <1>0, <1>f, <1>3, <3>2 DEF TxFails, Failure, TypeOK
  <2>2. CASE Ends(o)
    BY <1>0, <1>f, <1>3, <2>2, IdleGoesOn DEF TxFails, Failure, TypeOK
  <2> QED
    BY <1>0, <1>3, <2>1, <2>2 DEF TxFails
<1>4. CASE Reopen(o)
  <2>1. \A p \in Op : /\ op'[p] \in OpState /\ op'[p].kind = op[p].kind
                      /\ op'[p].id = op[p].id /\ op'[p].content = op[p].content
                      /\ op'[p].base = op[p].base /\ op'[p].peer = op[p].peer
                      /\ op'[p].pc = op[p].pc \/ (op'[p].pc = "reopen" /\ op[p].pc # "idle")
    <3>1. \A p \in Op : op[p] \in OpState
      BY <1>0
    <3>2. ASSUME NEW p \in Op, p # o
          PROVE  op'[p] = [op[p] EXCEPT !.on = "closed"]
      BY <1>4, <3>2 DEF Reopen
    <3>3. op'[o] = [op[o] EXCEPT !.pc = "reopen", !.on = "closed", !.reopens = @ + 1]
          /\ op[o].pc # "idle"
      BY <1>4 DEF Reopen, expired, busy
    <3>4. op[o].reopens + 1 \in Nat
      BY <3>1 DEF OpState
    <3>5. op'[o] \in OpState /\ SameSubject(op'[o], op[o]) /\ op'[o].pc = "reopen"
      BY <3>1, <3>3, <3>4, OpTypes DEF OpState
    <3>6. ASSUME NEW p \in Op, p # o
          PROVE  op'[p] \in OpState /\ SameSubject(op'[p], op[p]) /\ op'[p].pc = op[p].pc
      BY <3>1, <3>2, <3>6, OpTypes DEF OpState
    <3> QED
      BY <3>3, <3>5, <3>6 DEF SameSubject
  <2>2. op' \in [Op -> OpState]
    BY <1>4, <2>1 DEF Reopen
  <2>3. OpsOfTheirKind' /\ \A p \in Op : SamePut(p)
    BY <1>0, <2>1 DEF OpsOfTheirKind, SamePut
  <2> QED
    BY <1>0, <1>4, <2>2, <2>3 DEF Reopen, OpsGoOn, Quiet, bounds
<1>5. CASE RunAgain(o)
  <2>1. op[o].kind # None
    BY <1>0, <1>5 DEF RunAgain, OpWellFormed
  <2> QED
    BY <1>0, <1>5, <2>1, BegunWellFormed, OneOpGoesOn, HandleOpened DEF RunAgain, Quiet, bounds
<1>6. CASE GivesUp(o)
  BY <1>0, <1>6, IdleGoesOn DEF GivesUp, Quiet, bounds, TypeOK
<1> QED
  BY <1>1, <1>2, <1>3, <1>4, <1>5, <1>6

Kept == StoreInv /\ FeedMissesNothing

(***************************************************************************)
(* All that is kept, over a step that commits nothing and starts nothing.  *)
(***************************************************************************)
LEMMA NothingCommitted ==
  ASSUME Kept, OpsGoOn, UNCHANGED <<store, cursor, scanned, peerWrites>>,
         feed' \in {feed, None}, scan' \in {scan, None},
         lastSynced' \in {lastSynced, vclockMeta}, handle' \in {"none", "open", "dead"},
         started' \in 0..MaxOps, reads' \in 0..MaxCalls, failures' \in 0..MaxFailures
  PROVE  Kept'
<1>1. TypeOK'
  BY DEF Kept, StoreInv, TypeOK, OpsGoOn, store
<1>2. OpsOfTheirKind'
  BY DEF OpsGoOn
<1> QED
  BY <1>1, <1>2, ReadersStay, ClocksStay DEF Kept, StoreInv

LEMMA OperationStep ==
  ASSUME Kept, NEW o \in Op,
         Read(o) \/ Conflict(o) \/ TxFails(o) \/ Reopen(o) \/ RunAgain(o) \/ GivesUp(o)
  PROVE  Kept'
<1>1. /\ OpsGoOn /\ UNCHANGED <<store, lastSynced, readers, started, reads, peerWrites>>
      /\ handle' \in {"none", "open", "dead"} /\ failures' \in 0..MaxFailures
  BY OperationsGoOn DEF Kept
<1> QED
  BY <1>1, NothingCommitted DEF Kept, StoreInv, TypeOK, readers

LEMMA HandleStep ==
  ASSUME Kept, HandleDies \/ EndOfApp
  PROVE  Kept'
<1>1. /\ started' \in 0..MaxOps /\ reads' \in 0..MaxCalls /\ failures' \in 0..MaxFailures
      /\ peerWrites' = peerWrites
  BY StoreAssumption DEF Kept, StoreInv, TypeOK, HandleDies, EndOfApp, Failure
<1>2. CASE HandleDies
  <2>1. OpsGoOn
    BY <1>2 DEF HandleDies, OpsGoOn, SamePut, Kept, StoreInv, TypeOK, OpsOfTheirKind
  <2> QED
    BY <1>1, <1>2, <2>1, NothingCommitted DEF HandleDies, Kept, StoreInv, TypeOK, readers
<1>3. CASE EndOfApp
  <2>1. \A o \in Op : op'[o] = idle /\ idle.kind # "put" /\ OpWellFormed(op'[o])
    BY <1>3, IdleWellFormed, NoneIsNothing DEF EndOfApp, idle, Kind
  <2>2. OpsGoOn
    BY <1>3, <2>1 DEF EndOfApp, OpsGoOn, SamePut, OpsOfTheirKind, OpWellFormed
  <2> QED
    BY <1>1, <1>3, <2>2, NothingCommitted DEF EndOfApp, Kept, StoreInv, TypeOK
<1> QED
  BY <1>2, <1>3

(***************************************************************************)
(* The start of an operation: a put gets a version of the peer that no one *)
(* has committed or is about to.                                           *)
(***************************************************************************)
LEMMA StartWellFormed ==
  ASSUME Kept, NEW o \in Op, NEW kind \in Kind, NEW id, NEW content, Start(o, kind, id, content),
         kind \in Builder \cup {"put"} => id \in File /\ content \in Content,
         kind = "probe" => id \in File /\ content = None,
         kind \in {"fetch", "delete"} => id \in Content /\ content = None
  PROVE  \E r : /\ OpWellFormed(r) /\ op' = [op EXCEPT ![o] = r]
                /\ r.kind = kind /\ r.id = id
                /\ kind = "put" => r.peer = peerWrites + 1
<1> DEFINE base == IF kind \in {"decision", "put"} THEN rows[id] ELSE None
           peer == IF kind = "put" THEN peerWrites + 1 ELSE 0
           q == [idle EXCEPT !.kind = kind, !.id = id, !.content = content,
                             !.base = base, !.peer = peer]
<1>1. base \in FileRow \cup {None} /\ peer \in Nat
  BY DEF Kept, StoreInv, TypeOK, IsTable, Builder
<1>2. id \in Id /\ content \in Content \cup {None}
  BY DEF Id, Builder, Kind
<1> HIDE DEF base, peer
<1>3. idle \in OpState /\ idle.pc = "idle"
  BY IdleWellFormed DEF OpWellFormed, idle
<1>4. q \in OpState
  BY <1>1, <1>2, <1>3 DEF OpState
<1>5. q.kind = kind /\ q.id = id /\ q.content = content /\ q.peer = peer /\ q.pc = "idle"
  BY <1>3 DEF OpState
<1>6. op' = [op EXCEPT ![o] = begun(q)]
  BY DEF Start, base, peer
<1> HIDE DEF q
<1>7. OpWellFormed(q) /\ q.kind # None
  BY <1>4, <1>5, NoneIsNothing DEF OpWellFormed, Kind, Builder
<1> QED
  BY <1>5, <1>6, <1>7, BegunWellFormed DEF peer

LEMMA StartStep ==
  ASSUME Kept, NEW o \in Op, Starts(o)
  PROVE  Kept'
<1>1. PICK kind, id, content :
        /\ kind \in Kind /\ Start(o, kind, id, content)
        /\ kind \in Builder \cup {"put"} => id \in File /\ content \in Content
        /\ kind = "probe" => id \in File /\ content = None
        /\ kind \in {"fetch", "delete"} => id \in Content /\ content = None
  BY DEF Starts, Kind, Builder
<1>2. PICK r : /\ OpWellFormed(r) /\ op' = [op EXCEPT ![o] = r]
               /\ r.kind = kind /\ r.id = id
               /\ kind = "put" => r.peer = peerWrites + 1
  BY <1>1, StartWellFormed
<1>3. /\ UNCHANGED <<store, lastSynced, readers, reads, failures>>
      /\ peerWrites' = IF kind = "put" THEN peerWrites + 1 ELSE peerWrites
      /\ started' \in 0..MaxOps /\ handle' \in {"none", "open", "dead"} /\ op[o].pc = "idle"
  BY <1>1, StoreAssumption, HandleOpened DEF Start, Kept, StoreInv, TypeOK
<1>4. CASE kind # "put"
  <2>1. OpsGoOn
    BY <1>2, <1>4, OneOpGoesOn DEF Kept, StoreInv, TypeOK
  <2> QED
    BY <1>3, <1>4, <2>1, NothingCommitted DEF Kept, StoreInv, TypeOK, readers
<1>5. CASE kind = "put"
  <2>0. /\ peerWrites' = peerWrites + 1 /\ peerWrites \in Nat
        /\ op' \in [Op -> OpState] /\ op'[o] = r /\ r.peer = peerWrites + 1
        /\ \A p \in Op \ {o} : op'[p] = op[p]
    BY <1>2, <1>3, <1>5 DEF Kept, StoreInv, TypeOK, OpWellFormed
  <2>1. TypeOK'
    BY <1>3, <2>0 DEF Kept, StoreInv, TypeOK, store, readers
  <2>2. OpsOfTheirKind'
    BY <1>2, <2>0 DEF Kept, StoreInv, OpsOfTheirKind, OpWellFormed
  <2>3. RowsNumbered' /\ FeedInFlight' /\ ScansInFlight' /\ FeedMissesNothing'
    BY <1>3, ReadersStay DEF Kept, readers
  <2>4. \A v \in named : v.vclock["peer"] \in Nat /\ v.vclock["peer"] <= peerWrites
    BY DEF Kept, StoreInv, TypeOK, PutsNumbered, Version, VC!Clock
  <2>5. PutsNumbered'
    <3>1. \A p \in Op \ {o} : op[p].kind = "put" => op[p].peer \in 1..peerWrites
      BY DEF Kept, StoreInv, PutsNumbered
    <3> QED
      BY <1>3, <2>0, <2>4, <3>1 DEF Kept, StoreInv, PutsNumbered, store
  <2>6. RowsNamed' /\ ClockNamesOneVersion'
    BY <1>3 DEF Kept, StoreInv, RowsNamed, ClockNamesOneVersion, store
  <2>7. ClocksGoOn'
    <3> SUFFICES ASSUME NEW v \in named, v.id \notin replayed
                 PROVE  /\ v.vclock["peer"] = clockOf(rows[v.id])["peer"]
                             => v.vclock["me"] <= clockOf(rows[v.id])["me"]
                        /\ \A p \in Op : op'[p].kind = "put" /\ op'[p].id = v.id
                                           /\ op'[p].peer = v.vclock["peer"]
                                           => versionOf(op'[p]) \in named
      BY <1>3 DEF ClocksGoOn, store, versionOf, clockOf
    <3>1. op'[o].peer # v.vclock["peer"]
      BY <2>0, <2>4
    <3> QED
      BY <2>0, <3>1 DEF Kept, StoreInv, ClocksGoOn
  <2> QED
    BY <2>1, <2>2, <2>3, <2>5, <2>6, <2>7 DEF Kept, StoreInv
<1> QED
  BY <1>4, <1>5

-----------------------------------------------------------------------------
(* The readers.                                                            *)

\* What a step of the readers leaves as it is.
LEMMA OthersStay ==
  ASSUME Kept, UNCHANGED <<store, op, peerWrites, lastSynced>>
  PROVE  /\ PutsNumbered' /\ RowsNamed' /\ ClocksGoOn' /\ ClockNamesOneVersion'
         /\ OpsOfTheirKind' /\ RowsNumbered'
<1>1. OpsGoOn
  BY DEF OpsGoOn, SamePut, Kept, StoreInv, TypeOK, OpsOfTheirKind
<1> QED
  BY <1>1, ClocksStay DEF OpsGoOn, Kept, StoreInv, RowsNumbered, store, present

LEMMA ReaderTypes ==
  ASSUME Kept, UNCHANGED <<store, op, peerWrites, lastSynced>>,
         Look \/ Quiet, handle' \in {opened, handle},
         feed' = None \/ IsTable(feed'), cursor'.seq \in Nat, IsTable(cursor'.taken),
         scan' = None \/ IsScan(scan'), scanned'.sig = None \/ IsScan(scanned')
  PROVE  TypeOK'
<1>1. reads' \in 0..MaxCalls /\ started' = started /\ failures' = failures
  BY StoreAssumption DEF Look, Quiet, bounds, Kept, StoreInv, TypeOK
<1> QED
  BY <1>1, HandleOpened DEF Kept, StoreInv, TypeOK, store, IsTable, IsScan

(***************************************************************************)
(* changes: the answer holds every row past the cursor, as it is.          *)
(***************************************************************************)
LEMMA ChangesStep ==
  ASSUME Kept, changes
  PROVE  Kept'
<1>0. /\ UNCHANGED <<store, op, peerWrites, lastSynced, cursor, scan, scanned>>
      /\ feed' = [i \in Id |-> IF rows[i] # None /\ rows[i].seq > cursor.seq
                               THEN rows[i] ELSE None]
      /\ IsTable(rows) /\ cursor.seq \in Nat
  BY DEF changes, Look, Kept, StoreInv, TypeOK
<1>1. IsTable(feed')
  BY <1>0, StoreAssumption DEF IsTable, Id
<1>2. TypeOK'
  BY <1>0, <1>1, ReaderTypes DEF changes, Kept, StoreInv, TypeOK
<1>3. RowsNumbered' /\ FeedMissesNothing' /\ ScansInFlight'
  BY <1>0 DEF Kept, StoreInv, RowsNumbered, FeedMissesNothing, ScansInFlight, ReadAsItIs,
              store, present
<1>4. \A i \in present(feed') : i \in present(rows) /\ feed'[i].seq <= updateSeq
  BY <1>0 DEF present, Kept, StoreInv, RowsNumbered
<1>5. ASSUME NEW i \in present(rows)
      PROVE  rows[i] = IF feed'[i] # None THEN feed'[i] ELSE cursor.taken[i]
  <2>1. i \in Id /\ rows[i] # None /\ rows[i].seq \in Nat
    BY <1>0, <1>5, RowTypes
  <2>2. CASE rows[i].seq > cursor.seq
    BY <1>0, <2>1, <2>2
  <2>3. CASE rows[i].seq <= cursor.seq
    BY <1>0, <1>5, <2>1, <2>3 DEF Kept, FeedMissesNothing
  <2> QED
    BY <1>0, <2>1, <2>2, <2>3
<1>6. FeedInFlight'
  BY <1>0, <1>4, <1>5 DEF FeedInFlight, Kept, StoreInv, store, present
<1> QED
  BY <1>0, <1>2, <1>3, <1>6, OthersStay DEF Kept, StoreInv

(***************************************************************************)
(* The push takes the answer in: the cursor passes only rows of it, or     *)
(* rows it had passed before.                                              *)
(***************************************************************************)
LEMMA TakeInStep ==
  ASSUME Kept, TakeIn
  PROVE  Kept'
<1>0. /\ UNCHANGED <<store, op, peerWrites, lastSynced, scan, scanned, handle>> /\ Quiet
      /\ feed # None /\ feed' = None /\ IsTable(feed) /\ IsTable(cursor.taken)
      /\ cursor'.seq = lastSeq(feed)
      /\ cursor'.taken = [i \in Id |-> IF feed[i] # None THEN feed[i] ELSE cursor.taken[i]]
  BY DEF TakeIn, Kept, StoreInv, TypeOK, Quiet, bounds
<1>1. lastSeq(feed) \in Nat /\ lastSeq(feed) <= updateSeq
  BY <1>0, LastSeqBounds DEF Kept, StoreInv
<1>2. IsTable(cursor'.taken)
  BY <1>0 DEF IsTable, Id
<1>3. TypeOK'
  BY <1>0, <1>1, <1>2, ReaderTypes DEF Kept, StoreInv, TypeOK
<1>4. FeedInFlight'
  BY <1>0, <1>1 DEF FeedInFlight, store
<1>5. FeedMissesNothing'
  BY <1>0 DEF Kept, StoreInv, FeedInFlight, FeedMissesNothing, store, present
<1>6. ScansInFlight'
  BY <1>0 DEF Kept, StoreInv, ScansInFlight, ReadAsItIs, store
<1> QED
  BY <1>0, <1>3, <1>4, <1>5, <1>6, OthersStay DEF Kept, StoreInv

(***************************************************************************)
(* The reconcile looks at the fingerprint first and reads then: what it    *)
(* reads is at least as new as the fingerprint it will record.             *)
(***************************************************************************)
LEMMA ScanStep ==
  ASSUME Kept, LookAtSignature \/ ReadDocs \/ putScanCursor
  PROVE  Kept'
<1>0. /\ UNCHANGED <<store, op, peerWrites, lastSynced, feed, cursor>>
      /\ (Look \/ Quiet) /\ handle' \in {opened, handle}
      /\ TypeOK /\ ScansInFlight /\ RowsNumbered
  BY DEF LookAtSignature, ReadDocs, putScanCursor, Look, Quiet, bounds, Kept, StoreInv
<1>1. FeedInFlight' /\ FeedMissesNothing'
  BY <1>0 DEF Kept, StoreInv, FeedInFlight, FeedMissesNothing, store, present, lastSeq
<1>2. CASE LookAtSignature
  <2>1. scan' = [sig |-> docsChangeSignature(rows), rows |-> None] /\ scanned' = scanned
    BY <1>2 DEF LookAtSignature
  <2>2. IsScan(scan')
    BY <1>0, <2>1, SignatureBounds DEF IsScan
  <2>3. ReadAsItIs(scan)' /\ ScansInFlight'
    BY <1>0, <2>1, SignatureBounds DEF ScansInFlight, ReadAsItIs, store
  <2>4. TypeOK'
    BY <1>0, <2>1, <2>2, ReaderTypes DEF TypeOK
  <2> QED
    BY <1>0, <1>1, <2>3, <2>4, OthersStay DEF Kept, StoreInv
<1>3. CASE ReadDocs
  <2>1. /\ scan # None /\ scan' = [scan EXCEPT !.rows = allFileDocs] /\ scanned' = scanned
        /\ IsScan(scan) /\ ReadAsItIs(scan) /\ scan.rows = None
    BY <1>0, <1>3 DEF ReadDocs, TypeOK, ScansInFlight
  <2>2. allFileDocs \in [File -> FileRow \cup {None}]
    BY <1>0 DEF allFileDocs, TypeOK, IsTable
  <2>3. IsScan(scan') /\ scan'.sig = scan.sig /\ scan'.rows = allFileDocs
    BY <2>1, <2>2 DEF IsScan
  <2>4. ScansInFlight'
    BY <1>0, <2>1, <2>3 DEF ScansInFlight, ReadAsItIs, store, allFileDocs
  <2>5. TypeOK'
    BY <1>0, <2>1, <2>3, ReaderTypes DEF TypeOK
  <2> QED
    BY <1>0, <1>1, <2>4, <2>5, OthersStay DEF Kept, StoreInv
<1>4. CASE putScanCursor
  <2>1. /\ scan # None /\ scan.rows # None /\ scan' = None /\ scanned' = scan
        /\ IsScan(scan) /\ ReadAsItIs(scan)
    BY <1>0, <1>4 DEF putScanCursor, TypeOK, ScansInFlight
  <2>2. ScansInFlight'
    BY <1>0, <2>1 DEF ScansInFlight, ReadAsItIs, store
  <2>3. TypeOK'
    BY <1>0, <2>1, ReaderTypes DEF TypeOK
  <2> QED
    BY <1>0, <1>1, <2>2, <2>3, OthersStay DEF Kept, StoreInv
<1> QED
  BY <1>2, <1>3, <1>4

-----------------------------------------------------------------------------
(* The commits.                                                            *)

Writer == Builder \cup {"put"}

LEMMA ClockTypes ==
  ASSUME NEW row \in FileRow \cup {None}
  PROVE  clockOf(row) \in VC!Clock
  BY DEF clockOf, FileRow, VC!ZeroClock, VC!Clock

(***************************************************************************)
(* A builder moves this device's counter on by one, a put sets the peer's. *)
(***************************************************************************)
LEMMA VersionTypes ==
  ASSUME NEW r, OpWellFormed(r), r.kind \in Writer
  PROVE  /\ versionOf(r) \in Version
         /\ versionOf(r).id = r.id /\ versionOf(r).content = r.content
         /\ r.kind \in Builder =>
              /\ versionOf(r).vclock["me"] = clockOf(r.base)["me"] + 1
              /\ versionOf(r).vclock["peer"] = clockOf(r.base)["peer"]
         /\ r.kind = "put" => versionOf(r).vclock["peer"] = r.peer
<1>1. clockOf(r.base) \in VC!Clock /\ r.id \in File /\ r.content \in Content /\ r.peer \in Nat
  BY ClockTypes DEF OpWellFormed, OpState, Writer
<1>2. CASE r.kind \in Builder
  <2>1. versionOf(r) = [id |-> r.id, content |-> r.content,
                        vclock |-> [clockOf(r.base) EXCEPT !["me"] = @ + 1]]
    BY <1>2 DEF versionOf, VC!incrementVC
  <2>2. r.kind # "put"
    BY <1>2 DEF Builder
  <2> QED
    BY <1>1, <1>2, <2>1, <2>2 DEF Version, VC!Clock
<1>3. CASE r.kind = "put"
  <2>1. versionOf(r) = [id |-> r.id, content |-> r.content,
                        vclock |-> [clockOf(r.base) EXCEPT !["peer"] = r.peer]]
    BY <1>3 DEF versionOf, Builder
  <2>2. r.kind \notin Builder
    BY <1>3 DEF Builder
  <2> QED
    BY <1>1, <1>3, <2>1, <2>2 DEF Version, VC!Clock
<1> QED
  BY <1>2, <1>3 DEF Writer

(***************************************************************************)
(* A transaction gives every row it writes the next sequence, and removes  *)
(* no document of a file.                                                  *)
(***************************************************************************)
LEMMA RowsWritten ==
  ASSUME Kept, NEW o \in Op, runWriteTx(o)
  PROVE  /\ rows' = [i \in Id |-> rows'[i]] /\ IsTable(rows') /\ updateSeq' = updateSeq + 1
         /\ \A i \in Id : \/ rows'[i] = rows[i] \/ rows'[i] = None
                          \/ rows'[i].seq = updateSeq + 1
         /\ \A f \in File : \/ rows'[f] = rows[f]
                            \/ /\ op[o].kind \in Writer /\ f = op[o].id
                               /\ rows'[f] = fileRow(op[o])
                               /\ rows'[f] # None /\ rows'[f].seq = updateSeq + 1
         /\ op[o].kind \in Writer =>
              rows'[op[o].id] = fileRow(op[o]) /\ fileRow(op[o]) # None
<1> DEFINE r == op[o]
<1>0. /\ IsTable(rows) /\ updateSeq \in Nat /\ nextSeq \in Nat /\ nextSeq = updateSeq + 1
      /\ OpWellFormed(r) /\ updateSeq' = updateSeq + 1 /\ rows' = written(r)
  BY OpsWellFormed DEF Kept, StoreInv, TypeOK, nextSeq, runWriteTx
<1> HIDE DEF r
<1>1. rows' = [i \in Id |-> rows'[i]]
  BY <1>0 DEF written
<1>2. r.kind \in Writer => /\ r.id \in File /\ fileRow(r) \in FileRow
                           /\ fileRow(r) # None /\ fileRow(r).seq = updateSeq + 1
  <2> SUFFICES ASSUME r.kind \in Writer
               PROVE  /\ r.id \in File /\ fileRow(r) \in FileRow
                      /\ fileRow(r) # None /\ fileRow(r).seq = updateSeq + 1
    OBVIOUS
  <2>1. versionOf(r) \in Version /\ r.id \in File /\ r.content \in Content
    BY <1>0, VersionTypes DEF OpWellFormed, Writer
  <2>2. fileRow(r) \in FileRow /\ fileRow(r).seq = updateSeq + 1
    BY <1>0, <2>1 DEF fileRow, FileRow, Version
  <2> QED
    BY <2>1, <2>2, NoneIsNothing
<1>3. [seq |-> nextSeq] \in ChunkRow /\ [seq |-> nextSeq] # None
  BY <1>0, NoneIsNothing DEF ChunkRow
<1>4. \A f \in File : rows'[f] = IF r.kind \in Writer /\ f = r.id THEN fileRow(r) ELSE rows[f]
  <2> TAKE f \in File
  <2>1. f \in Id /\ f \notin Content
    BY StoreAssumption DEF Id
  <2>2. CASE r.kind \in Writer /\ f = r.id
    <3>1. f # r.content /\ r.kind # "fetch" /\ r.kind # "delete"
      BY <1>0, <2>1, <2>2 DEF OpWellFormed, Builder, Writer
    <3> QED
      BY <1>0, <2>1, <2>2, <3>1 DEF written, Writer
  <2>3. CASE r.kind \in Builder /\ f # r.id
    <3>1. f # r.content /\ r.kind # "fetch" /\ r.kind # "delete"
      BY <1>0, <2>1, <2>3 DEF OpWellFormed, Builder
    <3> QED
      BY <1>0, <2>1, <2>3, <3>1 DEF written, Writer
  <2>4. CASE r.kind \notin Builder /\ ~(r.kind \in Writer /\ f = r.id)
    <3>1. ~(r.kind \in {"fetch", "delete"} /\ f = r.id)
      BY <1>0, <2>1 DEF OpWellFormed
    <3> QED
      BY <1>0, <2>1, <2>4, <3>1 DEF written, Writer
  <2> QED
    BY <2>2, <2>3, <2>4 DEF Writer
<1>5. ASSUME NEW c \in Content
      PROVE  rows'[c] \in {rows[c], None, [seq |-> nextSeq]}
  <2>1. c \in Id /\ c \notin File
    BY StoreAssumption DEF Id
  <2>2. ~(r.kind \in Builder \cup {"put"} /\ c = r.id)
    BY <1>2, <2>1 DEF Writer
  <2> QED
    BY <1>0, <2>1, <2>2 DEF written
<1>6. IsTable(rows')
  BY <1>0, <1>1, <1>2, <1>3, <1>4, <1>5 DEF IsTable
<1>7. \A i \in Id : rows'[i] = rows[i] \/ rows'[i] = None \/ rows'[i].seq = updateSeq + 1
  BY <1>0, <1>2, <1>4, <1>5 DEF Id
<1> QED
  BY <1>0, <1>1, <1>2, <1>4, <1>6, <1>7 DEF r

(***************************************************************************)
(* What is in flight stays as good when a transaction commits: the rows it *)
(* writes are past every sequence that was given out before.               *)
(***************************************************************************)
LEMMA ReadersOverWrite ==
  ASSUME Kept, NEW o \in Op, runWriteTx(o), UNCHANGED readers
  PROVE  RowsNumbered' /\ FeedInFlight' /\ ScansInFlight' /\ FeedMissesNothing'
<1>0. /\ updateSeq \in Nat /\ updateSeq' = updateSeq + 1 /\ IsTable(rows) /\ IsTable(rows')
      /\ feed' = feed /\ cursor' = cursor /\ scan' = scan /\ scanned' = scanned
      /\ TypeOK /\ RowsNumbered /\ FeedInFlight /\ ScansInFlight /\ cursor.seq \in Nat
  BY RowsWritten DEF Kept, StoreInv, TypeOK, readers
<1>1. \A i \in Id : \/ rows'[i] = rows[i] \/ rows'[i] = None \/ rows'[i].seq = updateSeq + 1
  BY RowsWritten
<1>2. \A f \in File : \/ rows'[f] = rows[f]
                      \/ rows'[f] # None /\ rows'[f].seq = updateSeq + 1
  BY RowsWritten
\* A row that the counter had reached before is the row it was.
<1>3. ASSUME NEW i \in present(rows'), NEW n \in Nat, n <= updateSeq, rows'[i].seq <= n
      PROVE  i \in present(rows) /\ rows'[i] = rows[i]
  BY <1>0, <1>1, <1>3 DEF present
<1>4. RowsNumbered'
  <2>1. ASSUME NEW i \in present(rows')
        PROVE  rows'[i].seq <= updateSeq + 1
    <3>1. CASE rows'[i] = rows[i]
      BY <1>0, <2>1, <3>1, RowTypes DEF RowsNumbered, present
    <3> QED
      BY <1>0, <1>1, <2>1, <3>1 DEF present
  <2> QED
    BY <1>0, <2>1 DEF RowsNumbered, present
<1>5. FeedMissesNothing'
  BY <1>0, <1>3 DEF Kept, FeedInFlight, FeedMissesNothing, present
<1>6. FeedInFlight'
  <2>1. cursor.seq <= updateSeq + 1
    BY <1>0 DEF FeedInFlight
  <2>2. ASSUME feed # None
        PROVE  /\ lastSeq(feed) \in Nat /\ lastSeq(feed) <= updateSeq
               /\ \A i \in present(feed) : feed[i].seq <= updateSeq + 1
    <3>1. \A i \in present(feed) : feed[i].seq \in Nat /\ feed[i].seq <= updateSeq
      BY <1>0, <2>2, RowTypes DEF FeedInFlight, TypeOK
    <3> QED
      BY <1>0, <2>2, <3>1, LastSeqBounds
  <2>3. ASSUME feed # None, NEW i \in present(rows'), rows'[i].seq <= lastSeq(feed)
        PROVE  rows'[i] = IF feed[i] # None THEN feed[i] ELSE cursor.taken[i]
    BY <1>0, <1>3, <2>2, <2>3 DEF FeedInFlight
  <2>4. lastSeq(feed)' = lastSeq(feed) /\ present(feed)' = present(feed)
    BY <1>0 DEF lastSeq, present
  <2> QED
    BY <1>0, <2>1, <2>2, <2>3, <2>4 DEF FeedInFlight, present
<1>7. ASSUME NEW s, IsScan(s), ReadAsItIs(s)
      PROVE  /\ s.sig.maxDocSeq <= updateSeq + 1
             /\ s.rows # None =>
                  \A f \in File : /\ rows'[f] = None => s.rows[f] = None
                                  /\ rows'[f] # None /\ rows'[f].seq <= s.sig.maxDocSeq
                                       => s.rows[f] = rows'[f]
  BY <1>0, <1>2, <1>7 DEF IsScan, ReadAsItIs
<1>8. ScansInFlight'
  <2>1. scan # None => IsScan(scan) /\ ReadAsItIs(scan)
    BY <1>0 DEF TypeOK, ScansInFlight
  <2>2. scanned.sig # None => IsScan(scanned) /\ ReadAsItIs(scanned) /\ scanned.rows # None
    BY <1>0 DEF TypeOK, ScansInFlight
  <2>3. scan # None => ReadAsItIs(scan)'
    BY <1>0, <1>7, <2>1 DEF ReadAsItIs
  <2>4. scanned.sig # None => ReadAsItIs(scanned)'
    BY <1>0, <1>7, <2>2 DEF ReadAsItIs
  <2> QED
    BY <1>0, <2>2, <2>3, <2>4 DEF ScansInFlight
<1> QED
  BY <1>4, <1>5, <1>6, <1>8

(***************************************************************************)
(* The clocks over a commit. A builder's version goes on from the row its  *)
(* compare-and-set found, to where no version with that counter of the     *)
(* peer has been; a put's has a counter of the peer of its own, so it can  *)
(* only be named already if this very put has been committed before.       *)
(***************************************************************************)
LEMMA ClocksOverWrite ==
  ASSUME Kept, NEW o \in Op, runWriteTx(o), OpsGoOn, peerWrites' = peerWrites
  PROVE  PutsNumbered' /\ RowsNamed' /\ ClocksGoOn' /\ ClockNamesOneVersion'
<1> DEFINE r == op[o]
           v == versionOf(r)
<1>0. /\ OpWellFormed(r) /\ casHolds(r)
      /\ \A f \in File : rows[f] \in FileRow \cup {None} /\ rows'[f] \in FileRow \cup {None}
      /\ named \subseteq Version /\ replayed \subseteq File /\ peerWrites \in Nat
      /\ PutsNumbered /\ RowsNamed /\ ClocksGoOn /\ ClockNamesOneVersion
  BY OpsWellFormed, RowsWritten DEF Kept, StoreInv, TypeOK, runWriteTx, IsTable
<1>1. /\ \A w \in named : /\ w.id \in File /\ w.vclock["me"] \in Nat /\ w.vclock["peer"] \in Nat
                          /\ w.vclock \in VC!Clock
      /\ \A f \in File : /\ clockOf(rows[f])["me"] \in Nat
                         /\ clockOf(rows[f])["peer"] \in Nat
  BY <1>0, ClockTypes DEF Version, VC!Clock
<1>2. \A p \in Op : op'[p].kind = "put" => /\ op[p].kind = "put" /\ op'[p].peer = op[p].peer
                                           /\ op'[p].id = op[p].id
                                           /\ versionOf(op'[p]) = versionOf(op[p])
  BY DEF OpsGoOn, SamePut, versionOf, Builder
<1>3. CASE r.kind \notin Writer
  <2>1. named' = named /\ replayed' = replayed /\ \A f \in File : rows'[f] = rows[f]
    BY <1>3, RowsWritten DEF runWriteTx, Writer
  <2>2. PutsNumbered'
    BY <1>0, <1>2, <2>1 DEF PutsNumbered
  <2>3. RowsNamed' /\ ClockNamesOneVersion'
    BY <1>0, <2>1 DEF RowsNamed, ClockNamesOneVersion
  <2>4. ClocksGoOn'
    <3> SUFFICES ASSUME NEW w \in named, w.id \notin replayed
                 PROVE  /\ w.vclock["peer"] = clockOf(rows[w.id])["peer"]
                             => w.vclock["me"] <= clockOf(rows[w.id])["me"]
                        /\ \A p \in Op : op'[p].kind = "put" /\ op'[p].id = w.id
                                           /\ op'[p].peer = w.vclock["peer"]
                                           => versionOf(op'[p]) \in named
      BY <1>1, <2>1 DEF ClocksGoOn, clockOf, versionOf
    <3> QED
      BY <1>0, <1>2 DEF ClocksGoOn
  <2> QED
    BY <2>2, <2>3, <2>4
<1>4. CASE r.kind \in Writer
  <2>0. /\ v \in Version /\ v.id = r.id /\ v.content = r.content /\ r.id \in File
        /\ v.vclock["me"] \in Nat /\ v.vclock["peer"] \in Nat
        /\ rows'[r.id] = fileRow(r) /\ fileRow(r) # None
        /\ rows'[r.id].vclock = v.vclock /\ rows'[r.id].content = v.content
        /\ clockOf(rows'[r.id]) = v.vclock
        /\ \A f \in File \ {r.id} : rows'[f] = rows[f]
        /\ named' = named \cup {v}
        /\ replayed' = IF r.kind = "put" /\ v \in named THEN replayed \cup {v.id} ELSE replayed
    <3>1. v \in Version /\ v.id = r.id /\ v.content = r.content /\ r.id \in File
      BY <1>0, <1>4, VersionTypes DEF OpWellFormed, Writer
    <3>2. rows'[r.id] = fileRow(r) /\ \A f \in File \ {r.id} : rows'[f] = rows[f]
      BY <1>4, RowsWritten
    <3>3. fileRow(r) # None
      BY <1>4, <3>1, <3>2, RowsWritten
    <3>4. fileRow(r).vclock = v.vclock /\ fileRow(r).content = v.content
      BY <3>1 DEF fileRow
    <3>5. clockOf(rows'[r.id]) = v.vclock
      BY <3>2, <3>3, <3>4 DEF clockOf
    <3>6. named' = named \cup {v}
          /\ replayed' = IF r.kind = "put" /\ v \in named THEN replayed \cup {v.id} ELSE replayed
      BY <1>4 DEF runWriteTx, Writer
    <3> QED
      BY <3>1, <3>2, <3>3, <3>4, <3>5, <3>6 DEF Version, VC!Clock
  <2>1. \/ /\ r.kind \in Builder
           /\ v.vclock["me"] = clockOf(rows[r.id])["me"] + 1
           /\ v.vclock["peer"] = clockOf(rows[r.id])["peer"]
        \/ r.kind = "put" /\ v.vclock["peer"] = r.peer /\ r.peer \in 1..peerWrites
    BY <1>0, <1>4, VersionTypes DEF casHolds, Writer, PutsNumbered
  <2> HIDE DEF v, r
  <2>2. \A f \in File : rows[f] # None =>
          \E w \in named : w.id = f /\ w.vclock = rows[f].vclock
    BY <1>0 DEF RowsNamed
  <2>3. v.vclock["peer"] <= peerWrites
    <3>1. CASE r.kind = "put"
      BY <1>0, <2>1, <3>1 DEF Builder
    <3>2. CASE r.kind \in Builder /\ rows[r.id] # None
      BY <1>0, <2>0, <2>1, <2>2, <3>2 DEF PutsNumbered, clockOf, Builder
    <3>3. CASE r.kind \in Builder /\ rows[r.id] = None
      BY <1>0, <2>1, <3>3 DEF clockOf, VC!ZeroClock, Builder
    <3> QED
      BY <1>4, <3>1, <3>2, <3>3 DEF Writer
  <2>4. PutsNumbered'
    BY <1>0, <1>2, <2>0, <2>3 DEF PutsNumbered
  <2>5. RowsNamed'
    <3>1. ASSUME NEW f \in File, rows'[f] # None
          PROVE  [id |-> f, vclock |-> rows'[f].vclock, content |-> rows'[f].content]
                   \in named \cup {v}
      <4>1. CASE f = r.id
        <5>1. v = [id |-> v.id, vclock |-> v.vclock, content |-> v.content]
          BY <2>0 DEF Version
        <5> QED
          BY <2>0, <4>1, <5>1
      <4>2. CASE f # r.id
        BY <1>0, <2>0, <3>1, <4>2 DEF RowsNamed
      <4> QED
        BY <4>1, <4>2
    <3> QED
      BY <2>0, <3>1 DEF RowsNamed
\* Nothing but this put, committed before, is named with its counter.
  <2>6. ASSUME NEW w \in named, w.id = r.id, w.id \notin replayed', w.vclock["peer"] = v.vclock["peer"]
        PROVE  r.kind \in Builder /\ w.vclock["me"] < v.vclock["me"]
    <3>1. w.id \notin replayed
      BY <2>0, <2>6
    <3>2. CASE r.kind = "put"
      <4>1. v \in named
        BY <1>0, <2>0, <2>1, <2>6, <3>1, <3>2 DEF ClocksGoOn, v, r, Builder
      <4> QED
        BY <2>0, <2>6, <3>2, <4>1
    <3>3. CASE r.kind \in Builder
      BY <1>0, <1>1, <2>0, <2>1, <2>6, <3>1, <3>3 DEF ClocksGoOn, Builder
    <3> QED
      BY <1>4, <3>2, <3>3 DEF Writer
  <2>7. ClockNamesOneVersion'
    <3> SUFFICES ASSUME NEW u \in named \cup {v}, NEW w \in named \cup {v},
                        u.id = w.id, u.vclock = w.vclock, u.id \notin replayed'
                 PROVE  u.content = w.content
      BY <2>0 DEF ClockNamesOneVersion
    <3>1. u.id \notin replayed
      BY <2>0
    <3>2. CASE u \in named /\ w \in named
      BY <1>0, <3>1, <3>2 DEF ClockNamesOneVersion
    <3>3. CASE u = v /\ w \in named
      BY <1>1, <2>0, <2>6, <3>3
    <3>4. CASE u \in named /\ w = v
      BY <1>1, <2>0, <2>6, <3>4
    <3> QED
      BY <3>2, <3>3, <3>4
  <2>8. ClocksGoOn'
    <3> SUFFICES ASSUME NEW w \in named \cup {v}, w.id \notin replayed'
                 PROVE  /\ w.vclock["peer"] = clockOf(rows'[w.id])["peer"]
                             => w.vclock["me"] <= clockOf(rows'[w.id])["me"]
                        /\ \A p \in Op : op'[p].kind = "put" /\ op'[p].id = w.id
                                           /\ op'[p].peer = w.vclock["peer"]
                                           => versionOf(op'[p]) \in named \cup {v}
      BY <2>0 DEF ClocksGoOn, clockOf, versionOf
    <3>0. w.id \notin replayed
      BY <2>0
    <3>1. w.vclock["peer"] = clockOf(rows'[w.id])["peer"]
            => w.vclock["me"] <= clockOf(rows'[w.id])["me"]
      <4>1. CASE w = v
        BY <2>0, <4>1
      <4>2. CASE w \in named /\ w.id = r.id
        BY <1>1, <2>0, <2>6, <4>2
      <4>3. CASE w \in named /\ w.id # r.id
        <5>1. clockOf(rows'[w.id]) = clockOf(rows[w.id])
          BY <1>1, <2>0, <4>3
        <5> QED
          BY <1>0, <3>0, <4>3, <5>1 DEF ClocksGoOn
      <4> QED
        BY <4>1, <4>2, <4>3
    <3>2. ASSUME NEW p \in Op, op'[p].kind = "put", op'[p].id = w.id,
                 op'[p].peer = w.vclock["peer"]
          PROVE  versionOf(op'[p]) \in named \cup {v}
      <4>0. op[p].kind = "put" /\ op[p].peer = w.vclock["peer"] /\ op[p].id = w.id
            /\ versionOf(op'[p]) = versionOf(op[p])
        BY <1>2, <3>2
      <4>1. CASE w \in named
        BY <1>0, <3>0, <4>0, <4>1 DEF ClocksGoOn
      <4>2. CASE w = v /\ p = o
        BY <4>0, <4>2 DEF v, r
      <4>3. CASE w = v /\ p # o /\ r.kind = "put"
        BY <1>0, <2>1, <4>0, <4>3 DEF PutsNumbered, r, Builder
      <4>4. CASE w = v /\ r.kind \in Builder
        <5>1. rows[r.id] # None
          BY <1>0, <1>1, <2>0, <2>1, <4>0, <4>4 DEF clockOf, VC!ZeroClock, PutsNumbered, Builder
        <5>2. PICK x \in named : x.id = r.id /\ x.vclock = rows[r.id].vclock
          BY <2>0, <2>2, <5>1
        <5>3. x.vclock["peer"] = op[p].peer
          BY <2>1, <4>0, <4>4, <5>1, <5>2 DEF clockOf, Builder
        <5> QED
          BY <1>0, <2>0, <3>0, <4>0, <4>4, <5>2, <5>3 DEF ClocksGoOn
      <4> QED
        BY <1>4, <4>1, <4>2, <4>3, <4>4 DEF Writer
    <3> QED
      BY <3>1, <3>2
  <2> QED
    BY <2>4, <2>5, <2>7, <2>8
<1> QED
  BY <1>3, <1>4

LEMMA CommitStep ==
  ASSUME Kept, NEW o \in Op, Commit(o) \/ CommitUnheard(o)
  PROVE  Kept'
<1>0. /\ runWriteTx(o) /\ UNCHANGED <<readers, peerWrites, started, reads>>
      /\ failures' \in 0..MaxFailures /\ handle' \in {"none", "open", "dead"}
      /\ OpWellFormed(op[o]) /\ op \in [Op -> OpState] /\ OpsOfTheirKind
  BY OpsWellFormed, StoreAssumption
     DEF Commit, CommitUnheard, Failure, Quiet, bounds, Kept, StoreInv, TypeOK
<1>1. OpsGoOn
  <2>1. CASE Commit(o)
    BY <1>0, <2>1, IdleGoesOn DEF Commit
  <2>2. CASE CommitUnheard(o)
    BY <1>0, <2>2 DEF CommitUnheard, OpsGoOn, SamePut, OpsOfTheirKind
  <2> QED
    BY <2>1, <2>2
<1>2. /\ vclockMeta' \in [File -> VC!Clock] /\ lastSynced' \in [File -> VC!Clock]
  <2>1. vclockMeta \in [File -> VC!Clock] /\ lastSynced \in [File -> VC!Clock]
    BY DEF Kept, StoreInv, TypeOK
  <2>2. CASE op[o].kind \in Writer
    <3>1. versionOf(op[o]).vclock \in VC!Clock
      BY <1>0, <2>2, VersionTypes DEF Version
    <3>2. \A clocks \in [File -> VC!Clock] : recorded(clocks, op[o]) \in [File -> VC!Clock]
      BY <3>1 DEF recorded
    <3> QED
      BY <2>1, <3>2 DEF Commit, CommitUnheard
  <2>3. CASE op[o].kind \notin Writer
    BY <2>1, <2>3 DEF Commit, CommitUnheard, Writer
  <2> QED
    BY <2>2, <2>3
<1>3. named' \subseteq Version /\ replayed' \subseteq File
  <2>1. named \subseteq Version /\ replayed \subseteq File
    BY DEF Kept, StoreInv, TypeOK
  <2>2. op[o].kind \in Writer => versionOf(op[o]) \in Version /\ versionOf(op[o]).id \in File
    BY <1>0, VersionTypes DEF Version
  <2> QED
    BY <1>0, <2>1, <2>2 DEF runWriteTx, Writer
<1>4. TypeOK'
  <2>1. IsTable(rows') /\ updateSeq' \in Nat
    BY <1>0, RowsWritten DEF Kept, StoreInv, TypeOK
  <2> QED
    BY <1>0, <1>1, <1>2, <1>3, <2>1
       DEF Kept, StoreInv, TypeOK, OpsGoOn, readers, IsTable, IsScan
<1> QED
  BY <1>0, <1>1, <1>4, ReadersOverWrite, ClocksOverWrite DEF Kept, StoreInv, OpsGoOn

-----------------------------------------------------------------------------
LEMMA KeptInit == Init => Kept
<1> SUFFICES ASSUME Init PROVE Kept
  OBVIOUS
<1>1. /\ rows = nothing /\ updateSeq = 0 /\ feed = None /\ scan = None
      /\ cursor.seq = 0 /\ cursor.taken = nothing /\ scanned.sig = None
      /\ named = {} /\ replayed = {} /\ peerWrites = 0
      /\ \A o \in Op : op[o] = idle
  BY DEF Init
<1>2. IsTable(nothing) /\ present(rows) = {}
  BY <1>1 DEF IsTable, nothing, present, Id
<1>3. /\ op \in [Op -> OpState] /\ \A o \in Op : OpWellFormed(op[o])
      /\ \A o \in Op : op[o].kind # "put"
  BY IdleWellFormed, NoneIsNothing DEF Init, OpWellFormed, idle, Kind
<1>4. VC!ZeroClock \in VC!Clock
  BY DEF VC!ZeroClock, VC!Clock
<1>5. TypeOK
  BY <1>1, <1>2, <1>3, <1>4, StoreAssumption DEF Init, TypeOK
<1>6. OpsOfTheirKind
  BY <1>3, OpsWellFormed
<1>7. RowsNumbered /\ FeedInFlight /\ ScansInFlight /\ FeedMissesNothing
  BY <1>1, <1>2 DEF RowsNumbered, FeedInFlight, ScansInFlight, FeedMissesNothing
<1>8. PutsNumbered /\ RowsNamed /\ ClocksGoOn /\ ClockNamesOneVersion
  BY <1>1, <1>3 DEF PutsNumbered, RowsNamed, ClocksGoOn, ClockNamesOneVersion, nothing, Id
<1> QED
  BY <1>5, <1>6, <1>7, <1>8 DEF Kept, StoreInv

LEMMA KeptStep == Kept /\ [Next]_vars => Kept'
<1> SUFFICES ASSUME Kept, [Next]_vars PROVE Kept'
  OBVIOUS
<1>1. ASSUME NEW o \in Op, Commit(o) \/ CommitUnheard(o)
      PROVE  Kept'
  BY <1>1, CommitStep
<1>2. CASE UNCHANGED vars
  <2>1. OpsGoOn
    BY <1>2 DEF vars, OpsGoOn, SamePut, Kept, StoreInv, TypeOK, OpsOfTheirKind
  <2> QED
    BY <1>2, <2>1, NothingCommitted
       DEF vars, store, readers, bounds, Kept, StoreInv, TypeOK
<1> QED
  BY <1>1, <1>2, StartStep, OperationStep, HandleStep, ChangesStep, TakeInStep, ScanStep
     DEF Next

LEMMA KeptAlways == Spec => []Kept
  BY KeptInit, KeptStep, PTL DEF Spec

(***************************************************************************)
(* What the database keeps whatever operations run at the same time, are   *)
(* retried, run again after the handle died, or end with the app: its      *)
(* types, and that no two versions of a file are committed under one clock *)
(* unless a put was run again after a commit nobody heard of               *)
(* (dexie-store.ts runWriteTx, write-transaction.ts, handle-guard.ts).     *)
(***************************************************************************)
THEOREM StoreKept == Spec => []StoreInv
  BY KeptAlways, PTL DEF Kept

(***************************************************************************)
(* The push's cursor passes no row it has not taken in, whatever commits   *)
(* while an answer of changes() is on its way, and however often the push  *)
(* starts over.                                                            *)
(***************************************************************************)
THEOREM FeedComplete == Spec => []FeedMissesNothing
  BY KeptAlways, PTL DEF Kept

(***************************************************************************)
(* The fast path of the reconcile is sound: a fingerprint equal to the     *)
(* recorded one means that no file's document has changed since the scan   *)
(* that recorded it, whatever was written, added or deleted meanwhile.     *)
(***************************************************************************)
THEOREM FastPathSound == Spec => []FastPathMissesNothing
<1>1. Kept => FastPathMissesNothing
  <2> SUFFICES ASSUME Kept, docsSigEquals(scanned.sig, docsChangeSignature(rows))
               PROVE  scanned.rows = allFileDocs
    BY DEF FastPathMissesNothing
  <2>1. /\ scanned.sig # None /\ scanned.sig = docsChangeSignature(rows)
        /\ IsScan(scanned) /\ scanned.rows # None /\ ReadAsItIs(scanned)
    BY DEF docsSigEquals, Kept, StoreInv, TypeOK, ScansInFlight
  <2>2. \A f \in File : rows[f] # None => rows[f].seq <= scanned.sig.maxDocSeq
    BY <2>1, SignatureBounds DEF Kept, StoreInv, present, Id
  <2>3. \A f \in File : scanned.rows[f] = rows[f]
    BY <2>1, <2>2 DEF ReadAsItIs
  <2>4. scanned.rows \in [File -> FileRow \cup {None}]
    BY <2>1 DEF IsScan
  <2> QED
    BY <2>3, <2>4 DEF allFileDocs
<1> QED
  BY <1>1, KeptAlways, PTL

=============================================================================
