------------------------- MODULE ConfigSync_proofs --------------------------
(***************************************************************************)
(* ConfigSync for any databases, files, keys and values and any number of  *)
(* actions and failures: what its variables hold; an app that holds what   *)
(* the disk has; a Pull that leaves the app's changes and the declared     *)
(* keys alone; and a Push that sends nothing but changes of this device.   *)
(***************************************************************************)
EXTENDS ConfigSync, FiniteSetTheorems, TLAPS

-----------------------------------------------------------------------------
(* The shape of the state.                                                 *)

ServerFields == {"root", "made", "docs", "seq"}
StoreFields  == {"att", "docs", "base", "cursor", "current", "migrated", "localFirst"}

ServerShape ==
  /\ DOMAIN server = DB
  /\ \A d \in DB : /\ DOMAIN server[d] = ServerFields
                   /\ DOMAIN server[d].docs = Path
                   /\ server[d].made \in Nat \ {0} /\ server[d].seq \in Nat
                   /\ server[d].root \in Nat
                   /\ \A p \in Path : server[d].docs[p] # None
                                      => server[d].docs[p].seq <= server[d].seq

StoreShape ==
  /\ DOMAIN store = DB
  /\ \A d \in DB : /\ DOMAIN store[d] = StoreFields
                   /\ DOMAIN store[d].docs = Path /\ DOMAIN store[d].base = Path
                   /\ store[d].att \in Nat

FileShape == DOMAIN disk = Path /\ DOMAIN memory = Path /\ DOMAIN declared = Path

HistoryShape ==
  /\ DOMAIN mine = DB /\ DOMAIN told = DB /\ acts \in Nat /\ failures \in Nat
  /\ \A d \in DB : /\ DOMAIN mine[d] = Path /\ DOMAIN told[d] = Path
                   /\ \A p \in Path : DOMAIN mine[d][p] = keys(p)

Shapes == ServerShape /\ StoreShape /\ FileShape /\ HistoryShape

Pulls  == {"pull", "share", "overwrite"}
Builds == {"create", "join"}

Fields == {"kind", "step", "plan", "todo", "deletes", "now", "at", "left", "root", "reset", "wrote",
           "stops"}

OpTyped ==
  /\ DOMAIN op = Fields
  /\ op.kind \in {"none", "push"} \cup Pulls \cup Builds
  /\ op.kind = "none" => op = NoOp
  /\ op.kind = "push" => op.step \in {"check", "select", "send", "record"}
  /\ op.kind \in Pulls => \/ op.step \in {"copy", "plan", "backup", "stop", "mark", "write", "settle"}
                         \/ op.step = IF op.kind = "share" THEN "release" ELSE "drop"
  /\ op.kind \in Builds => op.step \in {"wipe", "recreate", "meta", "save", "commit"}
  /\ op.todo \subseteq Path /\ op.deletes \subseteq Path /\ DOMAIN op.plan \subseteq Path
  /\ op.step \in {"settle", "drop"} => op.now \in Path
  /\ op.kind = "share" => op.at \in Positions
  /\ op.root \in Nat /\ (op.kind \in Builds => op.root <= server[bound].made)

-----------------------------------------------------------------------------
(***************************************************************************)
(* The app and the disk. They differ only where a Pull has written, this    *)
(* one or one that ended without a reload; and                             *)
(* there no change of the app's is on record.                              *)
(***************************************************************************)
differ(p, k) == /\ memory[p] # disk[p]
                /\ memory[p] = NoFile \/ disk[p] = NoFile \/ memory[p][k] # disk[p][k]

unwritten == (op.todo \cup op.deletes) \ IF op.step \in {"settle", "drop"} THEN {op.now} ELSE {}

AppFollows ==
  /\ op.wrote => op.kind \in Pulls /\ op.step \in {"write", "settle", "drop", "release"}
  /\ op.kind \in Pulls => ~reloading
  /\ ~reloading /\ ~unreloaded /\ ~op.wrote => memory = disk
  /\ \A d \in DB, p \in Path : \A k \in keys(p) : differ(p, k) => mine[d][p][k] = None
  /\ op.kind \in Pulls =>
        \A p \in unwritten \cup (DOMAIN op.plan \ writes(op.plan)) :
          p \in DOMAIN op.plan /\ memory[p] # disk[p] => disk[p] = op.plan[p].local
  /\ op.step = "settle" /\ memory[op.now] # disk[op.now] => disk[op.now] = op.plan[op.now].content

(***************************************************************************)
(* The bases. Where a store has one for a file, the disk differs from it   *)
(* at the keys the app changed, and at those a Pull kept knowingly; except *)
(* while a Pull has written the file and not recorded it yet.              *)
(***************************************************************************)
base(d, p) == store[d].base[p]

Fresh(d) == store[d].current \/ (op.step = "mark" /\ d = bound)

settling(d, p) == op.step = "settle" /\ d = bound /\ p = op.now

BaseExplains ==
  \A d \in DB, p \in Path :
    /\ Fresh(d) /\ base(d, p) # None => disk[p] # NoFile
    /\ store[d].migrated /\ base(d, p) # None => store[d].docs[p] # None
    /\ Fresh(d) /\ store[d].migrated /\ base(d, p) # None =>
         \A k \in keys(p) :
           /\ mine[d][p][k] # None => disk[p][k] # base(d, p).content[k]
           /\ disk[p][k] # base(d, p).content[k]
                => mine[d][p][k] # None \/ k \in told[d][p] \/ settling(d, p)

(***************************************************************************)
(* A store of an older build, until this one's first use of it: what it    *)
(* holds is what the build left, and the changes on record are those       *)
(* against the version the server had then. That version is the one to     *)
(* migrate with, or a peer has replaced it.                                *)
(***************************************************************************)
unsent(p) == Legacy[p] \in {"unsent", "crossed"}

origin(d, p) == IF unsent(p) THEN other(p) ELSE first(p)

LegacyServer(d) ==
  \A p \in Path :
    LET doc == server[d].docs[p]
    IN IF Legacy[p] = "gone"
       THEN doc # None => doc.vclock["me"] = 0 /\ doc.vclock["peer"] >= 1
       ELSE /\ doc # None /\ doc.vclock["me"] = 1 /\ doc.vclock["peer"] >= 2
            /\ doc.vclock["peer"] = 2 => doc.content = other(p)

LegacyStore(d) ==
  /\ d # Home /\ store[d].att = 1
  /\ \A p \in Path : store[d].docs[p] = scanned(d, p) /\ base(d, p) = scanned(d, p)
  /\ server[d].root = 1 => LegacyServer(d)
  /\ store[d].current =>
       /\ memory = disk
       /\ \A p \in Path :
            /\ told[d][p] = {} /\ disk[p] # NoFile
            /\ \A k \in keys(p) :
                 IF mine[d][p][k] = None THEN disk[p][k] = origin(d, p)[k]
                 ELSE mine[d][p][k] = origin(d, p)[k] /\ disk[p][k] # origin(d, p)[k]

EmptyStore(d) == \A p \in Path : base(d, p) = None /\ store[d].docs[p] = None

LegacyHolds == \A d \in DB : ~store[d].migrated => EmptyStore(d) \/ LegacyStore(d)

(* A Create or Join is past its first step: the store is the empty one. *)
Wiped == op.kind \in Builds /\ op.step # "wipe" => EmptyStore(bound)

-----------------------------------------------------------------------------
(***************************************************************************)
(* A Push. What it sends are changes of the disk it read against the base, *)
(* at keys that are not declared; and a revision that the server still has *)
(* is that of the base.                                                    *)
(***************************************************************************)
PushEntry(p) == [base : Doc(p) \cup {None}, local : Content(p), rev : (Nat \X Nat) \cup {None},
                 sent : SUBSET keys(p), content : Content(p)]

RevKnown(p) ==
  LET rev == op.plan[p].rev
  IN rev # None =>
       /\ rev[1] <= server[bound].made
       /\ rev[1] = server[bound].made => rev[2] <= server[bound].seq
       /\ rev = revOf(bound, p) => sameVersion(server[bound].docs[p], op.plan[p].base)

SendsChanges(p) ==
  LET e == op.plan[p]
  IN \A k \in keys(p) :
       IF k \in e.sent THEN e.content[k] = e.local[k] /\ (e.base # None => k \notin declared[p])
       ELSE e.base # None /\ e.content[k] = e.base.content[k]

PushPlanned(p) ==
  /\ op.plan[p] \in PushEntry(p) /\ op.plan[p].base = base(bound, p)
  /\ memory[p] # disk[p] => disk[p] = op.plan[p].local
  /\ RevKnown(p)
  /\ op.step = "send" => SendsChanges(p)

PushSent(p) ==
  LET e == op.plan[p]
  IN /\ e \in [content : Content(p), sent : SUBSET keys(p), vclock : [{"me", "peer"} -> Nat]]
     /\ \A k \in keys(p) :
          IF k \in e.sent THEN memory[p] # disk[p] => disk[p][k] = e.content[k]
          ELSE p \in op.todo => /\ base(bound, p) # None
                                /\ e.content[k] = base(bound, p).content[k]

PushHolds ==
  op.kind = "push" =>
    /\ store[bound].migrated /\ store[bound].current
    /\ \A p \in DOMAIN op.plan :
         /\ disk[p] # NoFile
         /\ op.step # "record" => PushPlanned(p)
         /\ op.step = "record" => PushSent(p)
    /\ op.step = "record" => op.todo \subseteq DOMAIN op.plan

(***************************************************************************)
(* A Pull. What it will write differs from the shared version only at keys *)
(* it reports as kept, and from the disk it read only at keys that are not *)
(* declared and that the base explains.                                    *)
(***************************************************************************)
PullEntry(p) == [shared : Doc(p), based : BOOLEAN, local : Content(p) \cup {NoFile},
                 content : Content(p), kept : SUBSET keys(p)]

KeepsReported(p) ==
  \A k \in keys(p) :
    op.plan[p].content[k] # op.plan[p].shared.content[k] => k \in op.plan[p].kept

TakesOnly(p) ==
  LET e == op.plan[p]
  IN e.local # NoFile =>
       \A k \in keys(p) :
         e.content[k] # e.local[k] /\ ~(op.kind = "share" /\ op.at = <<p, k>>) =>
           /\ k \notin declared[p]
           /\ IF e.based THEN base(bound, p) # None /\ base(bound, p).content[k] = e.local[k]
              ELSE p \notin store[bound].localFirst \/ e.local[k] = Missing

PullPlanned(p) ==
  /\ op.plan[p] \in PullEntry(p) /\ store[bound].docs[p] # None
  /\ KeepsReported(p)
  /\ p \notin writes(op.plan) => disk[p] # NoFile
  /\ op.kind # "overwrite" /\ p \in op.todo /\ ~settling(bound, p) => TakesOnly(p)

drawn == \/ op.step \in {"mark", "settle", "drop"}
         \/ op.step = "write" /\ op.todo \cup op.deletes # {}

PullHolds ==
  op.kind \in Pulls =>
    /\ store[bound].migrated /\ Fresh(bound)
    /\ op.step \in {"copy", "plan"} => DOMAIN op.plan = {} /\ op.todo = {} /\ op.deletes = {}
    /\ op.todo \subseteq writes(op.plan) /\ op.deletes \cap DOMAIN op.plan = {}
    /\ op.kind # "overwrite" => op.deletes = {}
    /\ drawn => \A d \in DB \ {bound} : ~store[d].current
    /\ op.step = "settle" => op.now \in op.todo /\ disk[op.now] # NoFile
    /\ op.step = "drop" => op.now \in op.deletes
    /\ \A p \in op.deletes : base(bound, p) = None
    /\ \A p \in DOMAIN op.plan : PullPlanned(p)

IInv == /\ TypeOK /\ Shapes /\ OpTyped /\ AppFollows /\ BaseExplains /\ LegacyHolds
        /\ Wiped /\ PushHolds /\ PullHolds

-----------------------------------------------------------------------------
(* Contents and versions.                                                  *)

LEMMA Contents ==
  ASSUME NEW p \in Path
  PROVE  /\ keys(p) # {} /\ keys(p) \subseteq Key \cup {Whole}
         /\ p \notin Keyed => keys(p) = {Whole}
         /\ NoFile \notin Content(p) /\ None \notin Content(p)
         /\ \A c \in Content(p) : /\ DOMAIN c = keys(p)
                                  /\ \A k \in keys(p) : c[k] \in Values(p) /\ c[k] # None
<1>1. keys(p) # {} /\ keys(p) \subseteq Key \cup {Whole} /\ (p \notin Keyed => keys(p) = {Whole})
  BY ConfigAssumption DEF keys
<1>2. NoFile \notin Content(p) /\ None \notin Content(p)
  BY NoneIsNothing
<1>3. None \notin Values(p)
  BY NoneIsNothing DEF Values
<1> QED
  BY <1>1, <1>2, <1>3 DEF Content, Values

LEMMA Versions ==
  ASSUME NEW p \in Path
  PROVE  /\ None \notin Doc(p) /\ None \notin Uploaded(p)
         /\ \A doc \in Uploaded(p) : /\ version(doc) \in Doc(p) /\ doc.seq \in Nat
                                     /\ version(doc) # None
                                     /\ version(doc).vclock = doc.vclock
                                     /\ version(doc).content = doc.content
         /\ \A v \in Doc(p) \cup Uploaded(p) :
              /\ v.content \in Content(p) /\ v.vclock \in [{"me", "peer"} -> Nat]
              /\ v.vclock["me"] \in Nat /\ v.vclock["peer"] \in Nat
<1>1. None \notin Doc(p) /\ None \notin Uploaded(p)
  BY NoneIsNothing
<1> QED
  BY <1>1 DEF version, Doc, Uploaded

LEMMA FirstIs ==
  ASSUME NEW p \in Path
  PROVE  first(p) \in Content(p) /\ Missing \notin {first(p)[k] : k \in keys(p)}
<1>1. PICK v \in Value : TRUE
  BY ConfigAssumption
<1>2. [k \in keys(p) |-> v] \in Content(p)
  BY DEF Content
<1>3. Missing \notin {[k \in keys(p) |-> v][j] : j \in keys(p)}
  BY ConfigAssumption
<1> QED
  BY <1>2, <1>3 DEF first

LEMMA OtherIs ==
  ASSUME NEW p \in Path
  PROVE  other(p) \in Content(p)
<1>1. PICK k \in keys(p) : TRUE
  BY Contents
<1>2. first(p) \in Content(p) /\ Missing \notin {first(p)[j] : j \in keys(p)}
  BY FirstIs
<1>3. first(p)[k] \in Value
  BY <1>2 DEF Content
<1>4. PICK w \in Value : w # first(p)[k]
  BY <1>3, ConfigAssumption
<1> DEFINE c == [first(p) EXCEPT ![k] = w]
<1>5. c \in Content(p) /\ DOMAIN c = keys(p)
  BY <1>2 DEF Content
<1>6. Missing \notin {c[j] : j \in keys(p)}
  BY <1>2, <1>5, ConfigAssumption DEF Content
<1>7. diffJson(first(p), c) = {k}
  BY <1>2, <1>4, <1>5 DEF diffJson, Content
<1>8. Cardinality(diffJson(first(p), c)) = 1
  BY <1>7, FS_Singleton
<1> HIDE DEF c
<1> QED
  BY <1>5, <1>6, <1>8 DEF other

LEMMA Clocks ==
  /\ \A n, m \in Nat : /\ clock(n, m) \in [{"me", "peer"} -> Nat]
                       /\ clock(n, m)["me"] = n /\ clock(n, m)["peer"] = m
  /\ \A c \in [{"me", "peer"} -> Nat] :
       /\ VC!incrementVC(c, "me") \in [{"me", "peer"} -> Nat]
       /\ VC!incrementVC(c, "me")["peer"] = c["peer"]
       /\ VC!incrementVC(c, "me")["me"] = c["me"] + 1
       /\ VC!incrementVC(c, "peer") \in [{"me", "peer"} -> Nat]
       /\ VC!incrementVC(c, "peer")["me"] = c["me"]
       /\ VC!incrementVC(c, "peer")["peer"] = c["peer"] + 1
<1>1. \A n, m \in Nat : /\ clock(n, m) \in [{"me", "peer"} -> Nat]
                        /\ clock(n, m)["me"] = n /\ clock(n, m)["peer"] = m
  BY DEF clock
<1>2. "me" # "peer"
  OBVIOUS
<1> QED
  BY <1>1, <1>2 DEF VC!incrementVC

LEMMA ScannedIs ==
  ASSUME NEW d \in DB, NEW p \in Path
  PROVE  /\ scanned(d, p) \in Doc(p) /\ uploaded(d, p) \in Uploaded(p) \cup {None}
         /\ scanned(d, p).content = first(p)
         /\ scanned(d, p).vclock = CASE d = Home \/ Legacy[p] = "behind" -> clock(1, 1)
                                     [] d # Home /\ Legacy[p] = "unsent"  -> clock(2, 2)
                                     [] d # Home /\ Legacy[p] = "crossed" -> clock(2, 1)
                                     [] d # Home /\ Legacy[p] = "gone"    -> clock(1, 0)
<1>1. Legacy[p] \in {"behind", "unsent", "crossed", "gone"}
  BY ConfigAssumption
<1>2. first(p) \in Content(p) /\ other(p) \in Content(p)
  BY FirstIs, OtherIs
<1>3. uploaded(d, p) \in Uploaded(p) \cup {None}
  BY <1>2, Clocks DEF uploaded, Uploaded
<1>4. scanned(d, p).content = first(p)
  BY DEF scanned
<1>5. CASE d = Home
  BY <1>2, <1>3, <1>5, Clocks DEF scanned, Doc
<1>6. CASE d # Home /\ Legacy[p] = "behind"
  BY <1>2, <1>3, <1>6, Clocks DEF scanned, Doc
<1>7. CASE d # Home /\ Legacy[p] = "unsent"
  BY <1>2, <1>3, <1>7, Clocks DEF scanned, Doc
<1>8. CASE d # Home /\ Legacy[p] = "crossed"
  BY <1>2, <1>3, <1>8, Clocks DEF scanned, Doc
<1>9. CASE d # Home /\ Legacy[p] = "gone"
  BY <1>2, <1>3, <1>9, Clocks DEF scanned, Doc
<1> QED
  BY <1>1, <1>5, <1>6, <1>7, <1>8, <1>9

-----------------------------------------------------------------------------
(* The first states.                                                       *)

LEMMA Idle ==
  ASSUME op' = NoOp
  PROVE  /\ OpTyped' /\ Wiped' /\ PushHolds' /\ PullHolds'
         /\ op'.kind = "none" /\ op'.step = "idle" /\ ~op'.wrote
<1>1. DOMAIN op' = Fields
  BY DEF NoOp, Fields
<1>2. /\ op'.kind = "none" /\ op'.step = "idle" /\ ~op'.wrote /\ op'.root = 0
      /\ op'.todo = {} /\ op'.deletes = {} /\ DOMAIN op'.plan = {}
  BY DEF NoOp
<1>3. op'.kind \notin Pulls /\ op'.kind \notin Builds
  BY <1>2 DEF Pulls, Builds
<1>4. OpTyped'
  <2>1. op'.kind \in {"none", "push"} \cup Pulls \cup Builds
    BY <1>2
  <2>2. op'.todo \subseteq Path /\ op'.deletes \subseteq Path /\ DOMAIN op'.plan \subseteq Path
    BY <1>2
  <2>3. op'.step \notin {"settle", "drop"} /\ op'.kind # "share" /\ op'.kind # "push"
    BY <1>2, <1>3 DEF Pulls
  <2>4. op'.root \in Nat
    BY <1>2
  <2> QED
    BY <1>1, <1>3, <2>1, <2>2, <2>3, <2>4 DEF OpTyped
<1> QED
  BY <1>2, <1>3, <1>4 DEF Wiped, PushHolds, PullHolds

LEMMA InitTyped ==
  ASSUME Init
  PROVE  TypeOK /\ Shapes /\ OpTyped
<1>0. \A d \in DB :
        /\ server[d].root = 1 /\ server[d].made = 1 /\ server[d].seq = IF d = Home THEN 2 ELSE 3
        /\ DOMAIN server[d] = ServerFields /\ DOMAIN server[d].docs = Path
        /\ \A p \in Path : server[d].docs[p] = uploaded(d, p)
  BY DEF Init, ServerFields
<1>1. \A d \in DB :
        /\ store[d].att = 1
        /\ DOMAIN store[d] = StoreFields
        /\ DOMAIN store[d].docs = Path /\ DOMAIN store[d].base = Path
        /\ \A p \in Path : store[d].docs[p] = scanned(d, p) /\ store[d].base[p] = scanned(d, p)
  BY DEF Init, StoreFields
<1>9. \A d \in DB : /\ DOMAIN told[d] = Path /\ DOMAIN mine[d] = Path
                    /\ \A p \in Path : told[d][p] = {} /\ DOMAIN mine[d][p] = keys(p)
  BY DEF Init
<1>2. /\ disk = [p \in Path |-> first(p)] /\ memory = disk /\ bound = Home
      /\ DOMAIN server = DB /\ DOMAIN store = DB /\ DOMAIN mine = DB /\ DOMAIN told = DB
      /\ settingUp = {} /\ declared = [p \in Path |-> {}] /\ off = {}
      /\ stopped = {} /\ reloading = FALSE /\ unreloaded = FALSE
      /\ op = NoOp /\ acts = 0 /\ failures = 0
  BY DEF Init
<1>3. MaxRoots \in Nat /\ MaxRoots > 0 /\ Home \in DB
  BY ConfigAssumption
<1>4. TypeOK
  <2>1. \A d \in DB : /\ server[d].root \in 0..server[d].made /\ server[d].made <= MaxRoots
                      /\ store[d].att \in 0..server[d].made
    BY <1>0, <1>1, <1>3
  <2>2. \A d \in DB, p \in Path :
          /\ server[d].docs[p] \in Uploaded(p) \cup {None}
          /\ {store[d].docs[p], store[d].base[p]} \subseteq Doc(p) \cup {None}
          /\ told[d][p] \subseteq keys(p)
    BY <1>0, <1>1, <1>9, ScannedIs
  <2>3. \A p \in Path : /\ {disk[p], memory[p]} \subseteq Content(p) \cup {NoFile}
                        /\ declared[p] \subseteq IF p \in Keyed THEN Key ELSE {}
    BY <1>2, FirstIs
  <2> QED
    BY <1>2, <1>3, <2>1, <2>2, <2>3 DEF TypeOK
<1>5. Shapes
  <2>1. ServerShape
    <3>1. \A d \in DB, p \in Path :
            uploaded(d, p) # None => uploaded(d, p).seq = IF d = Home THEN 2 ELSE 3
      BY DEF uploaded
    <3> QED
      BY <1>0, <1>2, <3>1 DEF ServerShape
  <2>2. StoreShape
    BY <1>1, <1>2 DEF StoreShape
  <2>3. FileShape /\ HistoryShape
    BY <1>2, <1>9 DEF FileShape, HistoryShape
  <2> QED
    BY <2>1, <2>2, <2>3 DEF Shapes
<1>6. OpTyped
  <2>1. DOMAIN op = Fields
    BY <1>2 DEF NoOp, Fields
  <2>2. /\ op.kind = "none" /\ op.step = "idle" /\ ~op.wrote /\ op.root = 0
        /\ op.todo = {} /\ op.deletes = {} /\ DOMAIN op.plan = {}
    BY <1>2 DEF NoOp
  <2>3. op.kind \notin Pulls /\ op.kind \notin Builds
    BY <2>2 DEF Pulls, Builds
  <2>4. op.todo \subseteq Path /\ op.deletes \subseteq Path /\ DOMAIN op.plan \subseteq Path
    BY <2>2
  <2> QED
    BY <1>2, <2>1, <2>2, <2>3, <2>4 DEF OpTyped
<1> QED
  BY <1>4, <1>5, <1>6

LEMMA InitHolds ==
  ASSUME Init
  PROVE  IInv
<1>1. TypeOK /\ Shapes /\ OpTyped
  BY InitTyped
<1>2. /\ memory = disk /\ disk = [p \in Path |-> first(p)] /\ op = NoOp /\ reloading = FALSE
      /\ told = [d \in DB |-> [p \in Path |-> {}]]
      /\ \A d \in DB, p \in Path : \A k \in keys(p) : mine[d][p][k] =
            IF d # Home /\ Legacy[p] \in {"unsent", "crossed"} /\ first(p)[k] # other(p)[k]
            THEN other(p)[k] ELSE None
  BY DEF Init
<1>3. \A d \in DB : /\ store[d].att = 1 /\ server[d].root = 1 /\ (store[d].migrated <=> d = Home)
                    /\ \A p \in Path : /\ store[d].docs[p] = scanned(d, p)
                                       /\ base(d, p) = scanned(d, p)
                                       /\ server[d].docs[p] = uploaded(d, p)
  BY DEF Init, base
<1>4. \A p \in Path : /\ first(p) \in Content(p) /\ first(p) # NoFile
                      /\ other(p) \in Content(p)
                      /\ \A k \in keys(p) : other(p)[k] # None
  BY FirstIs, OtherIs, Contents
<1>5. op.kind = "none" /\ op.step = "idle" /\ ~op.wrote
  BY <1>2 DEF NoOp
<1>6. AppFollows
  BY <1>2, <1>5 DEF AppFollows, differ, Pulls
<1>7. BaseExplains
  <2> SUFFICES ASSUME NEW d \in DB, NEW p \in Path
               PROVE  /\ disk[p] # NoFile /\ store[d].docs[p] # None
                      /\ store[d].migrated =>
                           \A k \in keys(p) : /\ mine[d][p][k] = None
                                              /\ disk[p][k] = base(d, p).content[k]
    BY DEF BaseExplains
  <2>1. scanned(d, p) # None /\ scanned(d, p).content = first(p)
    BY ScannedIs, Versions
  <2> QED
    BY <1>2, <1>3, <1>4, <2>1
<1>8. LegacyHolds
  <2> SUFFICES ASSUME NEW d \in DB, d # Home PROVE LegacyStore(d)
    BY <1>3 DEF LegacyHolds
  <2>1. LegacyServer(d)
    <3> SUFFICES ASSUME NEW p \in Path, server[d].docs[p] = uploaded(d, p)
                 PROVE  LET doc == server[d].docs[p]
                        IN IF Legacy[p] = "gone"
                           THEN doc # None => doc.vclock["me"] = 0 /\ doc.vclock["peer"] >= 1
                           ELSE /\ doc # None /\ doc.vclock["me"] = 1 /\ doc.vclock["peer"] >= 2
                                /\ doc.vclock["peer"] = 2 => doc.content = other(p)
      BY <1>3 DEF LegacyServer
    <3>1. CASE Legacy[p] = "gone"
      BY <3>1 DEF uploaded
    <3>2. CASE Legacy[p] # "gone"
      <4>1. uploaded(d, p) = [vclock |-> clock(1, 2), content |-> other(p), seq |-> 3]
        BY <3>2 DEF uploaded
      <4>2. uploaded(d, p) \in Uploaded(p) /\ uploaded(d, p) # None
        BY <1>4, <4>1, Clocks, Versions DEF Uploaded
      <4> QED
        BY <3>2, <4>1, <4>2, Clocks
    <3> QED
      BY <3>1, <3>2
  <2>2. \A p \in Path :
          /\ told[d][p] = {} /\ disk[p] # NoFile
          /\ \A k \in keys(p) :
               IF mine[d][p][k] = None THEN disk[p][k] = origin(d, p)[k]
               ELSE mine[d][p][k] = origin(d, p)[k] /\ disk[p][k] # origin(d, p)[k]
    BY <1>2, <1>4 DEF origin, unsent
  <2> QED
    BY <1>2, <1>3, <2>1, <2>2 DEF LegacyStore
<1>9. Wiped /\ PushHolds /\ PullHolds
  BY <1>5 DEF Wiped, PushHolds, PullHolds, Pulls, Builds
<1> QED
  BY <1>1, <1>6, <1>7, <1>8, <1>9 DEF IInv

-----------------------------------------------------------------------------
(* What stays as it is.                                                    *)

LEMMA Parts ==
  ASSUME IInv
  PROVE  /\ TypeOK /\ ServerShape /\ StoreShape /\ FileShape /\ HistoryShape /\ OpTyped
         /\ AppFollows /\ BaseExplains /\ LegacyHolds /\ Wiped /\ PushHolds /\ PullHolds
         /\ bound \in DB
  BY DEF IInv, Shapes, TypeOK

LEMMA Together ==
  ASSUME TypeOK', Shapes', OpTyped', AppFollows', BaseExplains', LegacyHolds', Wiped',
         PushHolds', PullHolds'
  PROVE  IInv'
  BY DEF IInv

LEMMA AppStays ==
  ASSUME AppFollows, UNCHANGED <<memory, disk, mine, reloading, unreloaded>>,
         ~op.wrote, ~op'.wrote, op'.kind \notin Pulls, op'.step # "settle"
  PROVE  AppFollows'
<1>1. \A p \in Path : \A k \in keys(p) : differ(p, k)' <=> differ(p, k)
  BY DEF differ
<1> QED
  BY <1>1 DEF AppFollows

LEMMA BasesStay ==
  ASSUME BaseExplains, UNCHANGED <<store, disk, mine, told>>,
         \A d \in DB : Fresh(d)' => Fresh(d),
         \A d \in DB, p \in Path : settling(d, p) => settling(d, p)'
  PROVE  BaseExplains'
  BY DEF BaseExplains, base

LEMMA LegacyStays ==
  ASSUME LegacyHolds, UNCHANGED <<server, store, disk, memory, mine, told>>
  PROVE  LegacyHolds'
  BY DEF LegacyHolds, LegacyStore, LegacyServer, EmptyStore, base

LEMMA TypesStay ==
  ASSUME TypeOK, UNCHANGED <<server, store, disk, memory, told>>,
         \A p \in Path : declared'[p] \subseteq IF p \in Keyed THEN Key ELSE {},
         off' \subseteq Path, stopped' \subseteq Stoppable, settingUp' \subseteq DB,
         reloading' \in BOOLEAN, unreloaded' \in BOOLEAN, bound' \in DB
  PROVE  TypeOK'
  BY DEF TypeOK

LEMMA ShapesStay ==
  ASSUME Shapes, UNCHANGED <<server, store, disk, memory, told, mine>>,
         DOMAIN declared' = Path, acts' \in Nat, failures' \in Nat
  PROVE  Shapes'
  BY DEF Shapes, ServerShape, StoreShape, FileShape, HistoryShape

LEMMA Counted ==
  ASSUME HistoryShape
  PROVE  /\ Act => acts' \in Nat /\ failures' \in Nat
         /\ Failure => acts' \in Nat /\ failures' \in Nat
         /\ UNCHANGED counters => acts' \in Nat /\ failures' \in Nat
  BY DEF HistoryShape, Act, Failure, counters

\* An operation ends, or another one than a Push or a Pull begins or goes on.
LEMMA Quiet ==
  ASSUME IInv, UNCHANGED <<server, store, disk, memory, reloading, unreloaded, mine, told>>,
         TypeOK', DOMAIN declared' = Path, acts' \in Nat, failures' \in Nat,
         ~op.wrote, op.step # "settle",
         OpTyped', op'.kind \in {"none"} \cup Builds, ~op'.wrote, Wiped'
  PROVE  IInv'
<1>1. op'.step \notin {"mark", "settle"} /\ op'.kind \notin Pulls /\ op'.kind # "push"
  BY DEF OpTyped, Builds, Pulls, NoOp
<1>2. Shapes'
  BY ShapesStay DEF IInv
<1>3. AppFollows' /\ LegacyHolds'
  BY <1>1, AppStays, LegacyStays, Parts
<1>4. BaseExplains'
  BY <1>1, BasesStay, Parts DEF Fresh, settling
<1>5. PushHolds' /\ PullHolds'
  BY <1>1 DEF PushHolds, PullHolds
<1> QED
  BY <1>2, <1>3, <1>4, <1>5, Together

-----------------------------------------------------------------------------
(* Ends of operations, and what begins, builds and changes settings.       *)

LEMMA DeclinedKeeps ==
  ASSUME IInv, PullDeclined
  PROVE  IInv'
<1>1. /\ op' = NoOp /\ UNCHANGED <<server, store, settings, app, history>>
      /\ op.step \notin {"write", "settle", "drop", "release"}
      /\ acts' \in Nat /\ failures' \in Nat
  BY Parts, Counted DEF PullDeclined
<1>2. ~op.wrote
  BY <1>1, Parts DEF AppFollows
<1>3. TypeOK' /\ DOMAIN declared' = Path
  BY <1>1, Parts, TypesStay DEF settings, app, history, TypeOK, FileShape
<1> QED
  BY <1>1, <1>2, <1>3, Idle, Quiet DEF settings, app, history

LEMMA RebindKeeps ==
  ASSUME IInv, (\E d \in DB : Rebind(d)) \/ (\E p \in Path : ChangePolicy(p))
  PROVE  IInv'
<1>1. /\ op = NoOp /\ op' = NoOp /\ bound' \in DB /\ off' \subseteq Path
      /\ UNCHANGED <<server, store, settingUp, declared, app, history>>
      /\ acts' \in Nat /\ failures' \in Nat
  BY Parts, Counted DEF Rebind, ChangePolicy, switchBinding, unlocked, TypeOK
<1>2. ~op.wrote /\ op.step # "settle"
  BY <1>1 DEF NoOp
<1>3. TypeOK' /\ DOMAIN declared' = Path
  BY <1>1, Parts, TypesStay DEF app, history, TypeOK, FileShape
<1> QED
  BY <1>1, <1>2, <1>3, Idle, Quiet DEF app, history

LEMMA Begun ==
  ASSUME NEW kind, NEW step
  PROVE  LET o == Begin(kind, step)
         IN /\ DOMAIN o = Fields /\ o.kind = kind /\ o.step = step
            /\ o.todo = {} /\ o.deletes = {} /\ DOMAIN o.plan = {} /\ o.root = 0 /\ ~o.wrote
  BY DEF Begin, NoOp, Fields

LEMMA BuildsTyped ==
  ASSUME DOMAIN op' = Fields, op'.kind \in Builds,
         op'.step \in {"wipe", "recreate", "meta", "save", "commit"},
         op'.todo = {}, op'.deletes = {}, DOMAIN op'.plan = {}, ~op'.wrote,
         op'.root \in Nat, op'.root <= server'[bound'].made
  PROVE  OpTyped'
<1>1. op'.kind \notin {"none", "push", "share"} \cup Pulls /\ op'.step \notin {"settle", "drop"}
  BY DEF Builds, Pulls
<1>2. op'.todo \subseteq Path /\ op'.deletes \subseteq Path /\ DOMAIN op'.plan \subseteq Path
  OBVIOUS
<1> QED
  BY <1>1, <1>2 DEF OpTyped

LEMMA BuildStartKeeps ==
  ASSUME IInv, CreateStart \/ JoinStart
  PROVE  IInv'
<1>1. /\ op = NoOp
      /\ UNCHANGED <<server, store, bound, declared, off, app, history>>
      /\ settingUp' \subseteq DB /\ acts' \in Nat /\ failures' \in Nat
  BY Parts, Counted DEF CreateStart, JoinStart, settings, TypeOK, guarded, unlocked
<1>2. /\ DOMAIN op' = Fields /\ op'.kind \in Builds /\ op'.step = "wipe"
      /\ op'.todo = {} /\ op'.deletes = {} /\ DOMAIN op'.plan = {} /\ ~op'.wrote
      /\ op'.root \in {0, server[bound].root}
  <2>1. CASE CreateStart
    BY <2>1, Begun DEF CreateStart, Builds
  <2>2. CASE JoinStart
    BY <2>2, Begun DEF JoinStart, Builds, Fields
  <2> QED
    BY <2>1, <2>2
<1>3. OpTyped'
  <2>1. server[bound].root \in Nat /\ server[bound].root <= server[bound].made /\ server[bound].made \in Nat
    BY Parts DEF ServerShape, TypeOK
  <2> QED
    BY <1>1, <1>2, <2>1, BuildsTyped
<1>4. ~op.wrote /\ op.step # "settle" /\ Wiped'
  BY <1>1, <1>2 DEF NoOp, Wiped
<1>5. TypeOK' /\ DOMAIN declared' = Path
  BY <1>1, Parts, TypesStay DEF app, history, TypeOK, FileShape
<1> QED
  BY <1>1, <1>2, <1>3, <1>4, <1>5, Quiet DEF app, history

LEMMA SaveEntryKeeps ==
  ASSUME IInv, SaveEntry
  PROVE  IInv'
<1>1. /\ op' = [op EXCEPT !.step = "commit"] /\ op.kind \in Builds /\ op.step = "save"
      /\ UNCHANGED <<server, store, bound, declared, off, app, history>>
      /\ settingUp' \subseteq DB /\ acts' \in Nat /\ failures' \in Nat
  BY Parts, Counted DEF SaveEntry, TypeOK, Builds
<1>2. ~op.wrote /\ op.kind \notin Pulls /\ op.kind # "push"
  BY <1>1, Parts DEF AppFollows, Builds, Pulls
<1>3. OpTyped' /\ op'.kind = op.kind /\ ~op'.wrote
  BY <1>1, <1>2, Parts DEF OpTyped, Builds, Pulls, Fields
<1>5. Wiped'
  BY <1>1, Parts DEF Wiped, EmptyStore, base
<1>4. TypeOK' /\ DOMAIN declared' = Path
  BY <1>1, Parts, TypesStay DEF app, history, TypeOK, FileShape
<1> QED
  BY <1>1, <1>2, <1>3, <1>4, <1>5, Quiet DEF app, history

-----------------------------------------------------------------------------
(* The server.                                                             *)

LEMMA LegacyServerMoves ==
  ASSUME LegacyHolds, UNCHANGED <<store, disk, memory, mine, told>>,
         \A d \in DB : server'[d].root = 1 /\ ~store[d].migrated =>
                          server[d].root = 1 /\ (LegacyServer(d) => LegacyServer(d)')
  PROVE  LegacyHolds'
<1> SUFFICES ASSUME NEW d \in DB, ~store[d].migrated
             PROVE  EmptyStore(d)' \/ LegacyStore(d)'
  BY DEF LegacyHolds
<1>1. CASE EmptyStore(d)
  BY <1>1 DEF EmptyStore, base
<1>2. CASE LegacyStore(d)
  BY <1>2 DEF LegacyStore, base
<1> QED
  BY <1>1, <1>2 DEF LegacyHolds

LEMMA ServerTypes ==
  ASSUME IInv, UNCHANGED <<store, settings, app, history>>, acts' \in Nat, failures' \in Nat,
         ServerShape',
         \A d \in DB : /\ server'[d].root \in 0..server'[d].made /\ server'[d].made <= MaxRoots
                       /\ server[d].made <= server'[d].made
                       /\ \A p \in Path : server'[d].docs[p] \in Uploaded(p) \cup {None}
  PROVE  TypeOK' /\ Shapes'
<1>1. \A d \in DB : store[d].att \in 0..server'[d].made
  BY Parts DEF ServerShape, TypeOK
<1>2. TypeOK'
  BY <1>1, Parts DEF TypeOK, settings, app, history
<1>3. StoreShape' /\ FileShape' /\ HistoryShape'
  BY Parts DEF StoreShape, FileShape, HistoryShape, settings, app, history
<1> QED
  BY <1>2, <1>3 DEF Shapes

LEMMA OpGoesOn ==
  ASSUME IInv, UNCHANGED <<op, bound>>, server'[bound].made \in Nat,
         server[bound].made <= server'[bound].made
  PROVE  OpTyped'
<1>1. server[bound].made \in Nat
  BY Parts DEF ServerShape
<1>2. op.kind \in Builds => op.root <= server'[bound].made
  BY <1>1, Parts DEF OpTyped
<1> QED
  BY <1>2, Parts DEF OpTyped

\* Another device's step: every part but what a Push knows of the server.
LEMMA PeerKeeps ==
  ASSUME IInv, UNCHANGED <<store, settings, app, op, history>>, acts' \in Nat, failures' \in Nat,
         ServerShape',
         \A d \in DB : /\ server'[d].root \in 0..server'[d].made /\ server'[d].made <= MaxRoots
                       /\ server[d].made <= server'[d].made
                       /\ \A p \in Path : server'[d].docs[p] \in Uploaded(p) \cup {None},
         \A d \in DB : server'[d].root = 1 =>
                          server[d].root = 1 /\ (LegacyServer(d) => LegacyServer(d)'),
         \A p \in DOMAIN op.plan : RevKnown(p) /\ op.plan[p] \in PushEntry(p) => RevKnown(p)'
  PROVE  IInv'
<1>1. TypeOK' /\ Shapes' /\ OpTyped'
  BY ServerTypes, OpGoesOn, Parts DEF settings, ServerShape
<1>2. AppFollows'
  <2>1. \A p \in Path : \A k \in keys(p) : differ(p, k)' <=> differ(p, k)
    BY DEF differ, app
  <2>2. writes(op.plan)' = writes(op.plan) /\ unwritten' = unwritten
    BY DEF writes, unwritten
  <2> QED
    BY <2>1, <2>2, Parts DEF AppFollows, app, history
<1>3. BaseExplains' /\ LegacyHolds'
  BY Parts, BasesStay, LegacyServerMoves DEF app, history, settings, Fresh, settling
<1>4. PushHolds'
  <2>1. \A p \in DOMAIN op.plan : PushPlanned(p) => PushPlanned(p)'
    BY Parts DEF PushPlanned, SendsChanges, base, app, settings
  <2>2. \A p \in DOMAIN op.plan : PushSent(p) => PushSent(p)'
    BY DEF PushSent, base, app, settings
  <2> QED
    BY <2>1, <2>2, Parts DEF PushHolds, app, settings
<1>5. PullHolds'
  <2>1. \A p \in DOMAIN op.plan : PullPlanned(p) => PullPlanned(p)'
    BY DEF PullPlanned, KeepsReported, TakesOnly, writes, settling, base, app, settings
  <2> QED
    BY <2>1, Parts DEF PullHolds, drawn, Fresh, writes, base, app, settings
<1>6. Wiped'
  BY Parts DEF Wiped, EmptyStore, base, settings
<1> QED
  BY <1>1, <1>2, <1>3, <1>4, <1>5, <1>6, Together

LEMMA PeerCreateKeeps ==
  ASSUME IInv, NEW d \in DB, PeerCreate(d)
  PROVE  IInv'
<1> DEFINE remote == NewRemote(server[d].made + 1)
<1>1. /\ server[d].made < MaxRoots /\ server' = [server EXCEPT ![d] = remote]
      /\ UNCHANGED <<store, settings, app, op, history>> /\ acts' \in Nat /\ failures' \in Nat
  BY Parts, Counted DEF PeerCreate
<1>2. /\ remote.root = server[d].made + 1 /\ remote.made = server[d].made + 1 /\ remote.seq = 1
      /\ DOMAIN remote = ServerFields /\ DOMAIN remote.docs = Path
      /\ \A p \in Path : remote.docs[p] = None
  BY DEF NewRemote, ServerFields
<1>3. server'[d] = remote /\ \A e \in DB \ {d} : server'[e] = server[e]
  BY <1>1, Parts DEF ServerShape
<1> HIDE DEF remote
<1>4. server[d].made \in Nat /\ server[d].made > 0 /\ MaxRoots \in Nat
  BY Parts, ConfigAssumption DEF ServerShape
<1>5. ServerShape'
  BY <1>1, <1>2, <1>3, <1>4, Parts DEF ServerShape
<1>6. \A e \in DB : /\ server'[e].root \in 0..server'[e].made /\ server'[e].made <= MaxRoots
                    /\ server[e].made <= server'[e].made
                    /\ \A p \in Path : server'[e].docs[p] \in Uploaded(p) \cup {None}
  BY <1>1, <1>2, <1>3, <1>4, Parts DEF TypeOK, ServerShape
<1>7. \A e \in DB : server'[e].root = 1 =>
                       server[e].root = 1 /\ (LegacyServer(e) => LegacyServer(e)')
  BY <1>2, <1>3, <1>4 DEF LegacyServer
<1>8. \A p \in DOMAIN op.plan : RevKnown(p) /\ op.plan[p] \in PushEntry(p) => RevKnown(p)'
  <2> SUFFICES ASSUME NEW p \in DOMAIN op.plan, RevKnown(p), op.plan[p] \in PushEntry(p),
                      op.plan[p].rev # None
               PROVE  RevKnown(p)'
    BY <1>1 DEF RevKnown
  <2>1. op.plan[p].rev \in Nat \X Nat /\ p \in Path
    BY Parts DEF PushEntry, OpTyped
  <2>2. CASE bound = d
    BY <1>1, <1>2, <1>3, <1>4, <2>1, <2>2 DEF RevKnown, revOf, settings
  <2>3. CASE bound # d
    BY <1>1, <1>3, <2>3, Parts DEF RevKnown, revOf, settings
  <2> QED
    BY <2>2, <2>3
<1> QED
  BY <1>1, <1>5, <1>6, <1>7, <1>8, PeerKeeps

LEMMA PeerPushKeeps ==
  ASSUME IInv, NEW d \in DB, NEW p \in Path, NEW k \in keys(p), NEW v \in Value,
         PeerPush(d, p, k, v)
  PROVE  IInv'
<1> DEFINE doc == server[d].docs[p]
           was == IF doc = None THEN [vclock |-> clock(0, 0), content |-> [j \in keys(p) |-> Missing]]
                  ELSE doc
           new == [vclock |-> VC!incrementVC(was.vclock, "peer"),
                   content |-> [was.content EXCEPT ![k] = v],
                   seq |-> server[d].seq + 1]
<1>1. /\ server[d].root # 0 /\ UNCHANGED <<store, settings, app, op, history>>
      /\ acts' \in Nat /\ failures' \in Nat
      /\ server' = [server EXCEPT ![d].seq = @ + 1, ![d].docs[p] = new]
  BY Parts, Counted DEF PeerPush
<1>2. /\ server[d].made \in Nat /\ server[d].seq \in Nat /\ doc \in Uploaded(p) \cup {None}
      /\ DOMAIN server = DB /\ DOMAIN server[d] = ServerFields
      /\ DOMAIN server[d].docs = Path
  BY Parts DEF ServerShape, TypeOK
<1>3. was.vclock \in [{"me", "peer"} -> Nat] /\ DOMAIN was.content = keys(p)
  BY <1>2, Clocks, Versions, Contents
<1>4. /\ new.vclock = VC!incrementVC(was.vclock, "peer") /\ new.seq = server[d].seq + 1
      /\ new.vclock \in [{"me", "peer"} -> Nat] /\ new.vclock["me"] = was.vclock["me"]
      /\ new.vclock["peer"] = was.vclock["peer"] + 1
  BY <1>3, Clocks
<1>5. new.content \in Content(p)
  <2>1. CASE doc = None
    <3>1. p \notin Keyed => keys(p) = {k}
      BY Contents
    <3> QED
      BY <2>1, <3>1 DEF Content
  <2>2. CASE doc # None
    <3>1. doc.content \in Content(p)
      BY <1>2, <2>2, Versions
    <3> QED
      BY <2>2, <3>1 DEF Content
  <2> QED
    BY <2>1, <2>2
<1>6. new \in Uploaded(p)
  BY <1>2, <1>4, <1>5 DEF Uploaded
<1> HIDE DEF new
<1>7. /\ DOMAIN server' = DB /\ \A e \in DB \ {d} : server'[e] = server[e]
      /\ DOMAIN server'[d] = DOMAIN server[d] /\ DOMAIN server'[d].docs = Path
      /\ server'[d].root = server[d].root /\ server'[d].made = server[d].made
      /\ server'[d].seq = server[d].seq + 1 /\ server'[d].docs[p] = new
      /\ \A q \in Path \ {p} : server'[d].docs[q] = server[d].docs[q]
  BY <1>1, <1>2 DEF ServerFields
<1>8. ServerShape'
  <2>1. \A q \in Path : server'[d].docs[q] # None => server'[d].docs[q].seq <= server'[d].seq
    <3>1. \A q \in Path \ {p} : server[d].docs[q] # None =>
             server[d].docs[q].seq \in Nat /\ server[d].docs[q].seq <= server[d].seq
      BY Parts, Versions DEF ServerShape, TypeOK
    <3> QED
      BY <1>2, <1>4, <1>7, <3>1
  <2>2. (\A e \in DB \ {d} : server'[e] = server[e]) /\ DOMAIN server' = DB
    BY <1>7
  <2>3. /\ DOMAIN server'[d] = ServerFields /\ DOMAIN server'[d].docs = Path
        /\ server'[d].made \in Nat \ {0} /\ server'[d].seq \in Nat /\ server'[d].root \in Nat
    BY <1>2, <1>7, Parts DEF ServerShape
  <2> SUFFICES ASSUME NEW e \in DB
               PROVE  /\ DOMAIN server'[e] = ServerFields
                      /\ DOMAIN server'[e].docs = Path
                      /\ server'[e].made \in Nat \ {0} /\ server'[e].seq \in Nat
                      /\ server'[e].root \in Nat
                      /\ \A q \in Path : server'[e].docs[q] # None
                                         => server'[e].docs[q].seq <= server'[e].seq
    BY <2>2 DEF ServerShape
  <2>4. CASE e = d
    BY <2>1, <2>3, <2>4
  <2>5. CASE e # d
    BY <2>2, <2>5, Parts DEF ServerShape
  <2> QED
    BY <2>4, <2>5
<1>9. \A e \in DB : /\ server'[e].root \in 0..server'[e].made /\ server'[e].made <= MaxRoots
                    /\ server[e].made <= server'[e].made
                    /\ \A q \in Path : server'[e].docs[q] \in Uploaded(q) \cup {None}
  BY <1>2, <1>6, <1>7, Parts DEF TypeOK, ServerShape
<1>10. \A e \in DB : server'[e].root = 1 =>
                        server[e].root = 1 /\ (LegacyServer(e) => LegacyServer(e)')
  <2> SUFFICES ASSUME server[d].root = 1, LegacyServer(d) PROVE LegacyServer(d)'
    BY <1>7 DEF LegacyServer
  <2>1. new # None /\ new.vclock["me"] = was.vclock["me"] /\ was.vclock["peer"] \in Nat
    BY <1>3, <1>4, <1>6, Versions
  <2>2. CASE doc = None
    <3>1. Legacy[p] = "gone" /\ new.vclock["me"] = 0 /\ new.vclock["peer"] >= 1
      <4>1. was.vclock = clock(0, 0)
        BY <2>2
      <4> HIDE DEF was
      <4>2. was.vclock["me"] = 0 /\ was.vclock["peer"] = 0
        BY ONLY <4>1, Clocks
      <4>3. Legacy[p] = "gone"
        BY <2>2 DEF LegacyServer
      <4> QED
        BY <1>4, <4>2, <4>3
    <3> QED
      BY <1>7, <3>1 DEF LegacyServer
  <2>3. CASE doc # None
    BY <1>4, <1>7, <2>1, <2>3 DEF LegacyServer
  <2> QED
    BY <2>2, <2>3
<1>11. \A q \in DOMAIN op.plan : RevKnown(q) /\ op.plan[q] \in PushEntry(q) => RevKnown(q)'
  <2> SUFFICES ASSUME NEW q \in DOMAIN op.plan, RevKnown(q), op.plan[q] \in PushEntry(q),
                      op.plan[q].rev # None
               PROVE  RevKnown(q)'
    BY <1>1 DEF RevKnown
  <2>1. op.plan[q].rev \in Nat \X Nat /\ q \in Path
    BY Parts DEF PushEntry, OpTyped
  <2>2. CASE bound = d
    <3>1. CASE q = p
      BY <1>1, <1>2, <1>4, <1>7, <2>1, <2>2, <3>1 DEF RevKnown, revOf, settings
    <3>2. CASE q # p
      BY <1>1, <1>2, <1>7, <2>1, <2>2, <3>2 DEF RevKnown, revOf, settings
    <3> QED
      BY <3>1, <3>2
  <2>3. CASE bound # d
    BY <1>1, <1>7, <2>3, Parts DEF RevKnown, revOf, settings
  <2> QED
    BY <2>2, <2>3
<1> QED
  BY <1>1, <1>8, <1>9, <1>10, <1>11, PeerKeeps
-----------------------------------------------------------------------------
(* The steps of Create and Join.                                           *)

LEMMA BuildStep ==
  ASSUME IInv, op.kind \in Builds, NEW step \in {"wipe", "recreate", "meta", "save", "commit"},
         NEW root \in Nat, op' = [op EXCEPT !.step = step, !.root = root],
         bound' = bound, root <= server'[bound].made
  PROVE  OpTyped' /\ op'.kind = op.kind /\ op'.step = step /\ ~op.wrote /\ ~op'.wrote
<1>1. ~op.wrote /\ op.kind \notin Pulls \cup {"none", "push"}
  BY Parts DEF AppFollows, Builds, Pulls
<1>2. DOMAIN op = Fields
  BY Parts DEF OpTyped
<1>3. /\ DOMAIN op' = Fields /\ op'.kind = op.kind /\ op'.step = step /\ op'.root = root
      /\ op'.todo = op.todo /\ op'.deletes = op.deletes /\ op'.plan = op.plan
      /\ op'.now = op.now /\ op'.at = op.at /\ op'.wrote = op.wrote
  BY <1>2 DEF Fields
<1> QED
  BY <1>1, <1>3, Parts DEF OpTyped, Builds, Pulls

\* A step of Create that changes the server.
LEMMA ServerBuildKeeps ==
  ASSUME IInv, UNCHANGED <<store, settings, app, history>>, acts' \in Nat, failures' \in Nat,
         op.kind \in Builds, op.step \notin {"wipe", "settle"},
         OpTyped', op'.kind = op.kind, ~op.wrote, ~op'.wrote,
         ServerShape',
         \A d \in DB : /\ server'[d].root \in 0..server'[d].made /\ server'[d].made <= MaxRoots
                       /\ server[d].made <= server'[d].made
                       /\ \A p \in Path : server'[d].docs[p] \in Uploaded(p) \cup {None},
         \A d \in DB : server'[d].root = 1 =>
                          server[d].root = 1 /\ (LegacyServer(d) => LegacyServer(d)')
  PROVE  IInv'
<1>1. TypeOK' /\ Shapes'
  BY ServerTypes
<1>2. op'.step \notin {"mark", "settle"} /\ op'.kind \notin Pulls /\ op'.kind # "push"
  BY DEF OpTyped, Builds, Pulls
<1>3. AppFollows'
  BY <1>2, AppStays, Parts DEF app, history
<1>4. LegacyHolds'
  BY LegacyServerMoves, Parts DEF app, history
<1>5. BaseExplains'
  BY <1>2, BasesStay, Parts DEF Fresh, settling, app, history
<1>6. Wiped' /\ PushHolds' /\ PullHolds'
  BY <1>2, Parts DEF Wiped, EmptyStore, base, settings, PushHolds, PullHolds
<1> QED
  BY <1>1, <1>3, <1>4, <1>5, <1>6, Together

LEMMA CreateRecreateKeeps ==
  ASSUME IInv, CreateRecreate
  PROVE  IInv'
<1> DEFINE remote == [NewRemote(0) EXCEPT !.made = server[bound].made, !.seq = 0]
<1>1. /\ op.kind \in Builds /\ op.step = "recreate" /\ server' = [server EXCEPT ![bound] = remote]
      /\ UNCHANGED <<store, settings, app, history>> /\ acts' \in Nat /\ failures' \in Nat
      /\ op' = [op EXCEPT !.step = "meta"]
  BY Parts, Counted DEF CreateRecreate, building, Builds
<1>2. /\ remote.root = 0 /\ remote.made = server[bound].made /\ remote.seq = 0
      /\ DOMAIN remote = ServerFields /\ DOMAIN remote.docs = Path
      /\ \A p \in Path : remote.docs[p] = None
  BY DEF NewRemote, ServerFields
<1>3. /\ DOMAIN server' = DB /\ server'[bound] = remote
      /\ \A e \in DB \ {bound} : server'[e] = server[e]
  BY <1>1, Parts DEF ServerShape
<1> HIDE DEF remote
<1>4. server[bound].made \in Nat /\ server[bound].made > 0
  BY Parts DEF ServerShape
<1>5. ServerShape'
  BY <1>2, <1>3, <1>4, Parts DEF ServerShape
<1>6. \A e \in DB : /\ server'[e].root \in 0..server'[e].made /\ server'[e].made <= MaxRoots
                    /\ server[e].made <= server'[e].made
                    /\ \A p \in Path : server'[e].docs[p] \in Uploaded(p) \cup {None}
  BY <1>2, <1>3, <1>4, Parts DEF TypeOK, ServerShape
<1>7. \A e \in DB : server'[e].root = 1 =>
                       server[e].root = 1 /\ (LegacyServer(e) => LegacyServer(e)')
  BY <1>2, <1>3 DEF LegacyServer
<1>8. OpTyped' /\ op'.kind = op.kind /\ ~op.wrote /\ ~op'.wrote
  <2>1. op.root \in Nat /\ op.root <= server[bound].made /\ DOMAIN op = Fields
    BY <1>1, Parts DEF OpTyped
  <2>2. op' = [op EXCEPT !.step = "meta", !.root = op.root]
    BY <1>1, <2>1 DEF Fields
  <2> QED
    BY <1>1, <1>2, <1>3, <2>1, <2>2, BuildStep DEF settings
<1> QED
  BY <1>1, <1>5, <1>6, <1>7, <1>8, ServerBuildKeeps

LEMMA CreateMetaKeeps ==
  ASSUME IInv, CreateMeta
  PROVE  IInv'
<1>1. /\ op.kind \in Builds /\ op.step = "meta" /\ server[bound].made < MaxRoots
      /\ server' = [server EXCEPT ![bound].root = server[bound].made + 1,
                                  ![bound].made = @ + 1, ![bound].seq = @ + 1]
      /\ UNCHANGED <<store, settings, app, history>> /\ acts' \in Nat /\ failures' \in Nat
      /\ op' = [op EXCEPT !.step = "save", !.root = server[bound].made + 1]
  BY Parts, Counted DEF CreateMeta, building, Builds
<1>2. /\ server[bound].made \in Nat /\ server[bound].made > 0 /\ server[bound].seq \in Nat
      /\ DOMAIN server = DB /\ DOMAIN server[bound] = ServerFields /\ MaxRoots \in Nat
  BY Parts, ConfigAssumption DEF ServerShape
<1>3. /\ DOMAIN server' = DB /\ DOMAIN server'[bound] = ServerFields
      /\ server'[bound].root = server[bound].made + 1
      /\ server'[bound].made = server[bound].made + 1
      /\ server'[bound].seq = server[bound].seq + 1
      /\ server'[bound].docs = server[bound].docs
      /\ \A e \in DB \ {bound} : server'[e] = server[e]
  BY <1>1, <1>2, Parts DEF ServerFields
<1>5. ServerShape'
  <2>1. \A p \in Path : server'[bound].docs[p] # None => server'[bound].docs[p].seq <= server'[bound].seq
    <3>1. \A p \in Path : server[bound].docs[p] # None =>
            server[bound].docs[p].seq \in Nat /\ server[bound].docs[p].seq <= server[bound].seq
      BY Parts, Versions DEF ServerShape, TypeOK
    <3> QED
      BY <1>2, <1>3, <3>1
  <2>2. DOMAIN server'[bound].docs = Path
    BY <1>3, Parts DEF ServerShape
  <2> SUFFICES ASSUME NEW e \in DB
               PROVE  /\ DOMAIN server'[e] = ServerFields
                      /\ DOMAIN server'[e].docs = Path
                      /\ server'[e].made \in Nat \ {0} /\ server'[e].seq \in Nat
                      /\ server'[e].root \in Nat
                      /\ \A q \in Path : server'[e].docs[q] # None
                                         => server'[e].docs[q].seq <= server'[e].seq
    BY <1>3 DEF ServerShape
  <2>3. CASE e = bound
    BY <1>2, <1>3, <2>1, <2>2, <2>3
  <2>4. CASE e # bound
    BY <1>3, <2>4, Parts DEF ServerShape
  <2> QED
    BY <2>3, <2>4
<1>6. \A e \in DB : /\ server'[e].root \in 0..server'[e].made /\ server'[e].made <= MaxRoots
                    /\ server[e].made <= server'[e].made
                    /\ \A p \in Path : server'[e].docs[p] \in Uploaded(p) \cup {None}
  BY <1>1, <1>2, <1>3, Parts DEF TypeOK, ServerShape
<1>7. \A e \in DB : server'[e].root = 1 =>
                       server[e].root = 1 /\ (LegacyServer(e) => LegacyServer(e)')
  BY <1>2, <1>3 DEF LegacyServer
<1>8. OpTyped' /\ op'.kind = op.kind /\ ~op.wrote /\ ~op'.wrote
  <2>1. server[bound].made + 1 \in Nat /\ server[bound].made + 1 <= server'[bound].made /\ bound' = bound
    BY <1>1, <1>2, <1>3 DEF settings
  <2> QED
    BY <1>1, <2>1, BuildStep
<1> QED
  BY <1>1, <1>5, <1>6, <1>7, <1>8, ServerBuildKeeps

LEMMA WipeStoreKeeps ==
  ASSUME IInv, WipeStore
  PROVE  IInv'
<1>1. /\ op.kind \in Builds /\ op.step = "wipe" /\ store' = [store EXCEPT ![bound] = NewStore]
      /\ UNCHANGED <<server, settings, app, history, counters>> /\ acts' \in Nat /\ failures' \in Nat
      /\ \E step \in {"save", "recreate"} : op' = [op EXCEPT !.step = step]
  BY Parts, Counted DEF WipeStore, Builds, resetStore
<1>2. /\ NewStore.att = 0 /\ ~NewStore.current /\ ~NewStore.migrated /\ DOMAIN NewStore = StoreFields
      /\ DOMAIN NewStore.docs = Path /\ DOMAIN NewStore.base = Path
      /\ \A p \in Path : NewStore.docs[p] = None /\ NewStore.base[p] = None
  BY DEF NewStore, StoreFields
<1>3. DOMAIN store' = DB /\ store'[bound] = NewStore /\ \A e \in DB \ {bound} : store'[e] = store[e]
  BY <1>1, Parts DEF StoreShape
<1>4. OpTyped' /\ op'.kind = op.kind /\ op'.step \in {"save", "recreate"} /\ ~op.wrote /\ ~op'.wrote
  <2>1. op.root \in Nat /\ op.root <= server[bound].made /\ DOMAIN op = Fields
    BY <1>1, Parts DEF OpTyped
  <2>2. \E step \in {"save", "recreate"} : op' = [op EXCEPT !.step = step, !.root = op.root]
    BY <1>1, <2>1 DEF Fields
  <2> QED
    BY <1>1, <2>1, <2>2, BuildStep DEF settings
<1>5. op'.step \notin {"mark", "settle"} /\ op'.kind \notin Pulls /\ op'.kind # "push" /\ op.step # "settle"
  BY <1>1, <1>4 DEF Builds, Pulls
<1>6. TypeOK'
  <2>1. \A d \in DB : store'[d].att \in 0..server[d].made /\ server[d].made \in Nat
    BY <1>2, <1>3, Parts DEF TypeOK, ServerShape
  <2>2. \A d \in DB, p \in Path : {store'[d].docs[p], store'[d].base[p]} \subseteq Doc(p) \cup {None}
    BY <1>2, <1>3, Parts DEF TypeOK
  <2> QED
    BY <1>1, <2>1, <2>2, Parts DEF TypeOK, settings, app, history
<1>7. Shapes'
  <2>1. StoreShape'
    BY <1>2, <1>3, Parts DEF StoreShape
  <2> QED
    BY <1>1, <2>1, Parts DEF Shapes, ServerShape, FileShape, HistoryShape, settings, app, history
<1>8. AppFollows'
  BY <1>1, <1>4, <1>5, AppStays, Parts DEF app, history
<1>9. BaseExplains'
  <2> SUFFICES ASSUME NEW d \in DB, NEW p \in Path, base(d, p)' # None
               PROVE  /\ Fresh(d)' => disk'[p] # NoFile
                      /\ store'[d].migrated => store'[d].docs[p] # None
                      /\ Fresh(d)' /\ store'[d].migrated =>
                           \A k \in keys(p) :
                             /\ mine'[d][p][k] # None => disk'[p][k] # base(d, p)'.content[k]
                             /\ disk'[p][k] # base(d, p)'.content[k]
                                  => mine'[d][p][k] # None \/ k \in told'[d][p] \/ settling(d, p)'
    BY DEF BaseExplains
  <2>1. d # bound /\ store'[d] = store[d] /\ base(d, p)' = base(d, p)
    BY <1>2, <1>3 DEF base
  <2>2. Fresh(d)' => Fresh(d)
    BY <1>5, <2>1 DEF Fresh
  <2> QED
    BY <1>1, <1>5, <2>1, <2>2, Parts DEF BaseExplains, settling, app, history
<1>10. LegacyHolds' /\ Wiped'
  <2>1. EmptyStore(bound)'
    BY <1>1, <1>2, <1>3 DEF EmptyStore, base, settings
  <2>2. ASSUME NEW d \in DB, d # bound, ~store[d].migrated
        PROVE  EmptyStore(d)' \/ LegacyStore(d)'
    <3>1. CASE EmptyStore(d)
      BY <1>3, <2>2, <3>1 DEF EmptyStore, base
    <3>2. CASE LegacyStore(d)
      BY <1>1, <1>3, <2>2, <3>2 DEF LegacyStore, LegacyServer, base, app, history
    <3> QED
      BY <2>2, <3>1, <3>2, Parts DEF LegacyHolds
  <2>3. bound' = bound
    BY <1>1 DEF settings
  <2> QED
    BY <1>3, <2>1, <2>2, <2>3 DEF LegacyHolds, Wiped, EmptyStore, base
<1>11. PushHolds' /\ PullHolds'
  BY <1>5 DEF PushHolds, PullHolds
<1> QED
  BY <1>6, <1>7, <1>4, <1>8, <1>9, <1>10, <1>11, Together

LEMMA WriteAttachmentKeeps ==
  ASSUME IInv, WriteAttachment
  PROVE  IInv'
<1>1. /\ op.kind \in Builds /\ op.step = "commit" /\ store' = [store EXCEPT ![bound].att = op.root]
      /\ UNCHANGED <<server, settings, app, history, counters>> /\ acts' \in Nat /\ failures' \in Nat
      /\ op' = NoOp /\ op.root \in Nat /\ op.root <= server[bound].made
  BY Parts, Counted DEF WriteAttachment, Builds, OpTyped
<1>2. DOMAIN store = DB /\ bound \in DB /\ \A d \in DB : DOMAIN store[d] = StoreFields
  BY Parts DEF StoreShape
<1>3. /\ DOMAIN store' = DB /\ \A d \in DB \ {bound} : store'[d] = store[d]
      /\ store'[bound].att = op.root
  BY <1>1, <1>2 DEF StoreFields
<1>4. \A d \in DB : /\ DOMAIN store'[d] = StoreFields
                    /\ store'[d].docs = store[d].docs /\ store'[d].base = store[d].base
                    /\ store'[d].current = store[d].current
                    /\ store'[d].migrated = store[d].migrated
  BY <1>1, <1>2 DEF StoreFields
<1>5. op'.step = "idle" /\ op'.kind = "none" /\ ~op'.wrote /\ op.step # "settle" /\ ~op.wrote
      /\ OpTyped' /\ Wiped' /\ PushHolds' /\ PullHolds'
  BY <1>1, Idle, Parts DEF AppFollows, Builds, Pulls
<1>6. TypeOK'
  <2>1. \A d \in DB : store'[d].att \in 0..server[d].made /\ server[d].made \in Nat
    BY <1>1, <1>3, Parts DEF TypeOK, ServerShape
  <2>2. \A d \in DB, p \in Path : {store'[d].docs[p], store'[d].base[p]} \subseteq Doc(p) \cup {None}
    BY <1>4, Parts DEF TypeOK
  <2> QED
    BY <1>1, <2>1, <2>2, Parts DEF TypeOK, settings, app, history
<1>7. Shapes'
  <2>1. StoreShape'
    BY <1>1, <1>3, <1>4, Parts DEF StoreShape
  <2> QED
    BY <1>1, <2>1, Parts DEF Shapes, ServerShape, FileShape, HistoryShape, settings, app, history
<1>8. AppFollows'
  BY <1>1, <1>5, AppStays, Parts DEF app, history, Pulls
<1>9. BaseExplains'
  <2>1. \A d \in DB : Fresh(d)' => Fresh(d)
    BY <1>4, <1>5 DEF Fresh
  <2> QED
    BY <1>1, <1>4, <1>5, <2>1, Parts DEF BaseExplains, base, settling, app, history
<1>10. LegacyHolds'
  <2>1. EmptyStore(bound)
    BY <1>1, Parts DEF Wiped
  <2>2. ASSUME NEW d \in DB, ~store[d].migrated
        PROVE  EmptyStore(d)' \/ LegacyStore(d)'
    <3>1. CASE EmptyStore(d)
      BY <1>4, <3>1 DEF EmptyStore, base
    <3>2. CASE LegacyStore(d) /\ d # bound
      BY <1>1, <1>3, <1>4, <3>2 DEF LegacyStore, LegacyServer, base, app, history
    <3> QED
      BY <2>1, <2>2, <3>1, <3>2, Parts DEF LegacyHolds
  <2> QED
    BY <1>4, <2>2 DEF LegacyHolds
<1> QED
  BY <1>5, <1>6, <1>7, <1>8, <1>9, <1>10, Together
-----------------------------------------------------------------------------
(* The app: it starts again, and saves a change.                           *)

LEMMA PullOf ==
  ASSUME OpTyped
  PROVE  /\ op.step \in {"copy", "plan", "backup", "stop", "mark", "write", "settle", "drop", "release"}
              => op.kind \in Pulls
         /\ op.kind \in Pulls => op.kind \notin Builds /\ op.kind # "push" /\ op # NoOp
         /\ op.step \in {"settle", "drop"} => op.now \in Path
<1>1. NoOp.kind = "none" /\ NoOp.step = "idle"
  BY DEF NoOp
<1> QED
  BY <1>1 DEF OpTyped, Pulls, Builds

\* An operation ends where it stands, and the app starts again or goes on.
LEMMA EndKeeps ==
  ASSUME IInv, op' = NoOp, UNCHANGED <<server, store, settingUp, bound, declared, off, disk, mine>>,
         memory' \in {memory, disk}, stopped' \subseteq Stoppable,
         reloading' \in BOOLEAN, unreloaded' \in BOOLEAN, AppFollows',
         acts' \in Nat, failures' \in Nat,
         \/ op.step # "settle" /\ told' = told
         \/ op.step = "settle" /\ told' = [told EXCEPT ![bound][op.now] = keys(op.now)]
  PROVE  IInv'
<1>2. OpTyped' /\ Wiped' /\ PushHolds' /\ PullHolds' /\ op'.kind = "none" /\ op'.step = "idle" /\ ~op'.wrote
  BY Idle
<1>3. /\ DOMAIN told' = DB
      /\ \A d \in DB : DOMAIN told'[d] = Path
      /\ \A d \in DB, p \in Path :
           IF settling(d, p) THEN told'[d][p] = keys(p) ELSE told'[d][p] = told[d][p]
  BY PullOf, Parts DEF settling, HistoryShape
<1>4. TypeOK'
  <2>1. \A d \in DB, p \in Path : told'[d][p] \subseteq keys(p)
    BY <1>3, Parts DEF TypeOK
  <2> QED
    BY <2>1, Parts DEF TypeOK
<1>5. Shapes'
  BY <1>3, Parts DEF Shapes, ServerShape, StoreShape, FileShape, HistoryShape
<1>7. BaseExplains'
  <2>1. \A d \in DB : Fresh(d)' => Fresh(d)
    BY <1>2 DEF Fresh
  <2> QED
    BY <1>3, <2>1, Parts DEF BaseExplains, base
<1>8. LegacyHolds'
  <2> SUFFICES ASSUME NEW d \in DB, ~store[d].migrated
               PROVE  EmptyStore(d)' \/ LegacyStore(d)'
    BY DEF LegacyHolds
  <2>1. CASE EmptyStore(d)
    BY <2>1 DEF EmptyStore, base
  <2>2. CASE LegacyStore(d)
    <3>1. \A p \in Path : ~settling(d, p)
      BY PullOf, Parts DEF settling, PullHolds
    <3> QED
      BY <1>3, <2>2, <3>1 DEF LegacyStore, LegacyServer, base
  <2> QED
    BY <2>1, <2>2, Parts DEF LegacyHolds
<1> QED
  BY <1>2, <1>4, <1>5, <1>7, <1>8, Together

LEMMA RestartKeeps ==
  ASSUME IInv, Restarted, acts' \in Nat, failures' \in Nat,
         \/ op.step # "settle" /\ told' = told
         \/ op.step = "settle" /\ told' = [told EXCEPT ![bound][op.now] = keys(op.now)]
  PROVE  IInv'
<1>1. /\ memory' = disk /\ disk' = disk /\ stopped' = {} /\ op' = NoOp
      /\ reloading' = FALSE /\ unreloaded' = FALSE
      /\ UNCHANGED <<server, store, settingUp, bound, declared, off, mine>>
  BY DEF Restarted, settings
<1>2. op'.kind = "none" /\ op'.step = "idle" /\ ~op'.wrote
  BY <1>1, Idle
<1>3. AppFollows'
  BY <1>1, <1>2 DEF AppFollows, differ, Pulls
<1> QED
  BY <1>1, <1>3, EndKeeps

LEMMA ReloadKeeps ==
  ASSUME IInv, Reload
  PROVE  IInv'
<1>1. op.step # "settle"
  BY PullOf, Parts DEF Reload, AppFollows
<1> QED
  BY <1>1, RestartKeeps, Parts, Counted DEF Reload

LEMMA CrashKeeps ==
  ASSUME IInv, Crash
  PROVE  IInv'
  BY RestartKeeps, Parts, Counted DEF Crash, LeaveUnrecorded

\* What a failed Pull has written stays unread by the app, and that is kept in mind.
LEMMA OpFailsKeeps ==
  ASSUME IInv, OpFails
  PROVE  IInv'
<1>1. /\ op' = NoOp /\ unreloaded' = (unreloaded \/ op.wrote)
      /\ UNCHANGED <<server, store, settingUp, bound, declared, off, disk, memory, stopped,
                     reloading, mine>>
      /\ acts' \in Nat /\ failures' \in Nat
      /\ \/ op.step # "settle" /\ told' = told
         \/ op.step = "settle" /\ told' = [told EXCEPT ![bound][op.now] = keys(op.now)]
  BY Parts, Counted DEF OpFails, LeaveUnrecorded, settings
<1>2. op'.kind = "none" /\ op'.step = "idle" /\ ~op'.wrote
  BY <1>1, Idle
<1>3. AppFollows'
  <2>1. \A p \in Path : \A k \in keys(p) : differ(p, k)' <=> differ(p, k)
    BY <1>1 DEF differ
  <2> QED
    BY <1>1, <1>2, <2>1, Parts DEF AppFollows, Pulls
<1>4. stopped' \subseteq Stoppable /\ reloading' \in BOOLEAN /\ unreloaded' \in BOOLEAN
  BY <1>1, Parts DEF TypeOK
<1> QED
  BY <1>1, <1>3, <1>4, EndKeeps

LEMMA AppEditKeeps ==
  ASSUME IInv, NEW p \in Path, NEW k \in keys(p), NEW v \in Values(p), AppEdit(p, k, v)
  PROVE  IInv'
<1> DEFINE held == IF memory[p] = NoFile THEN [j \in keys(p) |-> Missing] ELSE memory[p]
           was  == IF disk[p] = NoFile THEN [j \in keys(p) |-> Missing] ELSE disk[p]
           new  == [held EXCEPT ![k] = v]
           back == diffJson(was, new) \ {k}
<1>1. /\ memory' = [memory EXCEPT ![p] = new] /\ disk' = [disk EXCEPT ![p] = new]
      /\ mine' = [d \in DB |-> [mine[d] EXCEPT ![p][k] =
                    IF v = was[k] THEN @ ELSE IF asBase(d, p, k, v) THEN None
                    ELSE IF @ = None THEN was[k] ELSE @]]
      /\ told' = IF op = NoOp /\ ~reloading /\ ~unreloaded THEN told
                 ELSE [d \in DB |-> [told[d] EXCEPT ![p] = @ \cup back]]
      /\ UNCHANGED <<server, store, settingUp, bound, declared, off, stopped, reloading, unreloaded,
                     op>>
      /\ acts' \in Nat /\ failures' \in Nat
  BY Parts, Counted DEF AppEdit, settings
<1>2. /\ {disk[p], memory[p]} \subseteq Content(p) \cup {NoFile}
      /\ DOMAIN disk = Path /\ DOMAIN memory = Path /\ DOMAIN mine = DB /\ DOMAIN told = DB
      /\ \A d \in DB : DOMAIN mine[d] = Path /\ DOMAIN told[d] = Path /\ DOMAIN mine[d][p] = keys(p)
  BY Parts DEF TypeOK, FileShape, HistoryShape
<1>3. /\ DOMAIN held = keys(p) /\ DOMAIN was = keys(p) /\ DOMAIN new = keys(p)
      /\ new[k] = v /\ \A j \in keys(p) \ {k} : new[j] = held[j]
      /\ \A j \in keys(p) : was[j] # None
      /\ v # None
  BY <1>2, Contents, NoneIsNothing DEF Values
<1>4. new \in Content(p) /\ new # NoFile
  <2>1. CASE p \in Keyed
    BY <1>2, <2>1, Contents DEF Content, Values
  <2>2. CASE p \notin Keyed
    <3>1. keys(p) = {k}
      BY <2>2, Contents
    <3>2. new = [j \in keys(p) |-> v]
      BY <1>3, <3>1
    <3>3. v \in Value
      BY <2>2 DEF Values
    <3>4. [j \in keys(p) |-> v] \in Content(p)
      BY <2>2, <3>3 DEF Content
    <3> QED
      BY <3>2, <3>4, Contents
  <2> QED
    BY <2>1, <2>2
<1>5. back = {j \in keys(p) \ {k} : was[j] # held[j]}
  BY <1>3 DEF diffJson
<1> HIDE DEF new, back
<1>6. /\ DOMAIN memory' = Path /\ DOMAIN disk' = Path
      /\ memory'[p] = new /\ disk'[p] = new
      /\ \A q \in Path \ {p} : memory'[q] = memory[q] /\ disk'[q] = disk[q]
      /\ memory = disk => memory' = disk'
  BY <1>1, <1>2
<1>7. /\ DOMAIN told' = DB
      /\ \A d \in DB : /\ DOMAIN told'[d] = Path
                       /\ \A q \in Path \ {p} : told'[d][q] = told[d][q]
                       /\ told'[d][p] = IF op = NoOp /\ ~reloading /\ ~unreloaded THEN told[d][p]
                                        ELSE told[d][p] \cup back
  BY <1>1, <1>2
<1>8. /\ DOMAIN mine' = DB
      /\ \A d \in DB :
           /\ DOMAIN mine'[d] = Path
           /\ \A q \in Path \ {p} : mine'[d][q] = mine[d][q]
           /\ DOMAIN mine'[d][p] = keys(p)
           /\ \A j \in keys(p) \ {k} : mine'[d][p][j] = mine[d][p][j]
           /\ mine'[d][p][k] = IF v = was[k] THEN mine[d][p][k]
                               ELSE IF asBase(d, p, k, v) THEN None
                               ELSE IF mine[d][p][k] = None THEN was[k] ELSE mine[d][p][k]
  BY <1>1, <1>2
<1> HIDE DEF held, was
<1>9. TypeOK'
  <2>1. \A d \in DB, q \in Path : told'[d][q] \subseteq keys(q)
    <3>1. \A d \in DB : told'[d][p] \subseteq keys(p)
      <4>1. back \subseteq keys(p)
        BY <1>5
      <4>2. \A d \in DB : told[d][p] \subseteq keys(p)
        BY Parts DEF TypeOK
      <4> QED
        BY <1>7, <4>1, <4>2
    <3>2. \A d \in DB, q \in Path \ {p} : told'[d][q] \subseteq keys(q)
      BY <1>7, Parts DEF TypeOK
    <3> QED
      BY <3>1, <3>2
  <2>2. \A q \in Path : {disk'[q], memory'[q]} \subseteq Content(q) \cup {NoFile}
    BY <1>4, <1>6, Parts DEF TypeOK
  <2> QED
    BY <1>1, <2>1, <2>2, Parts DEF TypeOK
<1>10. Shapes'
  <2>1. \A d \in DB, q \in Path : DOMAIN mine'[d][q] = keys(q)
    BY <1>8, Parts DEF HistoryShape
  <2> QED
    BY <1>1, <1>6, <1>7, <1>8, <2>1, Parts DEF Shapes, ServerShape, StoreShape, FileShape, HistoryShape
<1>11. OpTyped' /\ Wiped'
  BY <1>1, Parts DEF OpTyped, Wiped, EmptyStore, base
<1>12. ASSUME memory[p] # disk[p]
       PROVE  ~(op = NoOp /\ ~reloading /\ ~unreloaded)
  BY <1>12, Parts, PullOf DEF AppFollows
<1>13. ASSUME memory[p] = disk[p]
       PROVE  held = was
  BY <1>13 DEF held, was
<1>14. AppFollows'
  <2>1. \A q \in Path : \A j \in keys(q) : differ(q, j)' => q # p /\ differ(q, j)
    BY <1>6 DEF differ
  <2>2. \A q \in Path : memory[q] = disk[q] => memory'[q] = disk'[q]
    BY <1>6
  <2>3. writes(op.plan)' = writes(op.plan) /\ unwritten' = unwritten
    BY <1>1 DEF writes, unwritten
  <2>4. op.kind \in Pulls => unwritten \cup (DOMAIN op.plan \ writes(op.plan)) \subseteq Path
    BY Parts DEF OpTyped, unwritten
  <2>5. \A d \in DB, q \in Path : \A j \in keys(q) : differ(q, j)' => mine'[d][q][j] = None
    BY <1>8, <2>1, Parts DEF AppFollows
  <2>6. op.step = "settle" /\ memory'[op.now] # disk'[op.now] => disk'[op.now] = op.plan[op.now].content
    BY <1>6, Parts, PullOf DEF AppFollows
  <2> QED
    BY <1>1, <1>6, <2>2, <2>3, <2>4, <2>5, <2>6, Parts DEF AppFollows
<1>15. BaseExplains'
  <2> SUFFICES ASSUME NEW d \in DB, NEW q \in Path, base(d, q) # None
               PROVE  /\ Fresh(d) => disk'[q] # NoFile
                      /\ store[d].migrated => store[d].docs[q] # None
                      /\ Fresh(d) /\ store[d].migrated =>
                           \A j \in keys(q) :
                             /\ mine'[d][q][j] # None => disk'[q][j] # base(d, q).content[j]
                             /\ disk'[q][j] # base(d, q).content[j]
                                  => mine'[d][q][j] # None \/ j \in told'[d][q] \/ settling(d, q)
    BY <1>1 DEF BaseExplains, base, Fresh, settling
  <2>1. CASE q # p
    <3>1. disk'[q] = disk[q] /\ told'[d][q] = told[d][q] /\ mine'[d][q] = mine[d][q]
      BY <1>6, <1>7, <1>8, <2>1
    <3> QED
      BY <3>1, Parts DEF BaseExplains
  <2>2. CASE q = p
    <3> SUFFICES ASSUME Fresh(d), store[d].migrated, NEW j \in keys(p)
                 PROVE  /\ mine'[d][p][j] # None => new[j] # base(d, p).content[j]
                        /\ new[j] # base(d, p).content[j]
                             => mine'[d][p][j] # None \/ j \in told'[d][p] \/ settling(d, p)
      BY <1>4, <1>6, <2>2, Parts DEF BaseExplains
    <3>1. disk[p] # NoFile /\ was = disk[p]
      BY <2>2, Parts DEF BaseExplains, was
    <3>2. /\ mine[d][p][j] # None => disk[p][j] # base(d, p).content[j]
          /\ disk[p][j] # base(d, p).content[j]
               => mine[d][p][j] # None \/ j \in told[d][p] \/ settling(d, p)
      BY <2>2, Parts DEF BaseExplains
    <3>3. told[d][p] \subseteq told'[d][p]
      BY <1>7
    <3>4. CASE j = k
      BY <1>3, <1>8, <2>2, <3>1, <3>2, <3>3, <3>4 DEF asBase, base
    <3>5. CASE j # k /\ held[j] = was[j]
      BY <1>3, <1>8, <3>1, <3>2, <3>3, <3>5
    <3>6. CASE j # k /\ held[j] # was[j]
      <4>1. j \in told'[d][p]
        BY <1>5, <1>7, <1>12, <1>13, <3>6
      <4>2. mine[d][p][j] = None
        BY <1>13, <3>1, <3>6, Parts DEF AppFollows, differ, held
      <4> QED
        BY <1>8, <3>6, <4>1, <4>2
    <3> QED
      BY <3>4, <3>5, <3>6
  <2> QED
    BY <2>1, <2>2
<1>16. LegacyHolds'
  <2> SUFFICES ASSUME NEW d \in DB, ~store[d].migrated
               PROVE  EmptyStore(d)' \/ LegacyStore(d)'
    BY <1>1 DEF LegacyHolds
  <2>1. CASE EmptyStore(d)
    BY <1>1, <2>1 DEF EmptyStore, base
  <2>2. CASE LegacyStore(d)
    <3> SUFFICES ASSUME store[d].current
                 PROVE  /\ memory' = disk'
                        /\ \A q \in Path :
                             /\ told'[d][q] = {} /\ disk'[q] # NoFile
                             /\ \A j \in keys(q) :
                                  IF mine'[d][q][j] = None THEN disk'[q][j] = origin(d, q)[j]
                                  ELSE mine'[d][q][j] = origin(d, q)[j] /\ disk'[q][j] # origin(d, q)[j]
      BY <1>1, <2>2 DEF LegacyStore, LegacyServer, base, origin
    <3>1. memory = disk /\ held = was /\ disk[p] # NoFile /\ was = disk[p] /\ back = {}
      BY <1>5, <1>13, <2>2 DEF LegacyStore, was
    <3>2. \A j \in keys(p) :
            IF mine'[d][p][j] = None THEN new[j] = origin(d, p)[j]
            ELSE mine'[d][p][j] = origin(d, p)[j] /\ new[j] # origin(d, p)[j]
      <4>1. \A j \in keys(p) :
              IF mine[d][p][j] = None THEN disk[p][j] = origin(d, p)[j]
              ELSE mine[d][p][j] = origin(d, p)[j] /\ disk[p][j] # origin(d, p)[j]
        BY <2>2 DEF LegacyStore
      <4>2. asBase(d, p, k, v) <=> mine[d][p][k] = v
        BY <2>2 DEF asBase
      <4> QED
        BY <1>3, <1>8, <3>1, <4>1, <4>2
    <3> QED
      BY <1>4, <1>6, <1>7, <1>8, <2>2, <3>1, <3>2 DEF LegacyStore
  <2> QED
    BY <2>1, <2>2, Parts DEF LegacyHolds
<1>17. PushHolds'
  <2>1. \A q \in DOMAIN op.plan : q \in Path /\ PushPlanned(q) => PushPlanned(q)'
    BY <1>1, <1>6 DEF PushPlanned, RevKnown, SendsChanges, revOf, base
  <2>2. \A q \in DOMAIN op.plan : q \in Path /\ PushSent(q) => PushSent(q)'
    BY <1>1, <1>6 DEF PushSent, base
  <2> QED
    BY <1>1, <1>4, <1>6, <2>1, <2>2, Parts DEF PushHolds, OpTyped
<1>18. PullHolds'
  <2>1. \A q \in DOMAIN op.plan : q \in Path /\ PullPlanned(q) => PullPlanned(q)'
    BY <1>1, <1>4, <1>6 DEF PullPlanned, KeepsReported, TakesOnly, writes, settling, base
  <2>2. op.step = "settle" /\ op.now \in Path /\ disk[op.now] # NoFile => disk'[op.now] # NoFile
    BY <1>4, <1>6
  <2> QED
    BY <1>1, <2>1, <2>2, Parts, PullOf DEF PullHolds, drawn, Fresh, writes, base, OpTyped
<1> QED
  BY <1>9, <1>10, <1>11, <1>14, <1>15, <1>16, <1>17, <1>18, Together
-----------------------------------------------------------------------------
(* What Push and Pull begin with.                                          *)

\* Versions of two devices, compared.
LEMMA Compared ==
  ASSUME NEW a \in [{"me", "peer"} -> Nat], NEW b \in [{"me", "peer"} -> Nat]
  PROVE  /\ VC!compareVC(a, b) = "dominated" =>
              a["me"] <= b["me"] /\ a["peer"] <= b["peer"] /\ a # b
         /\ VC!compareVC(a, b) = "dominates" =>
              a["me"] >= b["me"] /\ a["peer"] >= b["peer"] /\ a # b
         /\ VC!compareVC(a, b) = "equal" => a["me"] = b["me"] /\ a["peer"] = b["peer"]
<1>1. /\ (\E d \in {"me", "peer"} : a[d] > b[d]) <=> a["me"] > b["me"] \/ a["peer"] > b["peer"]
      /\ (\E d \in {"me", "peer"} : a[d] < b[d]) <=> a["me"] < b["me"] \/ a["peer"] < b["peer"]
  OBVIOUS
<1>2. a["me"] \in Nat /\ a["peer"] \in Nat /\ b["me"] \in Nat /\ b["peer"] \in Nat
  OBVIOUS
<1> DEFINE greater == \E d \in {"me", "peer"} : a[d] > b[d]
           less == \E d \in {"me", "peer"} : a[d] < b[d]
<1>3. VC!compareVC(a, b) = CASE greater /\ less -> "concurrent"
                             [] greater /\ ~less  -> "dominates"
                             [] ~greater /\ less  -> "dominated"
                             [] ~greater /\ ~less -> "equal"
  BY DEF VC!compareVC
<1> HIDE DEF greater, less
<1>4. /\ VC!compareVC(a, b) = "dominates" => greater /\ ~less
      /\ VC!compareVC(a, b) = "dominated" => ~greater /\ less
      /\ VC!compareVC(a, b) = "equal" => ~greater /\ ~less
  BY <1>3
<1> QED
  BY <1>1, <1>2, <1>4 DEF greater, less

(* A store in use: its bases explain the disk. *)
InUse(d, s) ==
  /\ DOMAIN s = StoreFields /\ DOMAIN s.docs = Path /\ DOMAIN s.base = Path
  /\ s.att = store[d].att /\ s.migrated /\ s.current
  /\ \A p \in Path :
       /\ {s.docs[p], s.base[p]} \subseteq Doc(p) \cup {None}
       /\ s.base[p] # None =>
            /\ s.docs[p] # None /\ disk[p] # NoFile
            /\ \A k \in keys(p) :
                 /\ mine[d][p][k] # None => disk[p][k] # s.base[p].content[k]
                 /\ disk[p][k] # s.base[p].content[k] => mine[d][p][k] # None \/ k \in told[d][p]

\* Nothing is a base while the disk is another database's.
LEMMA Aligned ==
  ASSUME IInv, unlocked
  PROVE  LET a == alignBasesWithDisk(store[bound])
         IN /\ DOMAIN a = StoreFields /\ DOMAIN a.docs = Path /\ DOMAIN a.base = Path
            /\ a.att = store[bound].att /\ a.current /\ a.docs = store[bound].docs
            /\ (a.migrated <=> store[bound].migrated)
            /\ (store[bound].current => a = store[bound])
            /\ (~store[bound].current => \A p \in Path : a.base[p] = None)
            /\ \A p \in Path : {a.docs[p], a.base[p]} \subseteq Doc(p) \cup {None}
<1>1. /\ DOMAIN store[bound] = StoreFields /\ DOMAIN store[bound].docs = Path
      /\ DOMAIN store[bound].base = Path
      /\ \A p \in Path : {store[bound].docs[p], store[bound].base[p]} \subseteq Doc(p) \cup {None}
  BY Parts DEF StoreShape, TypeOK
<1>2. CASE store[bound].current
  BY <1>1, <1>2 DEF alignBasesWithDisk
<1>3. CASE ~store[bound].current
  <2> DEFINE b == [store[bound] EXCEPT !.base = [p \in Path |-> None], !.localFirst = {}, !.current = TRUE]
  <2>1. alignBasesWithDisk(store[bound]) = b
    BY <1>3 DEF alignBasesWithDisk
  <2>2. /\ DOMAIN b = StoreFields /\ b.docs = store[bound].docs /\ b.att = store[bound].att
        /\ b.base = [p \in Path |-> None] /\ b.current /\ b.migrated = store[bound].migrated
    BY <1>1 DEF StoreFields
  <2> HIDE DEF b
  <2> QED
    BY <1>1, <1>3, <2>1, <2>2
<1> QED
  BY <1>2, <1>3

\* A base of an older build that survives is the version its changes are against.
LEMMA Survives ==
  ASSUME IInv, NEW d \in DB, ~store[d].migrated, LegacyStore(d), server[d].root = 1, store[d].current,
         NEW p \in Path, server[d].docs[p] # None
  PROVE  LET was == scanned(d, p)
             doc == server[d].docs[p]
             rel == VC!compareVC(was.vclock, doc.vclock)
         IN /\ rel = "dominated" => was.content = origin(d, p)
            /\ rel # "equal"
            /\ rel = "dominates" => doc.content = origin(d, p)
<1> DEFINE was == scanned(d, p)
           doc == server[d].docs[p]
           rel == VC!compareVC(was.vclock, doc.vclock)
<1>1. d # Home /\ LegacyServer(d) /\ Legacy[p] \in {"behind", "unsent", "crossed", "gone"}
  BY ConfigAssumption DEF LegacyStore
<1>2. was \in Doc(p) /\ was.content = first(p) /\ doc \in Uploaded(p)
  BY ScannedIs, Parts DEF TypeOK
<1>3. /\ was.vclock \in [{"me", "peer"} -> Nat] /\ doc.vclock \in [{"me", "peer"} -> Nat]
      /\ doc.vclock["me"] \in Nat /\ doc.vclock["peer"] \in Nat
  BY <1>2, Versions
<1>4. CASE Legacy[p] = "gone"
  <2>1. was.vclock["me"] = 1 /\ was.vclock["peer"] = 0
    <3>1. was.vclock = clock(1, 0)
      BY <1>1, <1>4, ScannedIs
    <3> QED
      BY <3>1, Clocks
  <2>2. doc.vclock["me"] = 0 /\ doc.vclock["peer"] >= 1
    BY <1>1, <1>4 DEF LegacyServer
  <2> QED
    BY <1>3, <2>1, <2>2, Compared
<1>5. ASSUME Legacy[p] # "gone"
      PROVE  /\ doc.vclock["me"] = 1 /\ doc.vclock["peer"] >= 2
             /\ doc.vclock["peer"] = 2 => doc.content = other(p)
  BY <1>1, <1>5 DEF LegacyServer
<1>6. CASE Legacy[p] = "behind"
  <2>1. was.vclock["me"] = 1 /\ was.vclock["peer"] = 1
    <3>1. was.vclock = clock(1, 1)
      BY <1>1, <1>6, ScannedIs
    <3> QED
      BY <3>1, Clocks
  <2>2. origin(d, p) = first(p)
    BY <1>6 DEF origin, unsent
  <2> QED
    BY <1>2, <1>3, <1>5, <1>6, <2>1, <2>2, Compared
<1>7. CASE Legacy[p] = "unsent"
  <2>1. was.vclock["me"] = 2 /\ was.vclock["peer"] = 2
    <3>1. was.vclock = clock(2, 2)
      BY <1>1, <1>7, ScannedIs
    <3> QED
      BY <3>1, Clocks
  <2>2. origin(d, p) = other(p)
    BY <1>7 DEF origin, unsent
  <2> QED
    BY <1>3, <1>5, <1>7, <2>1, <2>2, Compared
<1>8. CASE Legacy[p] = "crossed"
  <2>1. was.vclock["me"] = 2 /\ was.vclock["peer"] = 1
    <3>1. was.vclock = clock(2, 1)
      BY <1>1, <1>8, ScannedIs
    <3> QED
      BY <3>1, Clocks
  <2> QED
    BY <1>3, <1>5, <1>8, <2>1, Compared
<1> QED
  BY <1>1, <1>4, <1>6, <1>7, <1>8

LEMMA Prepared ==
  ASSUME IInv, unlocked, ready(bound)
  PROVE  InUse(bound, prepare(bound))
<1> DEFINE a == alignBasesWithDisk(store[bound])
           docs == server[bound].docs
           known   == {p \in Path : a.docs[p] # None \/ a.base[p] # None}
           ref(p)  == IF a.docs[p] # None THEN a.docs[p] ELSE a.base[p]
           rel(p)  == VC!compareVC(ref(p).vclock, docs[p].vclock)
           based   == {p \in known : a.base[p] # None /\ participates(p) /\ docs[p] # None}
           taken   == {p \in based : \/ rel(p) = "dominated"
                                     \/ rel(p) = "equal" /\ ref(p).content = docs[p].content}
           sent    == {p \in based : rel(p) = "dominates"}
           m == [a EXCEPT
                  !.docs = [p \in Path |-> IF p \in known /\ docs[p] # None
                                           THEN version(docs[p]) ELSE None],
                  !.base = [p \in Path |-> CASE p \in taken  -> a.base[p]
                                             [] p \in sent -> version(docs[p])
                                             [] OTHER        -> None],
                  !.localFirst = @ \cup (based \ (taken \cup sent)),
                  !.migrated = TRUE]
<1>1. prepare(bound) = IF a.migrated THEN a ELSE m
  BY DEF prepare, migrateConfigBase
<1>2. /\ DOMAIN a = StoreFields /\ DOMAIN a.docs = Path /\ DOMAIN a.base = Path
      /\ a.att = store[bound].att /\ a.current /\ a.docs = store[bound].docs
      /\ (a.migrated <=> store[bound].migrated)
      /\ (store[bound].current => a = store[bound])
      /\ (~store[bound].current => \A p \in Path : a.base[p] = None)
      /\ \A p \in Path : {a.docs[p], a.base[p]} \subseteq Doc(p) \cup {None}
  BY Aligned
<1> HIDE DEF a
<1>3. \A p \in Path : ~settling(bound, p)
  BY DEF unlocked, settling, NoOp
<1>4. CASE store[bound].migrated
  <2> SUFFICES InUse(bound, a)
    BY <1>1, <1>2, <1>4
  <2> SUFFICES ASSUME NEW p \in Path, a.base[p] # None
               PROVE  /\ a.docs[p] # None /\ disk[p] # NoFile
                      /\ \A k \in keys(p) :
                           /\ mine[bound][p][k] # None => disk[p][k] # a.base[p].content[k]
                           /\ disk[p][k] # a.base[p].content[k]
                                => mine[bound][p][k] # None \/ k \in told[bound][p]
    BY <1>2, <1>4 DEF InUse
  <2>1. store[bound].current /\ a.base[p] = base(bound, p)
    BY <1>2 DEF base
  <2> QED
    BY <1>2, <1>3, <1>4, <2>1, Parts DEF BaseExplains, Fresh
<1>5. CASE ~store[bound].migrated
  <2>1. /\ DOMAIN m = StoreFields /\ m.att = a.att /\ m.migrated /\ m.current
        /\ DOMAIN m.docs = Path /\ DOMAIN m.base = Path
        /\ \A p \in Path :
             /\ m.docs[p] = IF p \in known /\ docs[p] # None THEN version(docs[p]) ELSE None
             /\ m.base[p] = CASE p \in taken  -> a.base[p]
                              [] p \in sent -> version(docs[p])
                              [] OTHER        -> None
    BY <1>2 DEF StoreFields
  <2>2. taken \subseteq based /\ sent \subseteq based
    OBVIOUS
  <2>3. \A p \in based : p \in Path /\ p \in known /\ a.base[p] # None /\ docs[p] # None
    OBVIOUS
  <2>4. \A p \in sent : rel(p) = "dominates"
    OBVIOUS
  <2>5. \A p \in taken : rel(p) \in {"dominated", "equal"}
    OBVIOUS
  <2> HIDE DEF m, taken, sent, based, known
  <2>6. \A p \in Path : docs[p] \in Uploaded(p) \cup {None}
    BY Parts DEF TypeOK
  <2>7. \A p \in Path : {m.docs[p], m.base[p]} \subseteq Doc(p) \cup {None}
    <3> SUFFICES ASSUME NEW p \in Path PROVE {m.docs[p], m.base[p]} \subseteq Doc(p) \cup {None}
      OBVIOUS
    <3>1. docs[p] # None => version(docs[p]) \in Doc(p)
      BY <2>6, Versions
    <3>2. m.docs[p] \in Doc(p) \cup {None}
      BY <2>1, <3>1
    <3>3. m.base[p] \in Doc(p) \cup {None}
      BY <1>2, <2>1, <2>2, <2>3, <3>1
    <3> QED
      BY <3>2, <3>3
  <2> SUFFICES ASSUME NEW p \in Path, m.base[p] # None
               PROVE  /\ m.docs[p] # None /\ disk[p] # NoFile
                      /\ \A k \in keys(p) :
                           /\ mine[bound][p][k] # None => disk[p][k] # m.base[p].content[k]
                           /\ disk[p][k] # m.base[p].content[k]
                                => mine[bound][p][k] # None \/ k \in told[bound][p]
    BY <1>1, <1>2, <1>5, <2>1, <2>7 DEF InUse
  <2>8. p \in taken \cup sent /\ p \in based
    BY <2>1, <2>2
  <2>9. a.base[p] # None /\ docs[p] # None /\ p \in known
    BY <2>3, <2>8
  <2>10. store[bound].current /\ a = store[bound] /\ a.base[p] = base(bound, p)
    BY <1>2, <2>9 DEF base
  <2>11. LegacyStore(bound) /\ server[bound].root = 1
    <3>1. ~EmptyStore(bound)
      BY <2>9, <2>10 DEF EmptyStore
    <3>2. LegacyStore(bound)
      BY <1>5, <3>1, Parts DEF LegacyHolds
    <3> QED
      BY <3>2 DEF LegacyStore, ready
  <2>12. a.base[p] = scanned(bound, p) /\ ref(p) = scanned(bound, p)
    BY <2>10, <2>11, ScannedIs, Versions DEF LegacyStore
  <2>13. m.base[p].content = origin(bound, p)
    <3>1. version(docs[p]).content = docs[p].content
      BY <2>6, <2>9, Versions
    <3> DEFINE r == VC!compareVC(scanned(bound, p).vclock, docs[p].vclock)
    <3>2. /\ r = "dominated" => scanned(bound, p).content = origin(bound, p)
          /\ r # "equal"
          /\ r = "dominates" => docs[p].content = origin(bound, p)
      BY <1>5, <2>9, <2>10, <2>11, Survives, Parts
    <3>3. rel(p) = r
      BY <2>12
    <3> HIDE DEF r, rel
    <3>4. CASE p \in taken
      <4>1. r = "dominated" /\ p \notin sent
        BY <2>4, <2>5, <3>2, <3>3, <3>4
      <4>2. m.base[p] = a.base[p]
        BY <2>1, <3>4, <4>1
      <4> QED
        BY <2>12, <3>2, <4>1, <4>2
    <3>5. CASE p \notin taken
      BY <2>1, <2>4, <2>8, <3>1, <3>2, <3>3, <3>5
    <3> QED
      BY <3>4, <3>5
  <2>14. m.docs[p] # None
    BY <2>1, <2>6, <2>9, Versions
  <2> QED
    BY <2>10, <2>11, <2>13, <2>14 DEF LegacyStore
<1> QED
  BY <1>4, <1>5
\* An operation begins with a store in use.
LEMMA UseKeeps ==
  ASSUME IInv, unlocked, ready(bound), UNCHANGED <<server, settings, app, history>>,
         acts' \in Nat, failures' \in Nat,
         store' = [store EXCEPT ![bound] = prepare(bound)],
         OpTyped', op'.kind \notin Builds, op'.step \notin {"mark", "settle"},
         AppFollows', PushHolds', PullHolds'
  PROVE  IInv'
<1> DEFINE s == prepare(bound)
<1>1. InUse(bound, s)
  BY Prepared
<1> HIDE DEF s
<1>2. DOMAIN store' = DB /\ store'[bound] = s /\ \A e \in DB \ {bound} : store'[e] = store[e]
  BY Parts DEF StoreShape, s
<1>3. \A d \in DB, p \in Path : ~settling(d, p) /\ ~settling(d, p)'
  BY DEF unlocked, settling, NoOp
<1>4. TypeOK'
  <2>1. \A d \in DB : store'[d].att \in 0..server[d].made
    BY <1>1, <1>2, Parts DEF TypeOK, InUse
  <2>2. \A d \in DB, p \in Path : {store'[d].docs[p], store'[d].base[p]} \subseteq Doc(p) \cup {None}
    BY <1>1, <1>2, Parts DEF TypeOK, InUse
  <2> QED
    BY <2>1, <2>2, Parts DEF TypeOK, settings, app, history
<1>5. Shapes'
  <2>1. StoreShape'
    BY <1>1, <1>2, Parts DEF StoreShape, InUse
  <2> QED
    BY <2>1, Parts DEF Shapes, ServerShape, FileShape, HistoryShape, settings, app, history
<1>6. BaseExplains'
  <2> SUFFICES ASSUME NEW d \in DB, NEW p \in Path, base(d, p)' # None
               PROVE  /\ Fresh(d)' => disk'[p] # NoFile
                      /\ store'[d].migrated => store'[d].docs[p] # None
                      /\ Fresh(d)' /\ store'[d].migrated =>
                           \A k \in keys(p) :
                             /\ mine'[d][p][k] # None => disk'[p][k] # base(d, p)'.content[k]
                             /\ disk'[p][k] # base(d, p)'.content[k]
                                  => mine'[d][p][k] # None \/ k \in told'[d][p] \/ settling(d, p)'
    BY DEF BaseExplains
  <2>1. CASE d = bound
    BY <1>1, <1>2, <2>1 DEF InUse, base, app, history
  <2>2. CASE d # bound
    <3>1. store'[d] = store[d] /\ base(d, p)' = base(d, p) /\ (Fresh(d)' => Fresh(d))
      BY <1>2, <2>2 DEF base, Fresh
    <3> QED
      BY <1>3, <3>1, Parts DEF BaseExplains, app, history
  <2> QED
    BY <2>1, <2>2
<1>7. LegacyHolds'
  <2> SUFFICES ASSUME NEW d \in DB, ~store'[d].migrated
               PROVE  EmptyStore(d)' \/ LegacyStore(d)'
    BY DEF LegacyHolds
  <2>1. d # bound /\ store'[d] = store[d]
    BY <1>1, <1>2 DEF InUse
  <2> QED
    BY <2>1, Parts DEF LegacyHolds, EmptyStore, LegacyStore, LegacyServer, base, app, history
<1>8. Wiped'
  BY DEF Wiped
<1> QED
  BY <1>4, <1>5, <1>6, <1>7, <1>8, Together

-----------------------------------------------------------------------------
(* Push.                                                                   *)

LEMMA PushesTyped ==
  ASSUME OpTyped, op.kind = "push", DOMAIN op' = Fields, op'.kind = "push",
         op'.step \in {"check", "select", "send", "record"},
         op'.todo \subseteq Path, op'.deletes = op.deletes, DOMAIN op'.plan \subseteq Path,
         op'.root = op.root
  PROVE  OpTyped'
<1>1. op'.kind \notin {"none", "share"} \cup Pulls \cup Builds /\ op'.step \notin {"settle", "drop"}
  BY DEF Builds, Pulls
<1> QED
  BY <1>1 DEF OpTyped

LEMMA PushGoesOn ==
  ASSUME IInv, UNCHANGED <<server, store, disk, memory, reloading, unreloaded, mine, told>>,
         TypeOK', DOMAIN declared' = Path, acts' \in Nat, failures' \in Nat,
         op.kind = "push", op'.kind = "push", op'.wrote = op.wrote, OpTyped', PushHolds'
  PROVE  IInv'
<1>1. ~op.wrote /\ op.step # "settle" /\ op'.step \notin {"mark", "settle"}
      /\ op'.kind \notin Pulls /\ op'.kind \notin Builds
  BY Parts DEF OpTyped, AppFollows, Builds, Pulls
<1>2. Shapes'
  BY ShapesStay DEF IInv
<1>3. AppFollows' /\ LegacyHolds'
  BY <1>1, AppStays, LegacyStays, Parts
<1>4. BaseExplains'
  BY <1>1, BasesStay, Parts DEF Fresh, settling
<1>5. PullHolds' /\ Wiped'
  BY <1>1 DEF PullHolds, Wiped
<1> QED
  BY <1>2, <1>3, <1>4, <1>5, Together

\* A Push ends.
LEMMA PushEnds ==
  ASSUME IInv, UNCHANGED <<server, store, disk, memory, reloading, unreloaded, mine, told>>,
         TypeOK', DOMAIN declared' = Path, acts' \in Nat, failures' \in Nat,
         op.kind = "push", op' = NoOp
  PROVE  IInv'
<1>1. ~op.wrote /\ op.step # "settle"
  BY Parts DEF OpTyped, AppFollows, Builds, Pulls
<1> QED
  BY <1>1, Idle, Quiet

LEMMA PushStartKeeps ==
  ASSUME IInv, PushStart
  PROVE  IInv'
<1> DEFINE s == prepare(bound)
           plan == planPush(s)
<1>1. /\ unlocked /\ ready(bound) /\ store' = [store EXCEPT ![bound] = s]
      /\ op' = IF active(plan) = {} THEN NoOp ELSE [Begin("push", "check") EXCEPT !.plan = plan]
      /\ UNCHANGED <<server, settings, app, history>> /\ acts' \in Nat /\ failures' \in Nat
  BY Parts, Counted DEF PushStart
<1>2. InUse(bound, s) /\ bound \in DB
  BY <1>1, Prepared, Parts
<1>3. /\ DOMAIN plan \subseteq Path
      /\ \A p \in DOMAIN plan :
           /\ disk[p] # NoFile
           /\ plan[p] = [base |-> s.base[p], local |-> disk[p], rev |-> None,
                         sent |-> {}, content |-> disk[p]]
  BY DEF planPush, onDisk
<1> HIDE DEF plan
<1>4. ~op.wrote
  BY <1>1 DEF unlocked, NoOp
<1>5. CASE op' = NoOp
  <2>1. op'.kind \notin Builds \cup Pulls /\ op'.step \notin {"mark", "settle"}
    BY <1>5, Idle DEF Builds, Pulls
  <2>2. AppFollows'
    BY <1>1, <1>4, <1>5, <2>1, Idle, AppStays, Parts DEF app, history
  <2> QED
    BY <1>1, <1>5, <2>1, <2>2, Idle, UseKeeps
<1>6. CASE op' = [Begin("push", "check") EXCEPT !.plan = plan]
  <2>1. /\ DOMAIN op' = Fields /\ op'.kind = "push" /\ op'.step = "check" /\ op'.plan = plan
        /\ op'.todo = {} /\ op'.deletes = {} /\ op'.root = 0 /\ ~op'.wrote
    BY <1>6 DEF Begin, NoOp, Fields
  <2>2. op'.kind \notin Builds \cup Pulls \cup {"none", "share"} /\ op'.step \notin {"mark", "settle", "drop"}
    BY <2>1 DEF Builds, Pulls
  <2>3. OpTyped'
    BY <1>3, <2>1, <2>2 DEF OpTyped
  <2>4. AppFollows'
    BY <1>1, <1>4, <2>1, <2>2, AppStays, Parts DEF app, history
  <2>5. PullHolds'
    BY <2>2 DEF PullHolds
  <2>6. PushHolds'
    <3>1. store'[bound] = s /\ bound' = bound /\ disk' = disk /\ memory' = memory
      BY <1>1, <1>2, Parts DEF StoreShape, settings, app
    <3> HIDE DEF s
    <3> SUFFICES ASSUME NEW p \in DOMAIN plan
                 PROVE  disk[p] # NoFile /\ PushPlanned(p)'
      BY <1>2, <2>1, <3>1 DEF PushHolds, InUse
    <3>2. /\ plan[p].base = s.base[p] /\ plan[p].local = disk[p] /\ plan[p].rev = None
          /\ plan[p].sent = {} /\ plan[p].content = disk[p] /\ p \in Path /\ disk[p] # NoFile
      BY <1>3
    <3>3. disk[p] \in Content(p) /\ s.base[p] \in Doc(p) \cup {None}
      BY <1>2, <3>2, Parts DEF InUse, TypeOK
    <3>4. plan[p] \in PushEntry(p)
      BY <1>3, <3>3 DEF PushEntry
    <3> QED
      BY <2>1, <3>1, <3>2, <3>4 DEF PushPlanned, RevKnown, base
  <2> QED
    BY <1>1, <2>2, <2>3, <2>4, <2>5, <2>6, UseKeeps
<1> QED
  BY <1>1, <1>5, <1>6

LEMMA PushCheckKeeps ==
  ASSUME IInv, PushCheck
  PROVE  IInv'
<1> DEFINE ok == {p \in DOMAIN op.plan : sendable(bound, p, op.plan[p])}
           plan == [p \in ok |-> [op.plan[p] EXCEPT !.rev = revOf(bound, p)]]
<1>1. /\ op.kind = "push" /\ op.step = "check"
      /\ op' = IF ok \cap active(op.plan) = {} THEN NoOp
               ELSE [op EXCEPT !.step = "select", !.plan = plan]
      /\ UNCHANGED <<server, store, settings, app, history>> /\ acts' \in Nat /\ failures' \in Nat
  BY Parts, Counted DEF PushCheck
<1>2. DOMAIN plan = ok /\ ok \subseteq DOMAIN op.plan /\ \A p \in ok : sendable(bound, p, op.plan[p])
  OBVIOUS
<1>3. \A p \in ok : plan[p] = [op.plan[p] EXCEPT !.rev = revOf(bound, p)]
  OBVIOUS
<1> HIDE DEF ok, plan
<1>4. TypeOK' /\ DOMAIN declared' = Path
  BY <1>1, Parts, TypesStay DEF settings, app, history, TypeOK, FileShape
<1>5. CASE op' = NoOp
  BY <1>1, <1>4, <1>5, PushEnds DEF app, history
<1>6. CASE op' = [op EXCEPT !.step = "select", !.plan = plan]
  <2>1. /\ DOMAIN op' = Fields /\ op'.kind = "push" /\ op'.step = "select" /\ op'.plan = plan
        /\ op'.todo = op.todo /\ op'.deletes = op.deletes /\ op'.root = op.root /\ op'.wrote = op.wrote
    BY <1>1, <1>6, Parts DEF OpTyped, Fields
  <2>2. OpTyped'
    BY <1>1, <1>2, <2>1, Parts, PushesTyped DEF OpTyped
  <2>3. PushHolds'
    <3> SUFFICES ASSUME NEW p \in ok PROVE disk[p] # NoFile /\ PushPlanned(p)'
      BY <1>1, <1>2, <2>1, Parts DEF PushHolds, settings, app
    <3> DEFINE e == op.plan[p]
               f == plan[p]
               doc == server[bound].docs[p]
    <3>1. /\ p \in DOMAIN op.plan /\ p \in Path /\ e \in PushEntry(p) /\ e.base = base(bound, p)
          /\ disk[p] # NoFile /\ (memory[p] # disk[p] => disk[p] = e.local)
      BY <1>1, <1>2, Parts DEF PushHolds, PushPlanned, OpTyped
    <3>2. /\ doc \in Uploaded(p) \cup {None}
          /\ server[bound].made \in Nat /\ server[bound].seq \in Nat
          /\ doc # None => doc.seq \in Nat /\ doc.seq <= server[bound].seq
      BY <3>1, Parts, Versions DEF TypeOK, ServerShape
    <3>3. revOf(bound, p) \in (Nat \X Nat) \cup {None}
      BY <3>2 DEF revOf
    <3>4. /\ f \in PushEntry(p) /\ f.base = e.base /\ f.local = e.local /\ f.rev = revOf(bound, p)
      BY <1>3, <3>1, <3>3 DEF PushEntry
    <3>5. sameVersion(doc, e.base)
      BY <1>2, <3>1 DEF sendable, sameVersion
    <3> HIDE DEF e, f, doc
    <3>6. RevKnown(p)'
      <4>1. op'.plan[p].rev = f.rev /\ op'.plan[p].base = e.base /\ server' = server /\ bound' = bound
        BY <1>1, <2>1, <3>4 DEF f, settings
      <4>2. revOf(bound, p)' = revOf(bound, p)
        BY <4>1 DEF revOf
      <4> QED
        BY <3>2, <3>4, <3>5, <4>1, <4>2 DEF RevKnown, revOf, doc
    <3> QED
      BY <1>1, <2>1, <3>1, <3>4, <3>6 DEF PushPlanned, base, settings, app, e, f
  <2> QED
    BY <1>1, <1>4, <2>1, <2>2, <2>3, PushGoesOn DEF app, history
<1> QED
  BY <1>1, <1>5, <1>6

(* What the Push list selects of a file whose base is b. *)
Selection(p, b, local, sel, own) ==
  /\ p \in Path /\ b \in Doc(p) \cup {None} /\ local \in Content(p)
  /\ sel \subseteq diffForPush(contentOf(b), local) /\ sel \cap own = {}
  /\ b = None => sel = diffForPush(None, local)

ChangesOnly(p, b, local, sel, c) ==
  /\ c \in Content(p) /\ sel \subseteq keys(p)
  /\ \A k \in keys(p) : IF k \in sel THEN c[k] = local[k] ELSE b # None /\ c[k] = b.content[k]

\* What is sent for the changes a user selects.
LEMMA Selected ==
  ASSUME NEW p, NEW b, NEW local, NEW sel, NEW own, Selection(p, b, local, sel, own)
  PROVE  ChangesOnly(p, b, local, sel, pushContent(contentOf(b), local, sel, own))
<1> DEFINE c == pushContent(contentOf(b), local, sel, own)
<1>0. /\ p \in Path /\ b \in Doc(p) \cup {None} /\ local \in Content(p)
      /\ sel \subseteq diffForPush(contentOf(b), local) /\ sel \cap own = {}
      /\ b = None => sel = diffForPush(None, local)
  BY DEF Selection
<1>1. DOMAIN local = keys(p) /\ \A k \in keys(p) : local[k] \in Values(p)
  BY <1>0, Contents
<1>2. CASE b = None
  BY <1>0, <1>1, <1>2 DEF ChangesOnly, contentOf, diffForPush, pushContent
<1>3. CASE b # None
  <2> DEFINE bc == b.content
  <2>1. bc \in Content(p) /\ bc # None /\ contentOf(b) = bc
    BY <1>0, <1>3, Versions, Contents DEF contentOf
  <2>2. DOMAIN bc = keys(p) /\ \A k \in keys(p) : bc[k] \in Values(p)
    BY <1>0, <2>1, Contents
  <2> HIDE DEF bc
  <2>3. c = [k \in keys(p) |-> IF k \in own THEN bc[k] ELSE IF k \in sel THEN local[k] ELSE bc[k]]
    BY <2>1, <2>2 DEF pushContent, pinPointers, applyJsonChanges
  <2>4. sel \subseteq keys(p)
    BY <1>0, <1>1, <2>1 DEF diffForPush, diffJson
  <2>5. c \in Content(p)
    BY <1>0, <1>1, <2>2, <2>3 DEF Content, Values
  <2> QED
    BY <1>0, <1>3, <2>1, <2>3, <2>4, <2>5 DEF bc, ChangesOnly
<1> QED
  BY <1>2, <1>3

LEMMA PushSelectKeeps ==
  ASSUME IInv, PushSelect
  PROVE  IInv'
<1>1. /\ op.kind = "push" /\ op.step = "select"
      /\ UNCHANGED <<server, store, settingUp, bound, app, history>>
      /\ acts' \in Nat /\ failures' \in Nat
  BY Parts, Counted DEF PushSelect
<1>2. PICK sel \in [DOMAIN op.plan -> SUBSET (Key \cup {Whole})] :
        LET own(p) == (declared[p] \ sel[p]) \cup (changesOf(op.plan[p]) \ sel[p])
            sends == {p \in DOMAIN op.plan : sel[p] # {}}
        IN /\ \A p \in DOMAIN op.plan :
                /\ sel[p] \subseteq changesOf(op.plan[p])
                /\ p \in byKey(op.plan) \/ sel[p] \in {{}, changesOf(op.plan[p])}
           /\ declared' = [p \in Path |->
                 [q \in Path |-> IF q \in byKey(op.plan) THEN own(q) ELSE declared[q]][p]]
           /\ off' = off \cup {p \in DOMAIN op.plan \ byKey(op.plan) : sel[p] = {}}
           /\ op' = IF sends = {} THEN NoOp
                    ELSE [op EXCEPT !.step = "send",
                           !.plan = [p \in sends |->
                              [op.plan[p] EXCEPT !.sent = sel[p],
                                !.content = pushContent(contentOf(op.plan[p].base),
                                             op.plan[p].local, sel[p],
                                             IF p \in byKey(op.plan) THEN own(p) ELSE {})]]]
  BY DEF PushSelect, saveDeclarations
<1> DEFINE own(p) == (declared[p] \ sel[p]) \cup (changesOf(op.plan[p]) \ sel[p])
           sends == {p \in DOMAIN op.plan : sel[p] # {}}
           content(p) == pushContent(contentOf(op.plan[p].base), op.plan[p].local, sel[p],
                                     IF p \in byKey(op.plan) THEN own(p) ELSE {})
           plan == [p \in sends |-> [op.plan[p] EXCEPT !.sent = sel[p], !.content = content(p)]]
<1>3. /\ \A p \in DOMAIN op.plan :
           /\ sel[p] \subseteq changesOf(op.plan[p])
           /\ p \in byKey(op.plan) \/ sel[p] \in {{}, changesOf(op.plan[p])}
      /\ DOMAIN declared' = Path
      /\ \A p \in Path : declared'[p] = IF p \in byKey(op.plan) THEN own(p) ELSE declared[p]
      /\ off' = off \cup {p \in DOMAIN op.plan \ byKey(op.plan) : sel[p] = {}}
      /\ op' = IF sends = {} THEN NoOp ELSE [op EXCEPT !.step = "send", !.plan = plan]
  BY <1>2
<1>4. \A p \in DOMAIN op.plan :
        /\ p \in Path /\ disk[p] # NoFile /\ PushPlanned(p)
        /\ op.plan[p] \in PushEntry(p)
        /\ changesOf(op.plan[p]) \subseteq keys(p)
  <2>1. \A p \in DOMAIN op.plan : p \in Path /\ disk[p] # NoFile /\ PushPlanned(p)
    BY <1>1, Parts DEF OpTyped, PushHolds
  <2> SUFFICES ASSUME NEW p \in DOMAIN op.plan
               PROVE  op.plan[p] \in PushEntry(p) /\ changesOf(op.plan[p]) \subseteq keys(p)
    BY <2>1
  <2>2. op.plan[p] \in PushEntry(p)
    BY <2>1 DEF PushPlanned
  <2>3. p \in Path /\ op.plan[p].local \in Content(p)
    BY <2>1, <2>2 DEF PushEntry
  <2>4. DOMAIN op.plan[p].local = keys(p)
    BY <2>3, Contents
  <2> QED
    BY <2>2, <2>4 DEF changesOf, diffForPush, diffJson
<1>5. TypeOK'
  <2>1. \A p \in Path : declared'[p] \subseteq IF p \in Keyed THEN Key ELSE {}
    <3> SUFFICES ASSUME NEW p \in Path PROVE declared'[p] \subseteq IF p \in Keyed THEN Key ELSE {}
      OBVIOUS
    <3>1. declared[p] \subseteq IF p \in Keyed THEN Key ELSE {}
      BY Parts DEF TypeOK
    <3>2. p \in byKey(op.plan) => p \in Keyed /\ changesOf(op.plan[p]) \subseteq Key
      BY <1>4 DEF byKey, keys
    <3> QED
      BY <1>3, <3>1, <3>2
  <2>2. off' \subseteq Path
    BY <1>3, <1>4, Parts DEF TypeOK
  <2>3. /\ stopped' \subseteq Stoppable /\ settingUp' \subseteq DB /\ bound' \in DB
        /\ reloading' \in BOOLEAN /\ unreloaded' \in BOOLEAN
    BY <1>1, Parts DEF TypeOK, app
  <2> QED
    BY <1>1, <2>1, <2>2, <2>3, TypesStay, Parts DEF app, history
<1>6. CASE op' = NoOp
  BY <1>1, <1>3, <1>5, <1>6, PushEnds DEF app, history
<1>7. CASE op' = [op EXCEPT !.step = "send", !.plan = plan]
  <2>0. /\ DOMAIN plan = sends /\ sends \subseteq DOMAIN op.plan
        /\ \A p \in sends : /\ sel[p] # {}
                            /\ plan[p] = [op.plan[p] EXCEPT !.sent = sel[p], !.content = content(p)]
    OBVIOUS
  <2> HIDE DEF plan, sends, content
  <2>1. /\ DOMAIN op' = Fields /\ op'.kind = "push" /\ op'.step = "send" /\ op'.plan = plan
        /\ op'.todo = op.todo /\ op'.deletes = op.deletes /\ op'.root = op.root /\ op'.wrote = op.wrote
    BY <1>1, <1>7, Parts DEF OpTyped, Fields
  <2>2. OpTyped'
    <3>1. DOMAIN op'.plan \subseteq Path /\ op'.todo \subseteq Path
      BY <1>4, <2>0, <2>1, Parts DEF OpTyped
    <3> QED
      BY <1>1, <2>1, <3>1, Parts, PushesTyped
  <2>3. PushHolds'
    <3> SUFFICES ASSUME NEW p \in sends PROVE disk[p] # NoFile /\ PushPlanned(p)'
      BY <1>1, <2>0, <2>1, Parts DEF PushHolds, app
    <3> DEFINE e == op.plan[p]
               f == plan[p]
    <3>1. /\ p \in DOMAIN op.plan /\ p \in Path /\ e \in PushEntry(p) /\ e.base = base(bound, p)
          /\ disk[p] # NoFile /\ (memory[p] # disk[p] => disk[p] = e.local) /\ RevKnown(p)
      BY <1>4, <2>0 DEF PushPlanned
    <3>2. /\ e.base \in Doc(p) \cup {None} /\ e.local \in Content(p) /\ e.rev \in (Nat \X Nat) \cup {None}
          /\ changesOf(e) = diffForPush(contentOf(e.base), e.local) /\ contentOf(None) = None
      BY <3>1 DEF PushEntry, changesOf, contentOf
    <3>3. sel[p] \in SUBSET diffForPush(contentOf(e.base), e.local)
      BY <1>3, <3>1, <3>2
    <3>4. e.base = None => sel[p] = diffForPush(None, e.local)
      BY <1>3, <2>0, <3>1, <3>2 DEF byKey
    <3> DEFINE o == IF p \in byKey(op.plan) THEN own(p) ELSE {}
    <3>5. sel[p] \cap o = {}
      OBVIOUS
    <3>6. /\ content(p) \in Content(p) /\ sel[p] \subseteq keys(p)
          /\ \A k \in keys(p) : IF k \in sel[p] THEN content(p)[k] = e.local[k]
                                ELSE e.base # None /\ content(p)[k] = e.base.content[k]
      <4>1. content(p) = pushContent(contentOf(e.base), e.local, sel[p], o)
        BY DEF content
      <4> DEFINE b == e.base
                 local == e.local
                 s == sel[p]
                 c == content(p)
      <4>2. Selection(p, b, local, s, o) /\ c = pushContent(contentOf(b), local, s, o)
        BY <3>1, <3>2, <3>3, <3>4, <3>5, <4>1 DEF Selection
      <4> HIDE DEF o, b, local, s, c
      <4>3. ChangesOnly(p, b, local, s, c)
        BY ONLY <4>2, Selected
      <4> QED
        BY <4>3 DEF ChangesOnly, b, local, s, c
    <3>7. \A k \in sel[p] : e.base # None => k \notin declared'[p]
      <4>1. CASE p \in byKey(op.plan)
        BY <1>3, <3>1, <4>1
      <4>2. CASE p \notin byKey(op.plan)
        <5>1. e.base # None => declared[p] = {}
          BY <3>1, <4>2, Parts DEF byKey, TypeOK
        <5> QED
          BY <1>3, <3>1, <4>2, <5>1
      <4> QED
        BY <4>1, <4>2
    <3> HIDE DEF o, e, own
    <3>8. /\ f.base = e.base /\ f.local = e.local /\ f.rev = e.rev
          /\ f.sent = sel[p] /\ f.content = content(p)
          /\ f = [base |-> e.base, local |-> e.local, rev |-> e.rev, sent |-> sel[p], content |-> content(p)]
      BY <2>0, <3>1 DEF PushEntry, e
    <3>9. f \in PushEntry(p)
      BY <3>2, <3>6, <3>8 DEF PushEntry
    <3> HIDE DEF f
    <3>10. op'.plan[p] = f
      BY <2>1 DEF f
    <3>11. RevKnown(p)'
      BY <1>1, <3>1, <3>8, <3>10 DEF RevKnown, revOf, e
    <3>12. SendsChanges(p)'
      BY <3>6, <3>7, <3>8, <3>10 DEF SendsChanges
    <3> QED
      BY <1>1, <3>1, <3>8, <3>9, <3>10, <3>11, <3>12 DEF PushPlanned, base, app
  <2> QED
    BY <1>1, <1>3, <1>5, <2>1, <2>2, <2>3, PushGoesOn DEF app, history
<1> QED
  BY <1>3, <1>6, <1>7
LEMMA PushSendKeeps ==
  ASSUME IInv, PushSend
  PROVE  IInv'
<1> DEFINE accepted == {p \in DOMAIN op.plan : op.plan[p].rev = revOf(bound, p)}
           vclock(p) == VC!incrementVC(IF op.plan[p].base = None THEN clock(0, 0)
                                       ELSE op.plan[p].base.vclock, "me")
           sent(p)  == [content |-> op.plan[p].content, sent |-> op.plan[p].sent, vclock |-> vclock(p)]
           new(p) == [vclock |-> vclock(p), content |-> op.plan[p].content, seq |-> server[bound].seq + 1]
           plan == [p \in accepted |-> sent(p)]
<1>1. /\ op.kind = "push" /\ op.step = "send"
      /\ server' = [server EXCEPT
            ![bound].seq  = @ + IF accepted = {} THEN 0 ELSE 1,
            ![bound].docs = [p \in Path |-> IF p \in accepted
                               THEN [vclock |-> sent(p).vclock, content |-> sent(p).content,
                                     seq |-> server[bound].seq + 1]
                               ELSE @[p]]]
      /\ op' = NoOp \/ op' = [op EXCEPT !.step = "record", !.todo = accepted, !.plan = plan]
      /\ UNCHANGED <<store, settings, app, history>> /\ acts' \in Nat /\ failures' \in Nat
  BY Parts, Counted DEF PushSend
<1>2. /\ DOMAIN server = DB /\ DOMAIN server[bound] = ServerFields /\ bound \in DB
      /\ DOMAIN server[bound].docs = Path
      /\ server[bound].seq \in Nat
  BY Parts DEF ServerShape
<1>3. \A p \in accepted :
        /\ p \in DOMAIN op.plan /\ p \in Path /\ PushPlanned(p) /\ SendsChanges(p)
        /\ op.plan[p] \in PushEntry(p) /\ disk[p] # NoFile
  BY <1>1, Parts DEF PushHolds, PushPlanned, OpTyped
<1>4. \A p \in accepted : vclock(p) \in [{"me", "peer"} -> Nat]
  <2> SUFFICES ASSUME NEW p \in accepted PROVE vclock(p) \in [{"me", "peer"} -> Nat]
    OBVIOUS
  <2>1. p \in Path /\ op.plan[p].base \in Doc(p) \cup {None}
    BY <1>3 DEF PushEntry
  <2>2. (IF op.plan[p].base = None THEN clock(0, 0) ELSE op.plan[p].base.vclock) \in [{"me", "peer"} -> Nat]
    BY <2>1, Versions, Clocks
  <2> QED
    BY <2>2, Clocks
<1> HIDE DEF vclock
<1>5. \A p \in accepted : new(p) \in Uploaded(p) /\ new(p).seq = server[bound].seq + 1
  BY <1>2, <1>3, <1>4 DEF Uploaded, PushEntry
<1>6. /\ DOMAIN server' = DB /\ DOMAIN server'[bound] = ServerFields
      /\ server'[bound].root = server[bound].root /\ server'[bound].made = server[bound].made
      /\ server'[bound].seq = server[bound].seq + IF accepted = {} THEN 0 ELSE 1
      /\ DOMAIN server'[bound].docs = Path
      /\ \A p \in Path : server'[bound].docs[p] = IF p \in accepted THEN new(p) ELSE server[bound].docs[p]
      /\ \A d \in DB \ {bound} : server'[d] = server[d]
  BY <1>1, <1>2 DEF ServerFields
<1> HIDE DEF new
<1>7. ServerShape'
  <2>1. \A p \in Path : server'[bound].docs[p] # None => server'[bound].docs[p].seq <= server'[bound].seq
    <3>1. \A p \in Path : server[bound].docs[p] # None =>
            server[bound].docs[p].seq \in Nat /\ server[bound].docs[p].seq <= server[bound].seq
      BY Parts, Versions DEF ServerShape, TypeOK
    <3>2. ASSUME NEW p \in Path, server'[bound].docs[p] # None
          PROVE  server'[bound].docs[p].seq <= server'[bound].seq
      <4>1. CASE p \in accepted
        BY <1>2, <1>5, <1>6, <4>1
      <4>2. CASE p \notin accepted
        BY <1>2, <1>6, <3>1, <3>2, <4>2
      <4> QED
        BY <4>1, <4>2
    <3> QED
      BY <3>2
  <2>2. /\ DOMAIN server'[bound] = ServerFields /\ DOMAIN server'[bound].docs = Path
        /\ server'[bound].made \in Nat \ {0} /\ server'[bound].seq \in Nat /\ server'[bound].root \in Nat
    BY <1>2, <1>6, Parts DEF ServerShape
  <2> SUFFICES ASSUME NEW d \in DB
               PROVE  /\ DOMAIN server'[d] = ServerFields
                      /\ DOMAIN server'[d].docs = Path
                      /\ server'[d].made \in Nat \ {0} /\ server'[d].seq \in Nat
                      /\ server'[d].root \in Nat
                      /\ \A p \in Path : server'[d].docs[p] # None
                                         => server'[d].docs[p].seq <= server'[d].seq
    BY <1>6 DEF ServerShape
  <2>3. CASE d = bound
    BY <2>1, <2>2, <2>3
  <2>4. CASE d # bound
    BY <1>6, <2>4, Parts DEF ServerShape
  <2> QED
    BY <2>3, <2>4
<1>8. \A d \in DB : /\ server'[d].root \in 0..server'[d].made /\ server'[d].made <= MaxRoots
                    /\ server[d].made <= server'[d].made
                    /\ \A p \in Path : server'[d].docs[p] \in Uploaded(p) \cup {None}
  BY <1>2, <1>5, <1>6, Parts DEF TypeOK, ServerShape
<1>9. TypeOK' /\ Shapes'
  BY <1>1, <1>7, <1>8, ServerTypes
<1>10. store[bound].migrated /\ store[bound].current /\ ~op.wrote /\ op.step # "settle"
  BY <1>1, Parts DEF PushHolds, AppFollows, Pulls
<1>11. LegacyHolds'
  <2>1. \A d \in DB : server'[d].root = 1 /\ ~store[d].migrated =>
                        server[d].root = 1 /\ (LegacyServer(d) => LegacyServer(d)')
    BY <1>6, <1>10 DEF LegacyServer
  <2> QED
    BY <1>1, <2>1, LegacyServerMoves, Parts DEF app, history
<1>12. ASSUME op'.kind \notin Builds \cup Pulls, op'.step \notin {"mark", "settle"}, ~op'.wrote,
              OpTyped', PushHolds'
       PROVE  IInv'
  <2>1. AppFollows'
    BY <1>1, <1>10, <1>12, AppStays, Parts DEF app, history
  <2>2. BaseExplains'
    BY <1>1, <1>10, <1>12, BasesStay, Parts DEF Fresh, settling, app, history, settings
  <2>3. Wiped' /\ PullHolds'
    BY <1>12 DEF Wiped, PullHolds
  <2> QED
    BY <1>9, <1>11, <1>12, <2>1, <2>2, <2>3, Together
<1>13. CASE op' = NoOp
  <2>1. op'.kind \notin Builds \cup Pulls /\ op'.step \notin {"mark", "settle"}
    BY <1>13, Idle DEF Builds, Pulls
  <2> QED
    BY <1>12, <1>13, <2>1, Idle
<1>14. CASE op' = [op EXCEPT !.step = "record", !.todo = accepted, !.plan = plan]
  <2>0. DOMAIN plan = accepted /\ \A p \in accepted : plan[p] = sent(p)
    OBVIOUS
  <2> HIDE DEF plan, accepted
  <2>1. /\ DOMAIN op' = Fields /\ op'.kind = "push" /\ op'.step = "record" /\ op'.plan = plan
        /\ op'.todo = accepted /\ op'.deletes = op.deletes /\ op'.root = op.root /\ op'.wrote = op.wrote
    BY <1>1, <1>14, Parts DEF OpTyped, Fields
  <2>2. OpTyped'
    <3>1. DOMAIN op'.plan \subseteq Path /\ op'.todo \subseteq Path
      BY <1>3, <2>0, <2>1
    <3> QED
      BY <1>1, <2>1, <3>1, Parts, PushesTyped
  <2>3. PushHolds'
    <3> SUFFICES ASSUME NEW p \in accepted PROVE PushSent(p)'
      BY <1>1, <1>3, <1>10, <2>0, <2>1 DEF PushHolds, app, settings
    <3> DEFINE e == op.plan[p]
    <3>1. /\ p \in Path /\ e \in PushEntry(p) /\ e.base = base(bound, p)
          /\ (memory[p] # disk[p] => disk[p] = e.local)
          /\ \A k \in keys(p) :
               IF k \in e.sent THEN e.content[k] = e.local[k]
               ELSE e.base # None /\ e.content[k] = e.base.content[k]
      BY <1>3 DEF PushPlanned, SendsChanges
    <3>2. op'.plan[p] = [content |-> e.content, sent |-> e.sent, vclock |-> vclock(p)]
      BY <2>0, <2>1
    <3>3. e.content \in Content(p) /\ e.sent \in SUBSET keys(p)
      BY <3>1 DEF PushEntry
    <3> HIDE DEF e
    <3>4. op'.plan[p] \in [content : Content(p), sent : SUBSET keys(p), vclock : [{"me", "peer"} -> Nat]]
      BY <1>4, <3>2, <3>3
    <3>5. op'.plan[p].content = e.content /\ op'.plan[p].sent = e.sent
      BY <3>2
    <3>6. base(bound, p)' = base(bound, p) /\ memory' = memory /\ disk' = disk
      BY <1>1 DEF base, app, settings
    <3> QED
      BY <3>1, <3>4, <3>5, <3>6 DEF PushSent
  <2>4. op'.kind \notin Builds \cup Pulls /\ op'.step \notin {"mark", "settle"} /\ ~op'.wrote
    BY <1>10, <2>1 DEF Builds, Pulls
  <2> QED
    BY <1>12, <2>2, <2>3, <2>4
<1> QED
  BY <1>1, <1>13, <1>14

LEMMA PushRecordKeeps ==
  ASSUME IInv, NEW p \in Path, PushRecord(p)
  PROVE  IInv'
<1> DEFINE e == op.plan[p]
           v == version(e)
<1>1. /\ op.kind = "push" /\ op.step = "record" /\ p \in op.todo
      /\ store' = [store EXCEPT ![bound].docs[p] = v, ![bound].base[p] = v]
      /\ mine' = [mine EXCEPT ![bound][p] = agreed(@, p, e.content, e.sent)]
      /\ op' = NoOp \/ op' = [op EXCEPT !.todo = @ \ {p}]
      /\ UNCHANGED <<server, settings, app, told>> /\ acts' \in Nat /\ failures' \in Nat
  BY Parts, Counted DEF PushRecord
<1>2. /\ PushSent(p) /\ p \in DOMAIN op.plan /\ disk[p] # NoFile
      /\ store[bound].migrated /\ store[bound].current /\ bound \in DB
      /\ ~op.wrote /\ op.step # "settle"
  BY <1>1, Parts DEF PushHolds, AppFollows, Pulls
<1>3. /\ e \in [content : Content(p), sent : SUBSET keys(p), vclock : [{"me", "peer"} -> Nat]]
      /\ \A k \in keys(p) :
           IF k \in e.sent THEN memory[p] # disk[p] => disk[p][k] = e.content[k]
           ELSE base(bound, p) # None /\ e.content[k] = base(bound, p).content[k]
  BY <1>1, <1>2 DEF PushSent
<1>4. v \in Doc(p) /\ v # None /\ v.content = e.content
  BY <1>3, Versions DEF version, Doc
<1>5. /\ DOMAIN store = DB /\ DOMAIN store[bound] = StoreFields
      /\ DOMAIN store[bound].docs = Path /\ DOMAIN store[bound].base = Path
      /\ DOMAIN mine = DB /\ DOMAIN mine[bound] = Path
  BY <1>2, Parts DEF StoreShape, HistoryShape
<1> HIDE DEF v
<1>6. /\ DOMAIN store' = DB /\ \A d \in DB \ {bound} : store'[d] = store[d]
      /\ DOMAIN store'[bound] = StoreFields
      /\ store'[bound].att = store[bound].att /\ store'[bound].current = store[bound].current
      /\ store'[bound].migrated = store[bound].migrated
      /\ DOMAIN store'[bound].docs = Path /\ DOMAIN store'[bound].base = Path
      /\ store'[bound].docs[p] = v /\ store'[bound].base[p] = v
      /\ \A q \in Path \ {p} : /\ store'[bound].docs[q] = store[bound].docs[q]
                               /\ store'[bound].base[q] = store[bound].base[q]
  BY <1>1, <1>2, <1>5 DEF StoreFields
<1>7. /\ DOMAIN mine' = DB /\ \A d \in DB \ {bound} : mine'[d] = mine[d]
      /\ DOMAIN mine'[bound] = Path /\ \A q \in Path \ {p} : mine'[bound][q] = mine[bound][q]
      /\ mine'[bound][p] = agreed(mine[bound][p], p, e.content, e.sent)
  BY <1>1, <1>2, <1>5
<1>8. /\ DOMAIN mine'[bound][p] = keys(p)
      /\ \A k \in keys(p) :
           mine'[bound][p][k] = IF k \notin e.sent THEN mine[bound][p][k]
                                ELSE IF disk[p][k] # e.content[k] THEN e.content[k] ELSE None
  BY <1>2, <1>7 DEF agreed
<1>9. \A k \in keys(p) : e.content[k] # None
  BY <1>3, Contents
<1> HIDE DEF e
<1>10. TypeOK'
  <2>1. \A d \in DB, q \in Path : {store'[d].docs[q], store'[d].base[q]} \subseteq Doc(q) \cup {None}
    <3> SUFFICES ASSUME NEW d \in DB, NEW q \in Path
                 PROVE  {store'[d].docs[q], store'[d].base[q]} \subseteq Doc(q) \cup {None}
      OBVIOUS
    <3>1. {store[d].docs[q], store[d].base[q]} \subseteq Doc(q) \cup {None}
      BY Parts DEF TypeOK
    <3>2. CASE d = bound /\ q = p
      BY <1>4, <1>6, <3>2
    <3>3. CASE ~(d = bound /\ q = p)
      BY <1>6, <3>1, <3>3
    <3> QED
      BY <3>2, <3>3
  <2>2. \A d \in DB : store'[d].att = store[d].att
    BY <1>6
  <2> QED
    BY <1>1, <2>1, <2>2, Parts DEF TypeOK, settings, app
<1>11. Shapes'
  <2>1. StoreShape'
    BY <1>6, Parts DEF StoreShape
  <2>2. HistoryShape'
    BY <1>1, <1>7, <1>8, Parts DEF HistoryShape
  <2> QED
    BY <1>1, <2>1, <2>2, Parts DEF Shapes, ServerShape, FileShape, settings, app
<1>12. BaseExplains'
  <2>0. \A d \in DB : Fresh(d)' => Fresh(d)
    <3>1. op'.step # "mark"
      BY <1>1, Idle, Parts DEF OpTyped, Fields
    <3> QED
      BY <1>6, <3>1 DEF Fresh
  <2> SUFFICES ASSUME NEW d \in DB, NEW q \in Path, base(d, q)' # None
               PROVE  /\ Fresh(d)' => disk[q] # NoFile
                      /\ store'[d].migrated => store'[d].docs[q] # None
                      /\ Fresh(d)' /\ store'[d].migrated =>
                           \A k \in keys(q) :
                             /\ mine'[d][q][k] # None => disk[q][k] # base(d, q)'.content[k]
                             /\ disk[q][k] # base(d, q)'.content[k]
                                  => mine'[d][q][k] # None \/ k \in told[d][q] \/ settling(d, q)'
    BY <1>1 DEF BaseExplains, app
  <2>1. CASE d = bound /\ q = p
    <3>1. base(d, q)' = v
      BY <1>6, <2>1 DEF base
    <3>2. ASSUME NEW k \in keys(p)
          PROVE  /\ mine'[d][q][k] # None => disk[q][k] # e.content[k]
                 /\ disk[q][k] # e.content[k] => mine'[d][q][k] # None \/ k \in told[d][q]
      <4>1. CASE k \in e.sent
        BY <1>8, <1>9, <2>1, <4>1
      <4>2. CASE k \notin e.sent
        <5>1. base(bound, p) # None /\ e.content[k] = base(bound, p).content[k]
          BY <1>3, <4>2 DEF e
        <5> QED
          BY <1>2, <1>8, <2>1, <4>2, <5>1, Parts DEF BaseExplains, Fresh, settling
      <4> QED
        BY <4>1, <4>2
    <3> QED
      BY <1>2, <1>4, <1>6, <2>1, <3>1, <3>2
  <2>2. CASE ~(d = bound /\ q = p)
    <3>1. /\ base(d, q)' = base(d, q) /\ mine'[d][q] = mine[d][q]
          /\ store'[d].migrated = store[d].migrated /\ store'[d].docs[q] = store[d].docs[q]
      BY <1>6, <1>7, <2>2 DEF base
    <3> QED
      BY <1>2, <2>0, <3>1, Parts DEF BaseExplains, settling
  <2> QED
    BY <2>1, <2>2
<1>13. LegacyHolds'
  <2> SUFFICES ASSUME NEW d \in DB, ~store'[d].migrated
               PROVE  EmptyStore(d)' \/ LegacyStore(d)'
    BY DEF LegacyHolds
  <2>1. d # bound /\ store'[d] = store[d] /\ mine'[d] = mine[d]
    BY <1>2, <1>6, <1>7
  <2>2. CASE EmptyStore(d)
    BY <2>1, <2>2 DEF EmptyStore, base
  <2>3. CASE LegacyStore(d)
    <3>1. disk' = disk /\ memory' = memory /\ told' = told /\ server' = server
      BY <1>1 DEF app
    <3>2. (\A q \in Path : base(d, q)' = base(d, q)) /\ (LegacyServer(d)' <=> LegacyServer(d))
      BY <2>1, <3>1 DEF base, LegacyServer
    <3> QED
      BY <2>1, <2>3, <3>1, <3>2 DEF LegacyStore
  <2> QED
    BY <2>1, <2>2, <2>3, Parts DEF LegacyHolds
<1>14. \A d \in DB, q \in Path : \A k \in keys(q) : differ(q, k) => mine'[d][q][k] = None
  <2> SUFFICES ASSUME NEW d \in DB, NEW q \in Path, NEW k \in keys(q), differ(q, k)
               PROVE  mine'[d][q][k] = None
    OBVIOUS
  <2>1. mine[d][q][k] = None
    BY Parts DEF AppFollows
  <2>2. CASE d = bound /\ q = p
    BY <1>3, <1>8, <2>1, <2>2 DEF differ, e
  <2>3. CASE ~(d = bound /\ q = p)
    BY <1>7, <2>1, <2>3
  <2> QED
    BY <2>2, <2>3
<1>15. ASSUME op'.kind \notin Pulls, op'.step # "settle", ~op'.wrote
       PROVE  AppFollows'
  <2>1. \A q \in Path : \A k \in keys(q) : differ(q, k)' <=> differ(q, k)
    BY <1>1 DEF differ, app
  <2>2. ~reloading' /\ ~unreloaded' => memory' = disk'
    BY <1>1, <1>2, Parts DEF AppFollows, app
  <2> QED
    BY <1>14, <1>15, <2>1, <2>2 DEF AppFollows
<1>16. CASE op' = NoOp
  <2>1. op'.kind \notin Pulls
    BY <1>16, Idle DEF Pulls
  <2> QED
    BY <1>10, <1>11, <1>12, <1>13, <1>15, <1>16, <2>1, Idle, Together
<1>17. CASE op' = [op EXCEPT !.todo = @ \ {p}]
  <2>1. /\ DOMAIN op' = Fields /\ op'.kind = "push" /\ op'.step = "record" /\ op'.plan = op.plan
        /\ op'.todo = op.todo \ {p} /\ op'.deletes = op.deletes /\ op'.root = op.root
        /\ op'.wrote = op.wrote
    BY <1>1, <1>17, Parts DEF OpTyped, Fields
  <2>2. OpTyped'
    <3>1. op'.todo \subseteq Path /\ DOMAIN op'.plan \subseteq Path
      BY <2>1, Parts DEF OpTyped
    <3> QED
      BY <1>1, <2>1, <3>1, Parts, PushesTyped
  <2>3. op'.kind \notin Builds \cup Pulls
    BY <2>1 DEF Builds, Pulls
  <2>4. Wiped' /\ PullHolds'
    BY <2>3 DEF Wiped, PullHolds
  <2>5. PushHolds'
    <3> SUFFICES ASSUME NEW q \in DOMAIN op.plan PROVE disk[q] # NoFile /\ PushSent(q)'
      BY <1>1, <1>2, <1>6, <2>1, Parts DEF PushHolds, app, settings
    <3>1. q \in Path /\ PushSent(q) /\ disk[q] # NoFile
      BY <1>1, Parts DEF PushHolds, OpTyped
    <3>2. memory' = memory /\ disk' = disk /\ bound' = bound
      BY <1>1 DEF app, settings
    <3>3. CASE q = p
      BY <2>1, <3>1, <3>2, <3>3 DEF PushSent
    <3>4. CASE q # p
      <4>1. base(bound, q)' = base(bound, q)
        BY <1>6, <3>1, <3>2, <3>4 DEF base
      <4> QED
        BY <2>1, <3>1, <3>2, <4>1 DEF PushSent
    <3> QED
      BY <3>1, <3>3, <3>4
  <2> QED
    BY <1>2, <1>10, <1>11, <1>12, <1>13, <1>15, <2>1, <2>2, <2>3, <2>4, <2>5, Together
<1> QED
  BY <1>1, <1>16, <1>17
-----------------------------------------------------------------------------
(* Pull.                                                                   *)

LEMMA PullsTyped ==
  ASSUME OpTyped, op.kind \in Pulls, DOMAIN op' = Fields, op'.kind = op.kind,
         op'.at = op.at, op'.root = op.root,
         op'.step \in {"copy", "plan", "backup", "stop", "mark", "write", "settle"}
           \/ op'.step = IF op.kind = "share" THEN "release" ELSE "drop",
         op'.todo \subseteq Path, op'.deletes \subseteq Path, DOMAIN op'.plan \subseteq Path,
         op'.step \in {"settle", "drop"} => op'.now \in Path
  PROVE  OpTyped'
<1>1. op'.kind \notin {"none", "push"} \cup Builds
  BY DEF Builds, Pulls
<1> QED
  BY <1>1 DEF OpTyped

LEMMA NoBuildNoPush ==
  ASSUME op'.kind \in Pulls
  PROVE  Wiped' /\ PushHolds'
  BY DEF Wiped, PushHolds, Pulls, Builds

\* The stores of an older build, while an operation uses another one.
LEMMA LegacyOthers ==
  ASSUME LegacyHolds, store'[bound].migrated, UNCHANGED server,
         \A d \in DB \ {bound} :
           /\ store'[d].att = store[d].att /\ store'[d].docs = store[d].docs
           /\ store'[d].base = store[d].base /\ store'[d].migrated = store[d].migrated
           /\ store'[d].current => /\ store[d].current /\ UNCHANGED <<memory, disk>>
                                   /\ mine'[d] = mine[d] /\ told'[d] = told[d]
  PROVE  LegacyHolds'
<1> SUFFICES ASSUME NEW d \in DB, ~store'[d].migrated
             PROVE  EmptyStore(d)' \/ LegacyStore(d)'
  BY DEF LegacyHolds
<1>1. /\ d # bound /\ ~store[d].migrated
      /\ store'[d].att = store[d].att /\ store'[d].docs = store[d].docs
      /\ store'[d].base = store[d].base
      /\ store'[d].current => /\ store[d].current /\ memory' = memory /\ disk' = disk
                              /\ mine'[d] = mine[d] /\ told'[d] = told[d]
  OBVIOUS
<1>2. \A p \in Path : base(d, p)' = base(d, p)
  BY <1>1 DEF base
<1>3. CASE EmptyStore(d)
  BY <1>1, <1>2, <1>3 DEF EmptyStore
<1>4. CASE LegacyStore(d)
  <2>1. LegacyServer(d)' <=> LegacyServer(d)
    BY DEF LegacyServer
  <2> QED
    BY <1>1, <1>2, <1>4, <2>1 DEF LegacyStore
<1> QED
  BY <1>1, <1>3, <1>4 DEF LegacyHolds

LEMMA PullStartKeeps ==
  ASSUME IInv, NEW kind \in Pulls, NEW at, kind = "share" => at \in Positions, PullStart(kind, at)
  PROVE  IInv'
<1>1. /\ unlocked /\ ~reloading /\ ready(bound) /\ store' = [store EXCEPT ![bound] = prepare(bound)]
      /\ op' = [Begin(kind, "copy") EXCEPT !.at = at]
      /\ UNCHANGED <<server, settings, app, history>> /\ acts' \in Nat /\ failures' \in Nat
  BY Parts, Counted DEF PullStart, guarded
<1>2. /\ DOMAIN op' = Fields /\ op'.kind = kind /\ op'.step = "copy" /\ op'.at = at
      /\ op'.todo = {} /\ op'.deletes = {} /\ op'.root = 0 /\ ~op'.wrote
      /\ DOMAIN op'.plan = {}
  BY <1>1 DEF Begin, NoOp, Fields
<1>3. kind \notin Builds \cup {"none", "push"}
  BY DEF Builds, Pulls
<1>4. OpTyped'
  <2>1. op'.todo \subseteq Path /\ op'.deletes \subseteq Path /\ DOMAIN op'.plan \subseteq Path
    BY <1>2
  <2> QED
    BY <1>2, <1>3, <2>1 DEF OpTyped
<1>5. writes(op'.plan) = {} /\ unwritten' = {}
  BY <1>2 DEF writes, unwritten
<1>6. ~unreloaded' => memory' = disk'
  BY <1>1, Parts DEF AppFollows, unlocked, NoOp, app
<1>7. AppFollows'
  <2>1. ~reloading' /\ \A p \in Path : \A k \in keys(p) : differ(p, k)' <=> differ(p, k)
    BY <1>1 DEF differ, app
  <2> QED
    BY <1>1, <1>2, <1>5, <1>6, <2>1, Parts DEF AppFollows, history
<1>8. PullHolds'
  <2>1. store'[bound] = prepare(bound) /\ bound' = bound /\ InUse(bound, prepare(bound))
    BY <1>1, Prepared, Parts DEF StoreShape, settings
  <2>2. store'[bound'].migrated /\ Fresh(bound)'
    BY <2>1 DEF InUse, Fresh
  <2>3. ~drawn'
    BY <1>2 DEF drawn
  <2> QED
    BY <1>2, <1>5, <2>2, <2>3 DEF PullHolds
<1>9. PushHolds'
  BY <1>2, <1>3 DEF PushHolds
<1> QED
  BY <1>1, <1>2, <1>3, <1>4, <1>7, <1>8, <1>9, UseKeeps

LEMMA PullCopyKeeps ==
  ASSUME IInv, PullCopy
  PROVE  IInv'
<1>1. /\ op.kind \in Pulls /\ op.step = "copy"
      /\ UNCHANGED <<server, settings, app, history>> /\ acts' \in Nat /\ failures' \in Nat
      /\ store[bound].migrated /\ Fresh(bound) /\ bound \in DB /\ ~op.wrote
      /\ DOMAIN op.plan = {} /\ op.todo = {} /\ op.deletes = {}
  BY Parts, Counted DEF PullCopy, pulling, Pulls, PullHolds, AppFollows
<1>2. op' = NoOp \/ op' = [op EXCEPT !.reset = TRUE] \/ op' = [op EXCEPT !.step = "plan"] \/ op' = op
  BY DEF PullCopy
<1>3. \A d \in DB : DOMAIN store[d] = StoreFields /\ DOMAIN store[d].docs = Path /\ DOMAIN store[d].base = Path
  BY Parts DEF StoreShape
<1>4. /\ DOMAIN store' = DB /\ \A d \in DB \ {bound} : store'[d] = store[d]
      /\ DOMAIN store'[bound] = StoreFields
      /\ store'[bound].att = store[bound].att /\ store'[bound].base = store[bound].base
      /\ store'[bound].current = store[bound].current
      /\ store'[bound].migrated = store[bound].migrated
      /\ store'[bound].localFirst = store[bound].localFirst
      /\ DOMAIN store'[bound].docs = Path
      /\ \A p \in Path : \/ store'[bound].docs[p] = store[bound].docs[p]
                         \/ /\ server[bound].docs[p] # None
                            /\ store'[bound].docs[p] = version(server[bound].docs[p])
  <2>0. DOMAIN store = DB /\ DOMAIN store[bound] = StoreFields /\ DOMAIN store[bound].docs = Path
    BY <1>1, Parts DEF StoreShape
  <2>1. CASE server[bound].seq < store[bound].cursor
    <3>1. PICK n : store' = [store EXCEPT ![bound].cursor = n]
      BY <2>1 DEF PullCopy
    <3>2. /\ DOMAIN store' = DB /\ \A d \in DB \ {bound} : store'[d] = store[d]
          /\ store'[bound] = [store[bound] EXCEPT !.cursor = n]
      BY <1>1, <2>0, <3>1
    <3>3. /\ DOMAIN store'[bound] = StoreFields /\ store'[bound].docs = store[bound].docs
          /\ store'[bound].att = store[bound].att /\ store'[bound].base = store[bound].base
          /\ store'[bound].current = store[bound].current
          /\ store'[bound].migrated = store[bound].migrated
          /\ store'[bound].localFirst = store[bound].localFirst
      BY <2>0, <3>2 DEF StoreFields
    <3> QED
      BY <2>0, <3>2, <3>3
  <2>2. CASE ~(server[bound].seq < store[bound].cursor)
    <3> DEFINE newer == {p \in Path : /\ server[bound].docs[p] # None
                                      /\ server[bound].docs[p].seq > store[bound].cursor}
    <3> DEFINE docs == [p \in Path |-> IF p \in newer THEN version(server[bound].docs[p])
                                      ELSE store[bound].docs[p]]
    <3>1. store' = [store EXCEPT ![bound].docs = docs, ![bound].cursor = server[bound].seq]
      BY <1>1, <2>0, <2>2 DEF PullCopy
    <3>2. /\ DOMAIN docs = Path
          /\ \A p \in Path : \/ docs[p] = store[bound].docs[p]
                             \/ /\ server[bound].docs[p] # None
                                /\ docs[p] = version(server[bound].docs[p])
      OBVIOUS
    <3> HIDE DEF docs
    <3>3. /\ DOMAIN store' = DB /\ \A d \in DB \ {bound} : store'[d] = store[d]
          /\ DOMAIN store'[bound] = StoreFields /\ store'[bound].docs = docs
          /\ store'[bound].att = store[bound].att /\ store'[bound].base = store[bound].base
          /\ store'[bound].current = store[bound].current
          /\ store'[bound].migrated = store[bound].migrated
          /\ store'[bound].localFirst = store[bound].localFirst
      BY <1>1, <2>0, <3>1 DEF StoreFields
    <3> QED
      BY <3>2, <3>3
  <2> QED
    BY <2>1, <2>2
<1>5. \A p \in Path : /\ store'[bound].docs[p] \in Doc(p) \cup {None}
                      /\ store[bound].docs[p] # None => store'[bound].docs[p] # None
  <2> SUFFICES ASSUME NEW p \in Path
               PROVE  /\ store'[bound].docs[p] \in Doc(p) \cup {None}
                      /\ store[bound].docs[p] # None => store'[bound].docs[p] # None
    OBVIOUS
  <2>1. /\ server[bound].docs[p] \in Uploaded(p) \cup {None}
        /\ store[bound].docs[p] \in Doc(p) \cup {None}
    BY <1>1, Parts DEF TypeOK
  <2>2. server[bound].docs[p] # None => /\ version(server[bound].docs[p]) \in Doc(p)
                                        /\ version(server[bound].docs[p]) # None
    BY <2>1, Versions
  <2> QED
    BY <1>4, <2>1, <2>2
<1>6. TypeOK'
  <2>1. \A d \in DB, p \in Path : {store'[d].docs[p], store'[d].base[p]} \subseteq Doc(p) \cup {None}
    <3> SUFFICES ASSUME NEW d \in DB, NEW p \in Path
                 PROVE  {store'[d].docs[p], store'[d].base[p]} \subseteq Doc(p) \cup {None}
      OBVIOUS
    <3>1. {store[d].docs[p], store[d].base[p]} \subseteq Doc(p) \cup {None}
      BY Parts DEF TypeOK
    <3> QED
      BY <1>4, <1>5, <3>1
  <2>2. \A d \in DB : store'[d].att = store[d].att
    BY <1>4
  <2> QED
    BY <1>1, <2>1, <2>2, Parts DEF TypeOK, settings, app, history
<1>7. Shapes'
  <2>1. StoreShape'
    BY <1>1, <1>3, <1>4, Parts DEF StoreShape
  <2> QED
    BY <1>1, <2>1, Parts DEF Shapes, ServerShape, FileShape, HistoryShape, settings, app, history
<1>8. op'.step \notin {"mark", "settle"}
  BY <1>1, <1>2, Idle, Parts DEF OpTyped, Fields
<1>9. BaseExplains'
  <2>1. \A d \in DB : /\ (Fresh(d)' => Fresh(d)) /\ store'[d].migrated = store[d].migrated
                      /\ store'[d].base = store[d].base
    BY <1>4, <1>8 DEF Fresh
  <2>2. \A d \in DB, p \in Path : store[d].docs[p] # None => store'[d].docs[p] # None
    BY <1>4, <1>5
  <2>3. UNCHANGED <<disk, mine, told>> /\ \A d \in DB, p \in Path : ~settling(d, p)
    BY <1>1 DEF settling, app, history
  <2> QED
    BY <2>1, <2>2, <2>3, Parts DEF BaseExplains, base
<1>10. LegacyHolds'
  BY <1>1, <1>4, LegacyOthers, Parts DEF app, history
<1>11. CASE op' = NoOp
  <2>1. op'.kind \notin Pulls
    BY <1>11, Idle DEF Pulls
  <2>2. AppFollows'
    BY <1>1, <1>8, <1>11, <2>1, Idle, AppStays, Parts DEF app, history
  <2> QED
    BY <1>6, <1>7, <1>9, <1>10, <1>11, <2>2, Idle, Together
<1>12. CASE op' # NoOp
  <2>1. /\ DOMAIN op' = Fields /\ op'.kind = op.kind /\ op'.step \in {"copy", "plan"}
        /\ op'.plan = op.plan /\ op'.todo = {} /\ op'.deletes = {} /\ op'.at = op.at
        /\ op'.root = op.root /\ op'.wrote = op.wrote
    BY <1>1, <1>2, <1>12, Parts DEF OpTyped, Fields
  <2>2. OpTyped'
    <3>1. op'.todo \subseteq Path /\ op'.deletes \subseteq Path /\ DOMAIN op'.plan \subseteq Path
      BY <1>1, <2>1
    <3> QED
      BY <1>1, <2>1, <3>1, PullsTyped, Parts
  <2>3. writes(op'.plan) = {} /\ unwritten' = {} /\ DOMAIN op'.plan = {}
    BY <1>1, <2>1 DEF writes, unwritten
  <2>4. AppFollows'
    <3>1. \A p \in Path : \A k \in keys(p) : differ(p, k)' <=> differ(p, k)
      BY <1>1 DEF differ, app
    <3> QED
      BY <1>1, <2>1, <2>3, <3>1, Parts DEF AppFollows, app, history
  <2>5. PullHolds'
    <3>1. store'[bound'].migrated /\ Fresh(bound)'
      BY <1>1, <1>4 DEF Fresh, settings
    <3>2. ~drawn'
      BY <2>1 DEF drawn
    <3> QED
      BY <2>1, <2>3, <3>1, <3>2 DEF PullHolds
  <2> QED
    BY <1>1, <1>6, <1>7, <1>9, <1>10, <2>1, <2>2, <2>4, <2>5, NoBuildNoPush, Together
<1> QED
  BY <1>11, <1>12
\* What a merge makes of the disk, key by key.
LEMMA Decided ==
  ASSUME NEW p \in Path, NEW b \in Doc(p) \cup {None}, NEW local \in Content(p),
         NEW doc \in Content(p), NEW localFirst, NEW own, NEW taken
  PROVE  LET r == decidePull(contentOf(b), local, doc, localFirst, own, taken)
         IN /\ r.content \in Content(p) /\ r.conflicts \subseteq keys(p)
            /\ \A k \in keys(p) :
                 /\ r.content[k] # doc[k] =>
                      \/ k \in own \/ k \in r.conflicts
                      \/ b # None /\ b.content[k] # local[k]
                      \/ b = None /\ doc[k] = Missing /\ local[k] # Missing
                 /\ r.content[k] # local[k] =>
                      \/ k \in taken
                      \/ /\ k \notin own
                         /\ IF b # None THEN b.content[k] = local[k]
                            ELSE ~localFirst \/ local[k] = Missing
<1>1. /\ DOMAIN local = keys(p) /\ DOMAIN doc = keys(p) /\ local # NoFile
      /\ \A k \in keys(p) : local[k] \in Values(p) /\ doc[k] \in Values(p)
  BY Contents
<1> DEFINE c == contentOf(b)
           m == mergeJson(c, local, doc, localFirst)
           r == decidePull(c, local, doc, localFirst, own, taken)
<1>2. /\ b = None => c = None
      /\ b # None => c = b.content /\ c # None
  BY Versions, Contents DEF contentOf
<1> HIDE DEF c
<1>3. /\ DOMAIN m.value = keys(p) /\ m.conflicts \subseteq keys(p)
      /\ \A k \in keys(p) :
           m.value[k] = IF c = None
                        THEN IF local[k] = Missing \/ (doc[k] # Missing /\ ~localFirst)
                             THEN doc[k] ELSE local[k]
                        ELSE IF c[k] = local[k] THEN doc[k] ELSE local[k]
      /\ c = None => m.conflicts = {k \in keys(p) : /\ localFirst /\ local[k] # doc[k]
                                                    /\ local[k] # Missing /\ doc[k] # Missing}
  BY <1>1 DEF mergeJson, merge2, merge3, conflicts2, conflicts3
<1> HIDE DEF m
<1>4. /\ r.content = pinPointers(pinPointers(m.value, local, own \ taken), doc, taken)
      /\ r.conflicts = m.conflicts \ ((own \ taken) \cup taken)
  BY <1>1 DEF decidePull, m
<1> HIDE DEF r
<1>5. /\ r.content = [k \in keys(p) |-> IF k \in taken THEN doc[k]
                                        ELSE IF k \in own THEN local[k] ELSE m.value[k]]
      /\ r.conflicts = {k \in m.conflicts : k \notin own /\ k \notin taken}
  BY <1>3, <1>4 DEF pinPointers
<1>6. r.content \in Content(p)
  <2>1. \A k \in keys(p) : m.value[k] \in Values(p)
    BY <1>1, <1>3
  <2> QED
    BY <1>1, <1>5, <2>1 DEF Content, Values
<1>7. ASSUME NEW k \in keys(p), r.content[k] # doc[k]
      PROVE  \/ k \in own \/ k \in r.conflicts
             \/ b # None /\ b.content[k] # local[k]
             \/ b = None /\ doc[k] = Missing /\ local[k] # Missing
  BY <1>2, <1>3, <1>5, <1>7
<1>8. ASSUME NEW k \in keys(p), r.content[k] # local[k]
      PROVE  \/ k \in taken
             \/ /\ k \notin own
                /\ IF b # None THEN b.content[k] = local[k]
                   ELSE ~localFirst \/ local[k] = Missing
  BY <1>2, <1>3, <1>5, <1>8
<1>9. r = decidePull(contentOf(b), local, doc, localFirst, own, taken)
  BY DEF r, c
<1> QED
  BY <1>3, <1>5, <1>6, <1>7, <1>8, <1>9

\* A step of a Pull that touches neither stores nor files.
LEMMA PullGoesOn ==
  ASSUME IInv, UNCHANGED <<server, store, disk, memory, reloading, unreloaded, mine, told, bound>>,
         TypeOK', DOMAIN declared' = Path, acts' \in Nat, failures' \in Nat,
         op.kind \in Pulls, op.step # "settle", op'.kind \in Pulls,
         op'.step \notin {"mark", "settle"}, OpTyped', AppFollows', PullHolds'
  PROVE  IInv'
<1>1. Shapes'
  BY ShapesStay DEF IInv
<1>2. BaseExplains' /\ LegacyHolds'
  BY BasesStay, LegacyStays, Parts DEF Fresh, settling
<1> QED
  BY <1>1, <1>2, NoBuildNoPush, Together

\* Before a Pull's first write the app follows the disk as it did.
LEMMA NotYet ==
  ASSUME IInv, UNCHANGED <<memory, disk, mine, reloading, unreloaded>>, op.kind \in Pulls, ~op.wrote,
         op'.kind \in Pulls, ~op'.wrote, op'.step # "settle",
         \/ op'.plan = op.plan /\ unwritten' \subseteq unwritten
         \/ \A p \in DOMAIN op'.plan : op'.plan[p].local = disk[p]
  PROVE  AppFollows'
<1>1. ~reloading
  BY Parts DEF AppFollows
<1>2. \A p \in Path : \A k \in keys(p) : differ(p, k)' <=> differ(p, k)
  BY DEF differ
<1> QED
  BY <1>1, <1>2, Parts DEF AppFollows, writes

(* What is planned for a path. *)
planned(p) ==
  LET s == store[bound]
  IN [shared |-> s.docs[p], based |-> s.base[p] # None, local |-> disk[p],
      content |-> decided(s, p).content,
      kept |-> decided(s, p).conflicts \cup keptAlone(s, p)
                 \cup {k \in keys(p) : mine[bound][p][k] # None} \cup declared[p] \cup told[bound][p]]

LEMMA PlannedPath ==
  ASSUME IInv, op.kind \in Pulls, op.step = "plan",
         NEW p \in candidates(store[bound])
  PROVE  LET s == store[bound]
             e == planned(p)
         IN /\ p \in Path /\ participates(p) /\ s.docs[p] # None /\ e \in PullEntry(p)
            /\ \A k \in keys(p) : e.content[k] # e.shared.content[k] => k \in e.kept
            /\ e.content = e.local => disk[p] # NoFile
            /\ op.kind # "overwrite" /\ e.local # NoFile =>
                 \A k \in keys(p) :
                   e.content[k] # e.local[k] /\ ~(op.kind = "share" /\ op.at = <<p, k>>) =>
                     /\ k \notin declared[p]
                     /\ IF e.based THEN s.base[p] # None /\ s.base[p].content[k] = e.local[k]
                        ELSE p \notin s.localFirst \/ e.local[k] = Missing
<1> DEFINE s == store[bound]
           r == decided(s, p)
           kept == r.conflicts \cup keptAlone(s, p) \cup {k \in keys(p) : mine[bound][p][k] # None}
                     \cup declared[p] \cup told[bound][p]
           e == [shared |-> s.docs[p], based |-> s.base[p] # None, local |-> disk[p],
                 content |-> r.content, kept |-> kept]
<1>0. planned(p) = e
  BY DEF planned
<1>1. /\ p \in Path /\ participates(p) /\ s.docs[p] # None
      /\ bound \in DB /\ s.migrated /\ Fresh(bound)
  BY Parts DEF candidates, participatingSharedDocs, PullHolds
<1>2. /\ s.docs[p] \in Doc(p) /\ s.base[p] \in Doc(p) \cup {None}
      /\ disk[p] \in Content(p) \cup {NoFile} /\ told[bound][p] \subseteq keys(p)
      /\ declared[p] \subseteq IF p \in Keyed THEN Key ELSE {}
  BY <1>1, Parts DEF TypeOK
<1>3. s.docs[p].content \in Content(p)
  BY <1>1, <1>2, Versions
<1>4. declared[p] \subseteq keys(p)
  BY <1>2 DEF keys
<1>5. s.base[p] # None /\ disk[p] # NoFile =>
        \A k \in keys(p) : disk[p][k] # s.base[p].content[k]
                             => mine[bound][p][k] # None \/ k \in told[bound][p]
  BY <1>1, Parts DEF BaseExplains, base, settling
<1> DEFINE own == IF p \in Keyed THEN declared[p] ELSE {}
           taken == IF op.kind = "share" /\ op.at[1] = p THEN {op.at[2]} ELSE {}
<1>6. own = declared[p]
  BY <1>2
<1>7. \A k \in keys(p) : k \in taken => op.kind = "share" /\ op.at = <<p, k>>
  BY Parts DEF OpTyped, Positions
<1>8. CASE op.kind = "overwrite" \/ disk[p] = NoFile
  <2>1. r.content = s.docs[p].content /\ r.conflicts = {}
    BY <1>8 DEF decided, decidePull
  <2>2. keptAlone(s, p) = {}
    BY <1>8 DEF keptAlone
  <2>3. kept \subseteq keys(p)
    BY <1>2, <1>4, <2>1, <2>2
  <2> HIDE DEF kept, r, s
  <2>4. e \in PullEntry(p)
    BY <1>2, <1>3, <2>1, <2>3 DEF PullEntry
  <2>5. r.content = disk[p] => disk[p] # NoFile
    BY <1>1, <1>3, <2>1, Contents
  <2>6. /\ e.shared = s.docs[p] /\ e.content = r.content /\ e.local = disk[p]
    OBVIOUS
  <2> HIDE DEF e
  <2> QED
    BY <1>0, <1>1, <1>8, <2>1, <2>4, <2>5, <2>6 DEF s
<1>9. CASE op.kind # "overwrite" /\ disk[p] # NoFile
  <2>1. r = decidePull(contentOf(s.base[p]), disk[p], s.docs[p].content, p \in s.localFirst, own, taken)
    BY <1>9 DEF decided
  <2>2. disk[p] \in Content(p)
    BY <1>2, <1>9
  <2>3. keptAlone(s, p) = IF s.base[p] # None THEN {}
                          ELSE {k \in keys(p) : s.docs[p].content[k] = Missing /\ disk[p][k] # Missing}
    BY <1>9 DEF keptAlone
  <2> DEFINE first_ == p \in s.localFirst
             sb == s.base[p]
             sc == s.docs[p].content
             dp == disk[p]
  <2> HIDE DEF own, taken, first_, sb, sc, dp
  <2>4. /\ r.content \in Content(p) /\ r.conflicts \subseteq keys(p)
        /\ \A k \in keys(p) :
             /\ r.content[k] # sc[k] =>
                  \/ k \in own \/ k \in r.conflicts
                  \/ sb # None /\ sb.content[k] # dp[k]
                  \/ sb = None /\ sc[k] = Missing /\ dp[k] # Missing
             /\ r.content[k] # dp[k] =>
                  \/ k \in taken
                  \/ /\ k \notin own
                     /\ IF sb # None THEN sb.content[k] = dp[k]
                        ELSE ~first_ \/ dp[k] = Missing
    <3>1. /\ p \in Path /\ sb \in Doc(p) \cup {None} /\ dp \in Content(p) /\ sc \in Content(p)
          /\ r = decidePull(contentOf(sb), dp, sc, first_, own, taken)
      BY <1>1, <1>2, <1>3, <2>1, <2>2 DEF sb, dp, sc, first_
    <3> HIDE DEF r
    <3> QED
      BY ONLY <3>1, Decided
  <2>5. kept \subseteq keys(p)
    <3>1. keptAlone(s, p) \subseteq keys(p)
      BY <2>3
    <3> HIDE DEF r
    <3> QED
      BY <1>2, <1>4, <2>4, <3>1
  <2>6. \A k \in keys(p) : r.content[k] # s.docs[p].content[k] => k \in kept
    <3> SUFFICES ASSUME NEW k \in keys(p), r.content[k] # s.docs[p].content[k]
                 PROVE  k \in kept
      OBVIOUS
    <3>1. \/ k \in declared[p] \/ k \in r.conflicts
          \/ s.base[p] # None /\ s.base[p].content[k] # disk[p][k]
          \/ k \in keptAlone(s, p)
      BY <1>6, <2>3, <2>4 DEF sb, sc, dp
    <3>2. s.base[p] # None /\ s.base[p].content[k] # disk[p][k]
            => mine[bound][p][k] # None \/ k \in told[bound][p]
      BY <1>5, <1>9
    <3> HIDE DEF r, s
    <3> QED
      BY <3>1, <3>2
  <2>7. disk[p] # NoFile
    BY <1>9
  <2> HIDE DEF kept, r, s
  <2>8. e \in PullEntry(p)
    BY <1>2, <2>4, <2>5 DEF PullEntry
  <2>9. /\ e.shared = s.docs[p] /\ e.content = r.content /\ e.local = disk[p] /\ e.kept = kept
        /\ e.based <=> s.base[p] # None
    OBVIOUS
  <2> HIDE DEF e
  <2>10. \A k \in keys(p) :
           r.content[k] # disk[p][k] /\ ~(op.kind = "share" /\ op.at = <<p, k>>) =>
             /\ k \notin declared[p]
             /\ IF s.base[p] # None THEN s.base[p].content[k] = disk[p][k]
                ELSE p \notin s.localFirst \/ disk[p][k] = Missing
    BY <1>6, <1>7, <2>4 DEF sb, dp, first_
  <2>11. /\ \A k \in keys(p) : e.content[k] # e.shared.content[k] => k \in e.kept
         /\ \A k \in keys(p) :
              e.content[k] # e.local[k] /\ ~(op.kind = "share" /\ op.at = <<p, k>>) =>
                /\ k \notin declared[p]
                /\ IF e.based THEN s.base[p] # None /\ s.base[p].content[k] = e.local[k]
                   ELSE p \notin s.localFirst \/ e.local[k] = Missing
    BY <2>6, <2>9, <2>10
  <2> QED
    BY <1>0, <1>1, <2>7, <2>8, <2>11 DEF s
<1> QED
  BY <1>8, <1>9
LEMMA PullPlanKeeps ==
  ASSUME IInv, PullPlan
  PROVE  IInv'
<1> DEFINE s == store[bound]
           extra == planDeletes(s)
<1>1. /\ op.kind \in Pulls /\ op.step = "plan"
      /\ UNCHANGED <<server, store, settings, app, history>> /\ acts' \in Nat /\ failures' \in Nat
      /\ \E missing \in SUBSET candidates(s) :
           LET plan == [p \in candidates(s) \ missing |-> planned(p)]
           IN op' = NoOp
              \/ op' = [op EXCEPT !.plan = plan, !.todo = writes(plan), !.deletes = extra,
                         !.left = missing,
                         !.step = IF writes(plan) \cup extra # {} \/ overwriteAsks(writes(plan) \cup extra)
                                  THEN "backup" ELSE "write"]
  BY Parts, Counted DEF PullPlan, pulling, Pulls, planned
<1>2. ~op.wrote /\ op.step # "settle" /\ store[bound].migrated /\ Fresh(bound) /\ bound \in DB
  BY <1>1, Parts DEF AppFollows, PullHolds
<1>3. TypeOK' /\ DOMAIN declared' = Path
  BY <1>1, Parts, TypesStay DEF settings, app, history, TypeOK, FileShape
<1>4. CASE op' = NoOp
  BY <1>1, <1>2, <1>3, <1>4, Idle, Quiet DEF settings, app, history
<1>5. CASE op' # NoOp
  <2> PICK missing \in SUBSET candidates(s) :
         LET plan == [p \in candidates(s) \ missing |-> planned(p)]
         IN op' = [op EXCEPT !.plan = plan, !.todo = writes(plan), !.deletes = extra,
                    !.left = missing,
                    !.step = IF writes(plan) \cup extra # {} \/ overwriteAsks(writes(plan) \cup extra)
                             THEN "backup" ELSE "write"]
    BY <1>1, <1>5
  <2> DEFINE plan == [p \in candidates(s) \ missing |-> planned(p)]
             step == IF writes(plan) \cup extra # {} \/ overwriteAsks(writes(plan) \cup extra)
                     THEN "backup" ELSE "write"
  <2>1. op' = [op EXCEPT !.plan = plan, !.todo = writes(plan), !.deletes = extra,
                         !.left = missing, !.step = step]
    OBVIOUS
  <2>2. /\ DOMAIN plan \subseteq candidates(s) /\ \A p \in DOMAIN plan : plan[p] = planned(p)
        /\ writes(plan) = {p \in DOMAIN plan : plan[p].content # plan[p].local}
    BY DEF writes
  <2>3. step \in {"backup", "write"} /\ (step = "write" => writes(plan) \cup extra = {})
    OBVIOUS
  <2> HIDE DEF plan, step
  <2>4. \A p \in DOMAIN plan :
          /\ p \in Path /\ participates(p) /\ s.docs[p] # None /\ plan[p] \in PullEntry(p)
          /\ \A k \in keys(p) : plan[p].content[k] # plan[p].shared.content[k] => k \in plan[p].kept
          /\ plan[p].content = plan[p].local => disk[p] # NoFile
          /\ op.kind # "overwrite" /\ plan[p].local # NoFile =>
               \A k \in keys(p) :
                 plan[p].content[k] # plan[p].local[k] /\ ~(op.kind = "share" /\ op.at = <<p, k>>) =>
                   /\ k \notin declared[p]
                   /\ IF plan[p].based THEN s.base[p] # None /\ s.base[p].content[k] = plan[p].local[k]
                      ELSE p \notin s.localFirst \/ plan[p].local[k] = Missing
    <3> SUFFICES ASSUME NEW p \in DOMAIN plan
                 PROVE  /\ p \in Path /\ participates(p) /\ s.docs[p] # None /\ plan[p] \in PullEntry(p)
                        /\ \A k \in keys(p) : plan[p].content[k] # plan[p].shared.content[k]
                                              => k \in plan[p].kept
                        /\ plan[p].content = plan[p].local => disk[p] # NoFile
                        /\ op.kind # "overwrite" /\ plan[p].local # NoFile =>
                             \A k \in keys(p) :
                               plan[p].content[k] # plan[p].local[k]
                               /\ ~(op.kind = "share" /\ op.at = <<p, k>>) =>
                                 /\ k \notin declared[p]
                                 /\ IF plan[p].based
                                    THEN s.base[p] # None /\ s.base[p].content[k] = plan[p].local[k]
                                    ELSE p \notin s.localFirst \/ plan[p].local[k] = Missing
      OBVIOUS
    <3>1. p \in candidates(store[bound]) /\ plan[p] = planned(p)
      BY <2>2
    <3> QED
      BY <1>1, <3>1, PlannedPath
  <2>5. /\ extra \subseteq Path /\ extra \cap DOMAIN plan = {}
        /\ (op.kind # "overwrite" => extra = {})
        /\ \A p \in extra : base(bound, p) = None
    <3>1. extra \subseteq Path /\ (op.kind # "overwrite" => extra = {})
      BY DEF planDeletes, onDisk
    <3>2. \A p \in extra : participates(p) /\ s.docs[p] = None
      BY DEF planDeletes, onDisk, participatingSharedDocs
    <3> HIDE DEF extra
    <3>3. extra \cap DOMAIN plan = {}
      BY <2>4, <3>2
    <3>4. \A p \in extra : base(bound, p) = None
      BY <1>2, <3>1, <3>2, Parts DEF BaseExplains
    <3> QED
      BY <3>1, <3>3, <3>4
  <2> HIDE DEF extra
  <2>6. /\ DOMAIN op' = Fields /\ op'.kind = op.kind /\ op'.step = step /\ op'.plan = plan
        /\ op'.todo = writes(plan) /\ op'.deletes = extra /\ op'.at = op.at
        /\ op'.root = op.root /\ op'.wrote = op.wrote
    BY <1>1, <2>1, Parts DEF OpTyped, Fields
  <2>7. OpTyped'
    <3>0. writes(plan) \subseteq DOMAIN plan
      BY <2>2
    <3>1. op'.todo \subseteq Path /\ op'.deletes \subseteq Path /\ DOMAIN op'.plan \subseteq Path
      <4>1. DOMAIN plan \subseteq Path
        BY <2>4
      <4> QED
        BY <2>5, <2>6, <3>0, <4>1
    <3>2. op'.step \in {"copy", "plan", "backup", "stop", "mark", "write", "settle"}
          /\ op'.step \notin {"settle", "drop"}
      BY <2>3, <2>6
    <3> QED
      BY <1>1, <2>6, <3>1, <3>2, PullsTyped, Parts
  <2>8. AppFollows'
    <3>1. ASSUME NEW p \in DOMAIN op'.plan
          PROVE  op'.plan[p].local = disk[p]
      <4>1. op'.plan[p] = planned(p)
        BY <2>2, <2>6
      <4> QED
        BY <4>1 DEF planned
    <3> QED
      BY <1>1, <1>2, <2>3, <2>6, <3>1, NotYet DEF app, history
  <2>9. PullHolds'
    <3>1. ~drawn' /\ op'.step \notin {"copy", "plan", "settle", "drop"}
      BY <2>3, <2>6 DEF drawn
    <3>2. store'[bound'].migrated /\ Fresh(bound)'
      BY <1>1, <1>2, <2>3, <2>6 DEF Fresh, settings
    <3>3. ASSUME NEW p \in DOMAIN plan PROVE PullPlanned(p)'
      <4>1. op'.plan[p] = plan[p] /\ bound' = bound /\ store' = store /\ disk' = disk
            /\ declared' = declared /\ op'.kind = op.kind /\ op'.at = op.at
        BY <1>1, <2>6 DEF settings, app
      <4>2. p \notin writes(op'.plan) => plan[p].content = plan[p].local
        BY <2>2, <2>6
      <4>3. KeepsReported(p)'
        BY <2>4, <4>1 DEF KeepsReported
      <4>4. op.kind # "overwrite" => TakesOnly(p)'
        <5> SUFFICES ASSUME op.kind # "overwrite", plan[p].local # NoFile, NEW k \in keys(p),
                            plan[p].content[k] # plan[p].local[k],
                            ~(op.kind = "share" /\ op.at = <<p, k>>)
                     PROVE  /\ k \notin declared[p]
                            /\ IF plan[p].based
                               THEN base(bound, p)' # None /\ base(bound, p)'.content[k] = plan[p].local[k]
                               ELSE p \notin store[bound].localFirst \/ plan[p].local[k] = Missing
          BY <4>1 DEF TakesOnly
        <5>1. base(bound, p)' = s.base[p]
          BY <4>1 DEF base
        <5> QED
          BY <2>4, <5>1
      <4> QED
        BY <2>4, <4>1, <4>2, <4>3, <4>4 DEF PullPlanned
    <3>4. /\ op'.kind = op.kind /\ op'.todo = writes(op'.plan) /\ op'.deletes = extra
          /\ op'.plan = plan /\ bound' = bound
          /\ \A p \in extra : base(bound, p)' = None
      BY <1>1, <2>5, <2>6 DEF base, settings
    <3> HIDE DEF s
    <3> QED
      BY <2>5, <3>1, <3>2, <3>3, <3>4 DEF PullHolds
  <2> QED
    BY <1>1, <1>2, <1>3, <2>3, <2>6, <2>7, <2>8, <2>9, PullGoesOn DEF settings, app, history
<1> QED
  BY <1>4, <1>5

LEMMA PullBackupKeeps ==
  ASSUME IInv, PullBackup
  PROVE  IInv'
<1>1. /\ op.kind \in Pulls /\ op.step = "backup"
      /\ op' = [op EXCEPT !.step = IF op.todo \cup op.deletes = {} THEN "write" ELSE "stop"]
      /\ declared' = [p \in Path |-> {}] \/ declared' = declared
      /\ op.kind # "overwrite" => declared' = declared
      /\ UNCHANGED <<server, store, settingUp, bound, off, app, history>>
      /\ acts' \in Nat /\ failures' \in Nat
  BY Parts, Counted DEF PullBackup, pulling, Pulls
<1>2. ~op.wrote /\ op.step # "settle" /\ store[bound].migrated /\ Fresh(bound) /\ bound \in DB
  BY <1>1, Parts DEF AppFollows, PullHolds
<1>3. TypeOK' /\ DOMAIN declared' = Path
  BY <1>1, Parts, TypesStay DEF app, history, TypeOK, FileShape
<1>4. /\ DOMAIN op' = Fields /\ op'.kind = op.kind /\ op'.plan = op.plan /\ op'.now = op.now
      /\ op'.step = IF op.todo \cup op.deletes = {} THEN "write" ELSE "stop"
      /\ op'.todo = op.todo /\ op'.deletes = op.deletes /\ op'.at = op.at
      /\ op'.root = op.root /\ op'.wrote = op.wrote
  BY <1>1, Parts DEF OpTyped, Fields
<1>5. OpTyped'
  <2>1. op'.todo \subseteq Path /\ op'.deletes \subseteq Path /\ DOMAIN op'.plan \subseteq Path
        /\ op'.step \in {"write", "stop"}
    BY <1>4, Parts DEF OpTyped
  <2> QED
    BY <1>1, <1>4, <2>1, PullsTyped, Parts
<1>6. AppFollows'
  <2>1. unwritten' \subseteq unwritten
    BY <1>1, <1>4 DEF unwritten
  <2> QED
    BY <1>1, <1>2, <1>4, <2>1, NotYet DEF app, history
<1>7. PullHolds'
  <2>1. ~drawn' /\ op'.step \notin {"copy", "plan", "settle", "drop", "mark"}
    BY <1>4 DEF drawn
  <2>2. store'[bound'].migrated /\ Fresh(bound)'
    BY <1>1, <1>2, <2>1 DEF Fresh
  <2>3. ASSUME NEW p \in DOMAIN op.plan PROVE PullPlanned(p)'
    <3>1. PullPlanned(p)
      BY <1>1, Parts DEF PullHolds
    <3>2. op'.plan = op.plan /\ op'.kind = op.kind /\ op'.at = op.at /\ op'.todo = op.todo
          /\ bound' = bound /\ store' = store /\ disk' = disk
      BY <1>1, <1>4 DEF app
    <3>3. op.kind # "overwrite" /\ TakesOnly(p) => TakesOnly(p)'
      BY <1>1, <3>2 DEF TakesOnly, base
    <3> QED
      BY <1>2, <3>1, <3>2, <3>3 DEF PullPlanned, KeepsReported, writes, settling
  <2> QED
    BY <1>1, <1>4, <2>1, <2>2, <2>3, Parts DEF PullHolds, writes, base
<1> QED
  BY <1>1, <1>2, <1>3, <1>4, <1>5, <1>6, <1>7, PullGoesOn DEF app, history

\* What a Pull knows of its plan stays, where its store and the files do.
LEMMA PlanStays ==
  ASSUME op.kind \in Pulls, UNCHANGED <<bound, disk, declared>>,
         op'.kind = op.kind, op'.at = op.at, op'.plan = op.plan, op'.todo \subseteq op.todo,
         \A p \in Path : store'[bound].docs[p] # None \/ store[bound].docs[p] = None,
         NEW p \in Path, PullPlanned(p), base(bound, p)' = base(bound, p),
         p \in store'[bound].localFirst => p \in store[bound].localFirst,
         settling(bound, p) => p \notin op'.todo
  PROVE  PullPlanned(p)'
<1>1. op'.kind # "overwrite" /\ p \in op'.todo => TakesOnly(p)'
  BY DEF PullPlanned, TakesOnly
<1> QED
  BY <1>1 DEF PullPlanned, KeepsReported, writes

\* Stores change whether they follow the disk, and nothing else.
LEMMA DrawKeeps ==
  ASSUME IInv, op.kind \in Pulls, op.step \notin {"settle", "drop"}, ~op.wrote,
         UNCHANGED <<server, settings, disk, memory, reloading, unreloaded, mine, told>>,
         acts' \in Nat, failures' \in Nat,
         stopped' \subseteq Stoppable, NEW step \in {"mark", "write"}, NEW stops,
         op' = [op EXCEPT !.step = step, !.stops = stops],
         DOMAIN store' = DB,
         \A d \in DB : /\ DOMAIN store'[d] = StoreFields /\ store'[d].att = store[d].att
                       /\ store'[d].docs = store[d].docs /\ store'[d].base = store[d].base
                       /\ store'[d].migrated = store[d].migrated
                       /\ store'[d].localFirst = store[d].localFirst
                       /\ store'[d].current => Fresh(d),
         store'[bound].current \/ step = "mark",
         \A d \in DB \ {bound} : ~store'[d].current
  PROVE  IInv'
<1>2. /\ DOMAIN store' = DB
      /\ \A d \in DB : /\ DOMAIN store'[d] = StoreFields /\ store'[d].att = store[d].att
                       /\ store'[d].docs = store[d].docs /\ store'[d].base = store[d].base
                       /\ store'[d].migrated = store[d].migrated
                       /\ store'[d].localFirst = store[d].localFirst
                       /\ store'[d].current => Fresh(d)
  OBVIOUS
<1>3. /\ bound \in DB /\ bound' = bound /\ store[bound].migrated /\ Fresh(bound)
      /\ declared' = declared /\ off' = off /\ settingUp' = settingUp
  BY Parts DEF PullHolds, settings
<1>4. /\ DOMAIN op' = Fields /\ op'.kind = op.kind /\ op'.step = step /\ op'.plan = op.plan
      /\ op'.todo = op.todo /\ op'.deletes = op.deletes /\ op'.at = op.at
      /\ op'.root = op.root /\ op'.wrote = op.wrote
  BY Parts DEF OpTyped, Fields
<1>5. TypeOK'
  <2>1. \A d \in DB, p \in Path : {store'[d].docs[p], store'[d].base[p]} \subseteq Doc(p) \cup {None}
    BY <1>2, Parts DEF TypeOK
  <2> QED
    BY <1>2, <1>3, <2>1, Parts DEF TypeOK
<1>6. Shapes'
  <2>1. StoreShape'
    BY <1>2, Parts DEF StoreShape
  <2> QED
    BY <1>3, <2>1, Parts DEF Shapes, ServerShape, FileShape, HistoryShape
<1>7. OpTyped'
  <2>1. op'.todo \subseteq Path /\ op'.deletes \subseteq Path /\ DOMAIN op'.plan \subseteq Path
        /\ op'.step \in {"write", "mark"}
    BY <1>4, Parts DEF OpTyped
  <2> QED
    BY <1>4, <2>1, PullsTyped, Parts
<1>8. AppFollows'
  <2>1. unwritten' \subseteq unwritten
    BY <1>4 DEF unwritten
  <2> QED
    BY <1>4, <2>1, NotYet
<1>9. BaseExplains'
  <2>1. \A d \in DB : Fresh(d)' => Fresh(d)
    BY <1>2, <1>3, <1>4 DEF Fresh
  <2>2. \A d \in DB, p \in Path : base(d, p)' = base(d, p) /\ ~settling(d, p)
    BY <1>2 DEF base, settling
  <2> QED
    BY <1>2, <2>1, <2>2, Parts DEF BaseExplains
<1>10. LegacyHolds'
  BY <1>2, <1>3, LegacyOthers, Parts
<1>11. PullHolds'
  <2>1. store'[bound'].migrated /\ Fresh(bound)' /\ op'.step \notin {"copy", "plan", "settle", "drop"}
    BY <1>2, <1>3, <1>4 DEF Fresh
  <2>2. \A d \in DB \ {bound} : ~store'[d].current
    BY <1>2
  <2>3. \A p \in Path : base(bound, p)' = base(bound, p) /\ ~settling(bound, p)
    BY <1>2, <1>3 DEF base, settling
  <2>4. \A p \in DOMAIN op.plan : PullPlanned(p)'
    <3> SUFFICES ASSUME NEW p \in DOMAIN op.plan PROVE PullPlanned(p)'
      OBVIOUS
    <3>1. p \in Path /\ PullPlanned(p)
      BY Parts DEF PullHolds, OpTyped
    <3>2. \A q \in Path : store'[bound].docs[q] # None \/ store[bound].docs[q] = None
      BY <1>2, <1>3
    <3> QED
      BY <1>2, <1>3, <1>4, <2>3, <3>1, <3>2, PlanStays
  <2>5. op.todo \subseteq writes(op.plan) /\ op.deletes \cap DOMAIN op.plan = {}
        /\ (op.kind # "overwrite" => op.deletes = {}) /\ op.deletes \subseteq Path
        /\ \A p \in op.deletes : base(bound, p) = None
    BY Parts DEF PullHolds, OpTyped
  <2>6. writes(op.plan)' = writes(op.plan)
    BY <1>4 DEF writes
  <2> QED
    BY <1>3, <1>4, <2>1, <2>2, <2>3, <2>4, <2>5, <2>6 DEF PullHolds
<1> QED
  BY <1>4, <1>5, <1>6, <1>7, <1>8, <1>9, <1>10, <1>11, NoBuildNoPush, Together

LEMMA PullStopKeeps ==
  ASSUME IInv, PullStop
  PROVE  IInv'
<1>1. /\ op.kind \in Pulls /\ op.step = "stop"
      /\ op' = [op EXCEPT !.step = "mark", !.stops = (op.todo \cup op.deletes) \cap Stoppable # {}]
      /\ stopped' = stopped \cup ((op.todo \cup op.deletes) \cap Stoppable)
      /\ store' = [d \in DB |-> [store[d] EXCEPT !.current = FALSE]]
      /\ UNCHANGED <<server, settings, disk, memory, reloading, unreloaded, mine, told>>
      /\ acts' \in Nat /\ failures' \in Nat
  BY Parts, Counted DEF PullStop, pulling, Pulls, history
<1>2. ~op.wrote /\ stopped' \subseteq Stoppable
  BY <1>1, Parts DEF AppFollows, TypeOK
<1>3. DOMAIN store' = DB /\ \A d \in DB :
        /\ DOMAIN store'[d] = StoreFields /\ store'[d].att = store[d].att
        /\ store'[d].docs = store[d].docs /\ store'[d].base = store[d].base
        /\ store'[d].migrated = store[d].migrated
        /\ store'[d].localFirst = store[d].localFirst /\ ~store'[d].current
  BY <1>1, Parts DEF StoreShape, StoreFields
<1> QED
  BY <1>1, <1>2, <1>3, DrawKeeps

LEMMA PullMarkKeeps ==
  ASSUME IInv, PullMark
  PROVE  IInv'
<1>1. /\ op.kind \in Pulls /\ op.step = "mark"
      /\ op' = [op EXCEPT !.step = "write", !.stops = op.stops]
      /\ store' = [store EXCEPT ![bound].current = TRUE]
      /\ UNCHANGED <<server, settings, disk, memory, stopped, reloading, unreloaded, mine, told>>
      /\ acts' \in Nat /\ failures' \in Nat
  BY Parts, Counted DEF PullMark, pulling, Pulls, app, history, OpTyped, Fields
<1>2. ~op.wrote /\ stopped' \subseteq Stoppable /\ bound \in DB
  BY <1>1, Parts DEF AppFollows, TypeOK
<1>3. \A d \in DB \ {bound} : ~store[d].current
  BY <1>1, Parts DEF PullHolds, drawn
<1>4. DOMAIN store' = DB /\ \A d \in DB :
        /\ DOMAIN store'[d] = StoreFields /\ store'[d].att = store[d].att
        /\ store'[d].docs = store[d].docs /\ store'[d].base = store[d].base
        /\ store'[d].migrated = store[d].migrated
        /\ store'[d].localFirst = store[d].localFirst
        /\ (d = bound => store'[d].current) /\ (d # bound => store'[d] = store[d])
  <2>1. DOMAIN store = DB /\ \A d \in DB : DOMAIN store[d] = StoreFields
    BY Parts DEF StoreShape
  <2> QED
    BY <1>1, <1>2, <2>1 DEF StoreFields
<1>5. \A d \in DB : store'[d].current => Fresh(d)
  BY <1>1, <1>3, <1>4 DEF Fresh
<1> QED
  BY <1>1, <1>2, <1>3, <1>4, <1>5, DrawKeeps
-----------------------------------------------------------------------------
(* A Pull records what the disk has taken in.                              *)

LEMMA Reported ==
  ASSUME IInv, NEW ps \in SUBSET Path, Report(ps), \A p \in ps : disk[p] # NoFile
  PROVE  /\ DOMAIN told' = DB /\ DOMAIN mine' = DB
         /\ \A d \in DB : /\ DOMAIN told'[d] = Path /\ DOMAIN mine'[d] = Path
                          /\ \A p \in Path : DOMAIN mine'[d][p] = keys(p)
         /\ \A d \in DB, p \in Path : d # bound \/ p \notin ps =>
              told'[d][p] = told[d][p] /\ mine'[d][p] = mine[d][p]
         /\ \A d \in DB \ {bound} : told'[d] = told[d] /\ mine'[d] = mine[d]
         /\ \A p \in ps :
              LET e == op.plan[p]
                  c == e.shared.content
              IN /\ told'[bound][p] = {k \in told[bound][p] \cup e.kept : disk[p][k] # c[k]}
                 /\ \A k \in keys(p) :
                      mine'[bound][p][k] =
                        IF mine[bound][p][k] = None /\ disk[p][k] = e.content[k] THEN mine[bound][p][k]
                        ELSE IF disk[p][k] # c[k] THEN c[k] ELSE None
<1>1. /\ DOMAIN told = DB /\ DOMAIN mine = DB /\ bound \in DB
      /\ \A d \in DB : /\ DOMAIN told[d] = Path /\ DOMAIN mine[d] = Path
                       /\ \A p \in Path : DOMAIN mine[d][p] = keys(p)
  BY Parts DEF HistoryShape
<1> DEFINE c(p) == op.plan[p].shared.content
           toldOf(p) == IF p \in ps THEN apart(told[bound][p] \cup op.plan[p].kept, p, c(p))
                        ELSE told[bound][p]
           mineOf(p) == IF p \in ps
                        THEN agreed(mine[bound][p], p, c(p),
                                    {k \in keys(p) : mine[bound][p][k] # None \/ since(p, k)})
                        ELSE mine[bound][p]
<1>2. /\ told' = [told EXCEPT ![bound] = [p \in Path |-> toldOf(p)]]
      /\ mine' = [mine EXCEPT ![bound] = [p \in Path |-> mineOf(p)]]
  BY <1>1 DEF Report
<1>3. \A p \in ps : /\ toldOf(p) = {k \in told[bound][p] \cup op.plan[p].kept : disk[p][k] # c(p)[k]}
                    /\ DOMAIN mineOf(p) = keys(p)
                    /\ \A k \in keys(p) :
                         mineOf(p)[k] =
                           IF mine[bound][p][k] = None /\ disk[p][k] = op.plan[p].content[k]
                           THEN mine[bound][p][k]
                           ELSE IF disk[p][k] # c(p)[k] THEN c(p)[k] ELSE None
  BY DEF apart, agreed, since
<1>4. \A p \in Path : p \notin ps => toldOf(p) = told[bound][p] /\ mineOf(p) = mine[bound][p]
  OBVIOUS
<1> HIDE DEF toldOf, mineOf
<1>5. /\ DOMAIN told' = DB /\ DOMAIN mine' = DB
      /\ \A d \in DB \ {bound} : told'[d] = told[d] /\ mine'[d] = mine[d]
      /\ DOMAIN told'[bound] = Path /\ DOMAIN mine'[bound] = Path
      /\ \A p \in Path : told'[bound][p] = toldOf(p) /\ mine'[bound][p] = mineOf(p)
  BY <1>1, <1>2
<1>6. \A p \in Path : DOMAIN mineOf(p) = keys(p)
  BY <1>1, <1>3, <1>4
<1> QED
  BY <1>1, <1>3, <1>4, <1>5, <1>6

LEMMA SettleKeeps ==
  ASSUME IInv, op.kind \in Pulls, NEW ps \in SUBSET DOMAIN op.plan,
         store' = [store EXCEPT ![bound] = settled(@, ps)], Report(ps),
         UNCHANGED <<server, settings, disk, memory, stopped, unreloaded>>, reloading' \in BOOLEAN,
         acts' \in Nat, failures' \in Nat,
         \A p \in ps : disk[p] # NoFile /\ (memory[p] # disk[p] => disk[p] = op.plan[p].content),
         op.step \in {"write", "settle"}, op.step = "settle" => op.now \in ps,
         op'.step \notin {"mark", "settle"}
  PROVE  /\ TypeOK' /\ Shapes' /\ BaseExplains' /\ LegacyHolds'
         /\ \A d \in DB, p \in Path : \A k \in keys(p) : differ(p, k)' => mine'[d][p][k] = None
         /\ store'[bound].migrated /\ store'[bound].current /\ store'[bound].docs = store[bound].docs
         /\ \A d \in DB \ {bound} : store'[d] = store[d]
         /\ \A p \in Path : /\ p \notin ps => base(bound, p)' = base(bound, p)
                            /\ p \in store'[bound].localFirst => p \in store[bound].localFirst
<1>1. /\ bound \in DB /\ ps \subseteq Path /\ store[bound].migrated /\ store[bound].current
      /\ bound' = bound /\ declared' = declared /\ off' = off /\ settingUp' = settingUp
      /\ \A p \in ps : PullPlanned(p)
  BY Parts DEF PullHolds, Fresh, OpTyped, settings
<1> DEFINE e(p) == op.plan[p]
<1>2. \A p \in ps : /\ e(p).shared \in Doc(p) /\ e(p).shared # None
                    /\ e(p).content \in Content(p) /\ e(p).kept \subseteq keys(p)
                    /\ store[bound].docs[p] # None
                    /\ \A k \in keys(p) : /\ e(p).shared.content[k] # None
                                          /\ e(p).content[k] # e(p).shared.content[k] => k \in e(p).kept
  <2> SUFFICES ASSUME NEW p \in ps
               PROVE  /\ e(p).shared \in Doc(p) /\ e(p).shared # None
                      /\ e(p).content \in Content(p) /\ e(p).kept \subseteq keys(p)
                      /\ store[bound].docs[p] # None
                      /\ \A k \in keys(p) : /\ e(p).shared.content[k] # None
                                            /\ e(p).content[k] # e(p).shared.content[k] => k \in e(p).kept
    OBVIOUS
  <2>1. /\ e(p).shared \in Doc(p) /\ e(p).content \in Content(p) /\ e(p).kept \subseteq keys(p)
        /\ store[bound].docs[p] # None /\ p \in Path
        /\ \A k \in keys(p) : e(p).content[k] # e(p).shared.content[k] => k \in e(p).kept
    BY <1>1 DEF PullPlanned, PullEntry, KeepsReported
  <2>2. e(p).shared # None /\ e(p).shared.content \in Content(p)
    BY <2>1, Versions
  <2> QED
    BY <2>1, <2>2, Contents
<1>3. /\ DOMAIN store = DB /\ DOMAIN store[bound] = StoreFields /\ DOMAIN store[bound].base = Path
      /\ DOMAIN store[bound].docs = Path
  BY <1>1, Parts DEF StoreShape
<1>4. /\ DOMAIN store' = DB /\ \A d \in DB \ {bound} : store'[d] = store[d]
      /\ DOMAIN store'[bound] = StoreFields
      /\ store'[bound].att = store[bound].att /\ store'[bound].docs = store[bound].docs
      /\ store'[bound].current = store[bound].current
      /\ store'[bound].migrated = store[bound].migrated
      /\ DOMAIN store'[bound].base = Path
      /\ \A p \in Path : store'[bound].base[p] = IF p \in ps THEN e(p).shared ELSE store[bound].base[p]
      /\ store'[bound].localFirst = store[bound].localFirst \ ps
  <2> DEFINE b == [p \in Path |-> IF p \in ps THEN op.plan[p].shared ELSE store[bound].base[p]]
             l == store[bound].localFirst \ ps
  <2>1. settled(store[bound], ps) = [store[bound] EXCEPT !.base = b, !.localFirst = l]
    BY <1>3 DEF settled, StoreFields
  <2>2. DOMAIN b = Path /\ \A p \in Path : b[p] = IF p \in ps THEN e(p).shared ELSE store[bound].base[p]
    OBVIOUS
  <2> HIDE DEF b, l
  <2>3. /\ DOMAIN store' = DB /\ \A d \in DB \ {bound} : store'[d] = store[d]
        /\ store'[bound] = [store[bound] EXCEPT !.base = b, !.localFirst = l]
    BY <1>1, <1>3, <2>1
  <2>4. /\ DOMAIN store'[bound] = StoreFields
        /\ store'[bound].att = store[bound].att /\ store'[bound].docs = store[bound].docs
        /\ store'[bound].current = store[bound].current
        /\ store'[bound].migrated = store[bound].migrated
        /\ store'[bound].base = b /\ store'[bound].localFirst = l
    <3> DEFINE s == store[bound]
               t == store'[bound]
    <3>1. DOMAIN s = StoreFields /\ t = [s EXCEPT !.base = b, !.localFirst = l]
      BY <1>3, <2>3
    <3> HIDE DEF s, t
    <3>2. /\ DOMAIN t = StoreFields /\ t.att = s.att /\ t.docs = s.docs /\ t.current = s.current
          /\ t.migrated = s.migrated /\ t.base = b /\ t.localFirst = l
      BY ONLY <3>1 DEF StoreFields
    <3> QED
      BY <3>2 DEF s, t
  <2> QED
    BY <2>2, <2>3, <2>4 DEF l
<1>5. /\ DOMAIN told' = DB /\ DOMAIN mine' = DB
      /\ \A d \in DB : /\ DOMAIN told'[d] = Path /\ DOMAIN mine'[d] = Path
                       /\ \A p \in Path : DOMAIN mine'[d][p] = keys(p)
      /\ \A d \in DB, p \in Path : d # bound \/ p \notin ps =>
           told'[d][p] = told[d][p] /\ mine'[d][p] = mine[d][p]
      /\ \A d \in DB \ {bound} : told'[d] = told[d] /\ mine'[d] = mine[d]
      /\ \A p \in ps :
           /\ told'[bound][p] = {k \in told[bound][p] \cup e(p).kept : disk[p][k] # e(p).shared.content[k]}
           /\ \A k \in keys(p) :
                mine'[bound][p][k] =
                  IF mine[bound][p][k] = None /\ disk[p][k] = e(p).content[k] THEN mine[bound][p][k]
                  ELSE IF disk[p][k] # e(p).shared.content[k] THEN e(p).shared.content[k] ELSE None
  BY <1>1, Reported
<1> HIDE DEF e
<1>6. TypeOK'
  <2>1. \A d \in DB, p \in Path : {store'[d].docs[p], store'[d].base[p]} \subseteq Doc(p) \cup {None}
    <3> SUFFICES ASSUME NEW d \in DB, NEW p \in Path
                 PROVE  {store'[d].docs[p], store'[d].base[p]} \subseteq Doc(p) \cup {None}
      OBVIOUS
    <3>1. {store[d].docs[p], store[d].base[p]} \subseteq Doc(p) \cup {None}
      BY Parts DEF TypeOK
    <3> QED
      BY <1>2, <1>4, <3>1
  <2>2. \A d \in DB : store'[d].att = store[d].att
    BY <1>4
  <2>3. \A d \in DB, p \in Path : told'[d][p] \subseteq keys(p)
    <3> SUFFICES ASSUME NEW d \in DB, NEW p \in Path PROVE told'[d][p] \subseteq keys(p)
      OBVIOUS
    <3>1. told[d][p] \subseteq keys(p)
      BY Parts DEF TypeOK
    <3>2. CASE d = bound /\ p \in ps
      BY <1>2, <1>5, <3>1, <3>2
    <3>3. CASE d # bound \/ p \notin ps
      BY <1>5, <3>1, <3>3
    <3> QED
      BY <3>2, <3>3
  <2> QED
    BY <1>1, <2>1, <2>2, <2>3, Parts DEF TypeOK
<1>7. Shapes'
  <2>1. StoreShape'
    BY <1>3, <1>4, Parts DEF StoreShape
  <2>2. HistoryShape'
    BY <1>5 DEF HistoryShape
  <2> QED
    BY <1>1, <2>1, <2>2, Parts DEF Shapes, ServerShape, FileShape
<1>8. BaseExplains'
  <2> SUFFICES ASSUME NEW d \in DB, NEW p \in Path, base(d, p)' # None
               PROVE  /\ Fresh(d)' => disk[p] # NoFile
                      /\ store'[d].migrated => store'[d].docs[p] # None
                      /\ Fresh(d)' /\ store'[d].migrated =>
                           \A k \in keys(p) :
                             /\ mine'[d][p][k] # None => disk[p][k] # base(d, p)'.content[k]
                             /\ disk[p][k] # base(d, p)'.content[k]
                                  => mine'[d][p][k] # None \/ k \in told'[d][p] \/ settling(d, p)'
    BY DEF BaseExplains
  <2>1. CASE d = bound /\ p \in ps
    <3>1. base(d, p)' = e(p).shared
      BY <1>4, <2>1 DEF base
    <3>2. store'[d].docs[p] # None /\ disk[p] # NoFile
      BY <1>2, <1>4, <2>1
    <3>3. ASSUME NEW k \in keys(p)
          PROVE  /\ mine'[d][p][k] # None => disk[p][k] # e(p).shared.content[k]
                 /\ disk[p][k] # e(p).shared.content[k] => mine'[d][p][k] # None \/ k \in told'[d][p]
      <4>1. CASE mine[bound][p][k] = None /\ disk[p][k] = e(p).content[k]
        BY <1>2, <1>5, <2>1, <4>1
      <4>2. CASE ~(mine[bound][p][k] = None /\ disk[p][k] = e(p).content[k])
        BY <1>2, <1>5, <2>1, <4>2
      <4> QED
        BY <4>1, <4>2
    <3> QED
      BY <3>1, <3>2, <3>3
  <2>2. CASE ~(d = bound /\ p \in ps)
    <3>1. /\ base(d, p)' = base(d, p) /\ mine'[d][p] = mine[d][p] /\ told'[d][p] = told[d][p]
          /\ store'[d].migrated = store[d].migrated /\ store'[d].docs = store[d].docs
      BY <1>4, <1>5, <2>2 DEF base
    <3>2. (Fresh(d)' => Fresh(d)) /\ ~settling(d, p)
      BY <1>4, <2>2 DEF Fresh, settling
    <3> QED
      BY <3>1, <3>2, Parts DEF BaseExplains
  <2> QED
    BY <2>1, <2>2
<1>9. LegacyHolds'
  BY <1>1, <1>4, <1>5, LegacyOthers, Parts
<1>10. \A d \in DB, p \in Path : \A k \in keys(p) : differ(p, k)' => mine'[d][p][k] = None
  <2> SUFFICES ASSUME NEW d \in DB, NEW p \in Path, NEW k \in keys(p), differ(p, k)
               PROVE  mine'[d][p][k] = None
    BY DEF differ
  <2>1. mine[d][p][k] = None
    BY Parts DEF AppFollows
  <2>2. CASE d = bound /\ p \in ps
    <3>1. disk[p] = e(p).content
      BY <2>2 DEF differ, e
    <3> QED
      BY <1>5, <2>1, <2>2, <3>1
  <2>3. CASE ~(d = bound /\ p \in ps)
    BY <1>5, <2>1, <2>3
  <2> QED
    BY <2>2, <2>3
<1>11. /\ \A p \in Path : /\ p \notin ps => base(bound, p)' = base(bound, p)
                          /\ p \in store'[bound].localFirst => p \in store[bound].localFirst
       /\ store'[bound].migrated /\ store'[bound].current
  BY <1>1, <1>4 DEF base
<1> QED
  BY <1>4, <1>6, <1>7, <1>8, <1>9, <1>10, <1>11

\* What is planned for a path stays, where it is not to be written any more.
LEMMA PlanDone ==
  ASSUME UNCHANGED <<bound, disk>>, op'.plan = op.plan, op'.kind = op.kind,
         NEW p \in Path, PullPlanned(p), p \notin op'.todo, store'[bound].docs = store[bound].docs
  PROVE  PullPlanned(p)'
  BY DEF PullPlanned, KeepsReported, writes

LEMMA PullSettleKeeps ==
  ASSUME IInv, PullSettle
  PROVE  IInv'
<1> DEFINE q == op.now
<1>1. /\ op.kind \in Pulls /\ op.step = "settle"
      /\ store' = [store EXCEPT ![bound] = settled(@, {q})] /\ Report({q})
      /\ op' = [op EXCEPT !.step = "write", !.now = None, !.todo = @ \ {q}]
      /\ UNCHANGED <<server, settings, disk, memory, stopped, reloading, unreloaded>>
      /\ acts' \in Nat /\ failures' \in Nat
  BY Parts, Counted DEF PullSettle, pulling, Pulls, app
<1>2. /\ q \in Path /\ q \in op.todo /\ q \in DOMAIN op.plan /\ q \notin op.deletes
      /\ disk[q] # NoFile /\ (memory[q] # disk[q] => disk[q] = op.plan[q].content)
      /\ bound \in DB /\ \A d \in DB \ {bound} : ~store[d].current
      /\ reloading \in BOOLEAN /\ bound' = bound /\ declared' = declared
      /\ op.deletes \cap DOMAIN op.plan = {} /\ op.todo \subseteq writes(op.plan)
  BY <1>1, Parts DEF PullHolds, OpTyped, AppFollows, drawn, writes, TypeOK, settings
<1>3. /\ DOMAIN op' = Fields /\ op'.kind = op.kind /\ op'.step = "write" /\ op'.plan = op.plan
      /\ op'.todo = op.todo \ {q} /\ op'.deletes = op.deletes /\ op'.at = op.at
      /\ op'.root = op.root /\ op'.wrote = op.wrote
  BY <1>1, Parts DEF OpTyped, Fields
<1> HIDE DEF q
<1>4. /\ TypeOK' /\ Shapes' /\ BaseExplains' /\ LegacyHolds'
      /\ \A d \in DB, p \in Path : \A k \in keys(p) : differ(p, k)' => mine'[d][p][k] = None
      /\ store'[bound].migrated /\ store'[bound].current /\ store'[bound].docs = store[bound].docs
      /\ \A d \in DB \ {bound} : store'[d] = store[d]
      /\ \A p \in Path : /\ p \notin {q} => base(bound, p)' = base(bound, p)
                         /\ p \in store'[bound].localFirst => p \in store[bound].localFirst
  <2>1. {q} \in SUBSET DOMAIN op.plan /\ (op.step = "settle" => op.now \in {q}) /\ reloading' \in BOOLEAN
    BY <1>1, <1>2 DEF q
  <2> QED
    BY <1>1, <1>2, <1>3, <2>1, SettleKeeps
<1>5. OpTyped'
  <2>1. op'.todo \subseteq Path /\ op'.deletes \subseteq Path /\ DOMAIN op'.plan \subseteq Path
    BY <1>3, Parts DEF OpTyped
  <2> QED
    BY <1>1, <1>3, <2>1, PullsTyped, Parts
<1>6. AppFollows'
  <2>1. writes(op.plan)' = writes(op.plan)
    BY <1>3 DEF writes
  <2>2. unwritten' \subseteq unwritten
    BY <1>1, <1>2, <1>3 DEF unwritten, q
  <2> QED
    BY <1>1, <1>3, <1>4, <2>1, <2>2, Parts DEF AppFollows
<1>7. PullHolds'
  <2>1. writes(op.plan)' = writes(op.plan)
    BY <1>3 DEF writes
  <2>2. store'[bound'].migrated /\ Fresh(bound)' /\ \A d \in DB \ {bound} : ~store'[d].current
    BY <1>2, <1>4 DEF Fresh
  <2>3. \A p \in op.deletes : base(bound, p) = None /\ base(bound, p)' = None
    BY <1>1, <1>2, <1>4, Parts DEF PullHolds, OpTyped
  <2>4. ASSUME NEW p \in DOMAIN op.plan PROVE PullPlanned(p)'
    <3>1. p \in Path /\ PullPlanned(p)
      BY <1>1, Parts DEF PullHolds, OpTyped
    <3>2. CASE p = q
      BY <1>1, <1>2, <1>3, <1>4, <3>1, <3>2, PlanDone
    <3>3. CASE p # q
      <4>1. /\ base(bound, p)' = base(bound, p)
            /\ p \in store'[bound].localFirst => p \in store[bound].localFirst
            /\ ~settling(bound, p) /\ op'.todo \subseteq op.todo
            /\ \A r \in Path : store'[bound].docs[r] # None \/ store[bound].docs[r] = None
        BY <1>3, <1>4, <3>1, <3>3 DEF settling, q
      <4> QED
        BY <1>1, <1>2, <1>3, <3>1, <4>1, PlanStays
    <3> QED
      BY <3>2, <3>3
  <2>5. op.kind # "overwrite" => op.deletes = {}
    BY <1>1, Parts DEF PullHolds
  <2> QED
    BY <1>2, <1>3, <2>1, <2>2, <2>3, <2>4, <2>5 DEF PullHolds
<1> QED
  BY <1>1, <1>3, <1>4, <1>5, <1>6, <1>7, NoBuildNoPush, Together

LEMMA PullEndKeeps ==
  ASSUME IInv, PullEnd
  PROVE  IInv'
<1> DEFINE rest == {p \in DOMAIN op.plan : p \notin writes(op.plan)}
<1>1. /\ op.kind \in Pulls /\ op.step = "write" /\ op.todo = {} /\ op.deletes = {}
      /\ store' = [store EXCEPT ![bound] = settled(@, rest)] /\ Report(rest)
      /\ IF op.kind = "share"
         THEN op' = [op EXCEPT !.step = "release"] /\ reloading' = reloading
         ELSE op' = NoOp /\ reloading' = reloadAfter
      /\ UNCHANGED <<server, settings, disk, memory, stopped, unreloaded>>
      /\ acts' \in Nat /\ failures' \in Nat
  BY Parts, Counted DEF PullEnd, pulling, Pulls
<1>2. /\ bound \in DB /\ reloading \in BOOLEAN /\ bound' = bound /\ declared' = declared
      /\ ~reloading /\ (~unreloaded /\ ~op.wrote => memory = disk)
      /\ \A p \in rest : disk[p] # NoFile /\ (memory[p] # disk[p] => disk[p] = op.plan[p].content)
  <2>1. \A p \in rest : p \in DOMAIN op.plan /\ p \notin writes(op.plan)
    OBVIOUS
  <2> HIDE DEF rest
  <2> QED
    BY <1>1, <2>1, Parts DEF PullHolds, PullPlanned, AppFollows, TypeOK, settings, writes
<1>3. rest \in SUBSET DOMAIN op.plan /\ reloading' \in BOOLEAN
  <2>1. reloadAfter \in BOOLEAN
    BY DEF reloadAfter
  <2> QED
    BY <1>1, <1>2, <2>1
<1>4. op'.step = IF op.kind = "share" THEN "release" ELSE "idle"
  BY <1>1, Parts DEF NoOp, OpTyped, Fields
<1> HIDE DEF rest
<1>5. /\ TypeOK' /\ Shapes' /\ BaseExplains' /\ LegacyHolds'
      /\ \A d \in DB, p \in Path : \A k \in keys(p) : differ(p, k)' => mine'[d][p][k] = None
      /\ store'[bound].migrated /\ store'[bound].current /\ store'[bound].docs = store[bound].docs
  <2>1. op'.step \notin {"mark", "settle"} /\ op.step \in {"write", "settle"} /\ op.step # "settle"
    BY <1>1, <1>4
  <2> QED
    BY <1>1, <1>2, <1>3, <2>1, SettleKeeps
<1>6. CASE op.kind # "share"
  <2>1. op' = NoOp /\ reloading' = reloadAfter
    BY <1>1, <1>6
  <2>2. /\ OpTyped' /\ Wiped' /\ PushHolds' /\ PullHolds'
        /\ op'.kind = "none" /\ op'.step = "idle" /\ ~op'.wrote
    BY <2>1, Idle
  <2>3. ~reloading' /\ ~unreloaded' => memory' = disk'
    BY <1>1, <1>2, <2>1 DEF reloadAfter
  <2>4. AppFollows'
    BY <1>5, <2>2, <2>3 DEF AppFollows, Pulls
  <2> QED
    BY <1>5, <2>2, <2>4, Together
<1>7. CASE op.kind = "share"
  <2>1. /\ DOMAIN op' = Fields /\ op'.kind = op.kind /\ op'.step = "release" /\ op'.plan = op.plan
        /\ op'.todo = {} /\ op'.deletes = {} /\ op'.at = op.at
        /\ op'.root = op.root /\ op'.wrote = op.wrote /\ reloading' = reloading
    BY <1>1, <1>7, Parts DEF OpTyped, Fields
  <2>2. OpTyped'
    BY <1>1, <1>7, <2>1, PullsTyped, Parts DEF OpTyped
  <2>3. writes(op.plan)' = writes(op.plan) /\ unwritten' = {}
    BY <2>1 DEF writes, unwritten
  <2>4. AppFollows'
    BY <1>1, <1>5, <2>1, <2>3, Parts DEF AppFollows
  <2>5. PullHolds'
    <3>1. store'[bound'].migrated /\ Fresh(bound)' /\ ~drawn'
      BY <1>2, <1>5, <2>1 DEF Fresh, drawn
    <3>2. ASSUME NEW p \in DOMAIN op.plan PROVE PullPlanned(p)'
      <4>1. p \in Path /\ PullPlanned(p)
        BY <1>1, Parts DEF PullHolds, OpTyped
      <4> QED
        BY <1>1, <1>2, <1>5, <2>1, <4>1, PlanDone
    <3> QED
      BY <1>2, <2>1, <3>1, <3>2 DEF PullHolds
  <2> QED
    BY <1>1, <1>5, <2>1, <2>2, <2>4, <2>5, NoBuildNoPush, Together
<1> QED
  BY <1>6, <1>7

LEMMA ReleaseKeeps ==
  ASSUME IInv, releaseDeclaration
  PROVE  IInv'
<1>1. /\ op.kind = "share" /\ op.step = "release" /\ op' = NoOp /\ reloading' = reloadAfter
      /\ declared' = IF op.at[1] \in op.left THEN declared
                     ELSE [declared EXCEPT ![op.at[1]] = @ \ {op.at[2]}]
      /\ UNCHANGED <<server, store, settingUp, bound, off, disk, memory, stopped, unreloaded,
                     mine, told>>
      /\ acts' \in Nat /\ failures' \in Nat
  <2>1. op.kind \in Pulls /\ op.step = "release"
    BY DEF releaseDeclaration, pulling, Pulls
  <2>2. op.kind = "share"
    BY <2>1, Parts DEF OpTyped
  <2> QED
    BY <2>1, <2>2, Parts, Counted DEF releaseDeclaration, pulling, history
<1>2. /\ OpTyped' /\ Wiped' /\ PushHolds' /\ PullHolds'
      /\ op'.kind = "none" /\ op'.step = "idle" /\ ~op'.wrote
  BY <1>1, Idle
<1>3. DOMAIN declared' = Path /\ \A p \in Path : declared'[p] \subseteq declared[p]
  BY <1>1, Parts DEF FileShape
<1>4. ~reloading /\ (~unreloaded /\ ~op.wrote => memory = disk) /\ reloading' \in BOOLEAN
      /\ (~reloading' /\ ~unreloaded' => memory' = disk') /\ unreloaded' \in BOOLEAN
  <2>1. op.kind \in Pulls
    BY <1>1 DEF Pulls
  <2>2. reloadAfter \in BOOLEAN
    BY DEF reloadAfter
  <2>3. ~reloading /\ (~unreloaded /\ ~op.wrote => memory = disk) /\ unreloaded \in BOOLEAN
    BY <2>1, Parts DEF AppFollows, TypeOK
  <2> QED
    BY <1>1, <2>2, <2>3 DEF reloadAfter
<1>5. TypeOK'
  <2>1. \A p \in Path : declared'[p] \subseteq IF p \in Keyed THEN Key ELSE {}
    BY <1>3, Parts DEF TypeOK
  <2>2. off' \subseteq Path /\ stopped' \subseteq Stoppable /\ settingUp' \subseteq DB /\ bound' \in DB
    BY <1>1, Parts DEF TypeOK
  <2> QED
    BY <1>1, <1>4, <2>1, <2>2, Parts, TypesStay
<1>6. Shapes'
  BY <1>1, <1>3, ShapesStay DEF IInv
<1>7. AppFollows'
  <2>1. \A d \in DB, p \in Path : \A k \in keys(p) : differ(p, k)' => mine'[d][p][k] = None
    BY <1>1, Parts DEF AppFollows, differ
  <2> QED
    BY <1>2, <1>4, <2>1 DEF AppFollows, Pulls
<1>8. BaseExplains' /\ LegacyHolds'
  BY <1>1, <1>2, BasesStay, LegacyStays, Parts DEF Fresh, settling
<1> QED
  BY <1>2, <1>5, <1>6, <1>7, <1>8, Together
-----------------------------------------------------------------------------
(* A Pull writes a file, or removes it.                                    *)

LEMMA WrittenKeeps ==
  ASSUME IInv, op.kind \in Pulls, op.step = "write",
         NEW p \in op.todo \cup op.deletes, NEW c \in Content(p) \cup {NoFile},
         disk' = [disk EXCEPT ![p] = c], Forget(c, p),
         UNCHANGED <<server, store, settings, memory, stopped, reloading>>, unreloaded' \in BOOLEAN,
         acts' \in Nat, failures' \in Nat, op'.step # "mark",
         c = NoFile => base(bound, p) = None, c # NoFile => settling(bound, p)'
  PROVE  /\ TypeOK' /\ Shapes' /\ BaseExplains' /\ LegacyHolds'
         /\ \A d \in DB, q \in Path : \A k \in keys(q) : differ(q, k)' => mine'[d][q][k] = None
         /\ disk'[p] = c /\ \A q \in Path : q # p => disk'[q] = disk[q]
         /\ p \in Path /\ store[bound].current /\ \A d \in DB \ {bound} : ~store[d].current
<1>1. /\ p \in Path /\ bound \in DB /\ store[bound].migrated
      /\ \A d \in DB \ {bound} : ~store[d].current
      /\ bound' = bound /\ declared' = declared /\ off' = off /\ settingUp' = settingUp
  BY Parts DEF OpTyped, AppFollows, unwritten, PullHolds, drawn, settings
<1>2. store[bound].current
  BY Parts DEF PullHolds, Fresh
<1>3. DOMAIN disk' = Path /\ disk'[p] = c /\ \A q \in Path : q # p => disk'[q] = disk[q]
  BY <1>1, Parts DEF FileShape
<1> DEFINE r == replaced(c, p)
<1>4. /\ DOMAIN told' = DB /\ DOMAIN mine' = DB
      /\ \A d \in DB : /\ DOMAIN told'[d] = Path /\ DOMAIN mine'[d] = Path
                       /\ \A q \in Path : q # p => told'[d][q] = told[d][q] /\ mine'[d][q] = mine[d][q]
                       /\ told'[d][p] = told[d][p] \ r
                       /\ DOMAIN mine'[d][p] = keys(p)
                       /\ \A k \in keys(p) : mine'[d][p][k] = IF k \in r THEN None ELSE mine[d][p][k]
  BY <1>1, Parts DEF Forget, HistoryShape
<1>5. disk[p] \in Content(p) \cup {NoFile}
  BY <1>1, Parts DEF TypeOK
<1>6. \A k \in keys(p) : k \notin r => /\ disk[p] # NoFile /\ c # NoFile /\ c[k] = disk[p][k]
  BY <1>1, <1>5, Contents DEF replaced, diffJson
<1> HIDE DEF r
<1>7. TypeOK'
  <2>1. \A d \in DB, q \in Path : told'[d][q] \subseteq keys(q)
    BY <1>4, Parts DEF TypeOK
  <2>2. \A q \in Path : disk'[q] \in Content(q) \cup {NoFile}
    BY <1>3, Parts DEF TypeOK
  <2> QED
    BY <1>1, <2>1, <2>2, Parts DEF TypeOK
<1>8. Shapes'
  <2>1. HistoryShape'
    <3>1. \A d \in DB, q \in Path : DOMAIN mine'[d][q] = keys(q)
      BY <1>4, Parts DEF HistoryShape
    <3> QED
      BY <1>4, <3>1 DEF HistoryShape
  <2> QED
    BY <1>1, <1>3, <2>1, Parts DEF Shapes, ServerShape, StoreShape, FileShape
<1>9. BaseExplains'
  <2> SUFFICES ASSUME NEW d \in DB, NEW q \in Path, base(d, q)' # None
               PROVE  /\ Fresh(d)' => disk'[q] # NoFile
                      /\ store[d].migrated => store[d].docs[q] # None
                      /\ Fresh(d)' /\ store[d].migrated =>
                           \A k \in keys(q) :
                             /\ mine'[d][q][k] # None => disk'[q][k] # base(d, q).content[k]
                             /\ disk'[q][k] # base(d, q).content[k]
                                  => mine'[d][q][k] # None \/ k \in told'[d][q] \/ settling(d, q)'
    BY DEF BaseExplains, base
  <2>1. base(d, q) # None /\ (store[d].migrated => store[d].docs[q] # None)
    BY Parts DEF BaseExplains, base
  <2>2. Fresh(d)' => d = bound /\ Fresh(d)
    BY <1>1 DEF Fresh
  <2>3. CASE q = p
    <3>1. Fresh(d)' => d = bound /\ c # NoFile /\ settling(d, q)' /\ disk'[q] = c
      BY <1>1, <1>3, <2>1, <2>2, <2>3
    <3>2. Fresh(d)' /\ store[d].migrated =>
            \A k \in keys(p) : mine[d][p][k] # None => disk[p][k] # base(d, p).content[k]
      BY <1>1, <2>1, <2>2, <2>3, Parts DEF BaseExplains
    <3>3. Fresh(d)' /\ store[d].migrated =>
            \A k \in keys(p) : mine'[d][p][k] # None => c[k] # base(d, p).content[k]
      BY <1>4, <1>6, <3>2
    <3> QED
      BY <2>1, <2>3, <3>1, <3>3
  <2>4. CASE q # p
    <3>1. disk'[q] = disk[q] /\ mine'[d][q] = mine[d][q] /\ told'[d][q] = told[d][q] /\ ~settling(d, q)
      BY <1>3, <1>4, <2>4 DEF settling
    <3> QED
      BY <2>1, <2>2, <3>1, Parts DEF BaseExplains
  <2> QED
    BY <2>3, <2>4
<1>10. LegacyHolds'
  BY <1>1, LegacyOthers, Parts
<1>11. \A d \in DB, q \in Path : \A k \in keys(q) : differ(q, k)' => mine'[d][q][k] = None
  <2> SUFFICES ASSUME NEW d \in DB, NEW q \in Path, NEW k \in keys(q), differ(q, k)'
               PROVE  mine'[d][q][k] = None
    OBVIOUS
  <2>1. CASE q = p
    <3>1. k \notin r => differ(p, k)
      BY <1>1, <1>3, <1>6, <2>1 DEF differ
    <3> QED
      BY <1>1, <1>4, <2>1, <3>1, Parts DEF AppFollows
  <2>2. CASE q # p
    <3>1. differ(q, k)
      BY <1>3, <2>2 DEF differ
    <3> QED
      BY <1>4, <2>2, <3>1, Parts DEF AppFollows
  <2> QED
    BY <2>1, <2>2
<1> QED
  BY <1>1, <1>2, <1>3, <1>7, <1>8, <1>9, <1>10, <1>11

LEMMA PullWriteKeeps ==
  ASSUME IInv, NEW p \in Path, PullWrite(p)
  PROVE  IInv'
<1>1. /\ op.kind \in Pulls /\ op.step = "write" /\ p \in op.todo
      /\ UNCHANGED <<server, store, settings, memory, stopped, reloading, unreloaded>>
      /\ acts' \in Nat /\ failures' \in Nat
      /\ \/ /\ disk' = [disk EXCEPT ![p] = op.plan[p].content] /\ Forget(op.plan[p].content, p)
            /\ op' = [op EXCEPT !.step = "settle", !.now = p, !.wrote = TRUE]
         \/ /\ op' = [op EXCEPT !.todo = @ \ {p}, !.left = @ \cup {p},
                                !.plan = [q \in DOMAIN @ \ {p} |-> @[q]]]
            /\ UNCHANGED <<disk, mine, told>>
  BY Parts, Counted DEF PullWrite, pulling, Pulls, history
<1>2. /\ p \in writes(op.plan) /\ p \in DOMAIN op.plan /\ p \notin op.deletes
      /\ op.todo \subseteq writes(op.plan) /\ op.deletes \cap DOMAIN op.plan = {}
      /\ op.kind # "overwrite" => op.deletes = {}
      /\ PullPlanned(p) /\ \A q \in op.deletes : base(bound, q) = None
      /\ \A q \in DOMAIN op.plan : PullPlanned(q)
      /\ bound' = bound /\ declared' = declared /\ store[bound].migrated
      /\ \A d \in DB \ {bound} : ~store[d].current
      /\ DOMAIN op = Fields /\ op.todo \subseteq Path /\ op.deletes \subseteq Path
      /\ DOMAIN op.plan \subseteq Path
  <2>1. PullHolds /\ OpTyped /\ drawn
    BY <1>1, Parts DEF drawn
  <2>2. p \in writes(op.plan) /\ op.todo \subseteq writes(op.plan) /\ op.deletes \cap DOMAIN op.plan = {}
    BY <1>1, <2>1 DEF PullHolds
  <2>3. p \in DOMAIN op.plan /\ p \notin op.deletes
    BY <2>2 DEF writes
  <2> QED
    BY <1>1, <2>1, <2>2, <2>3 DEF PullHolds, OpTyped, settings
<1>3. op.plan[p].content \in Content(p) /\ op.plan[p].content # NoFile
  BY <1>2, Contents DEF PullPlanned, PullEntry
<1> DEFINE c == op.plan[p].content
<1> HIDE DEF c
<1>4. CASE /\ disk' = [disk EXCEPT ![p] = c] /\ Forget(c, p)
           /\ op' = [op EXCEPT !.step = "settle", !.now = p, !.wrote = TRUE]
  <2>1. /\ DOMAIN op' = Fields /\ op'.kind = op.kind /\ op'.step = "settle" /\ op'.plan = op.plan
        /\ op'.todo = op.todo /\ op'.deletes = op.deletes /\ op'.at = op.at /\ op'.now = p
        /\ op'.root = op.root /\ op'.wrote
    BY <1>2, <1>4 DEF Fields
  <2>2. settling(bound, p)' /\ c \in Content(p) /\ c # NoFile
    BY <1>2, <1>3, <2>1 DEF settling, c
  <2>3. /\ TypeOK' /\ Shapes' /\ BaseExplains' /\ LegacyHolds'
        /\ \A d \in DB, q \in Path : \A k \in keys(q) : differ(q, k)' => mine'[d][q][k] = None
        /\ disk'[p] = c /\ \A q \in Path : q # p => disk'[q] = disk[q]
        /\ p \in Path /\ store[bound].current /\ \A d \in DB \ {bound} : ~store[d].current
    <3>1. p \in op.todo \cup op.deletes /\ c \in Content(p) \cup {NoFile} /\ op'.step # "mark"
      BY <1>1, <2>1, <2>2
    <3> QED
      BY <1>1, <1>4, <2>2, <3>1, WrittenKeeps, Parts DEF TypeOK
  <2>4. OpTyped'
    BY <1>1, <1>2, <2>1, PullsTyped, Parts
  <2>5. writes(op.plan)' = writes(op.plan) /\ unwritten' = (op.todo \cup op.deletes) \ {p}
        /\ unwritten = op.todo \cup op.deletes
    BY <1>1, <2>1 DEF writes, unwritten
  <2>6. AppFollows'
    <3>1. op.kind \in Pulls /\ ~reloading /\ reloading' = reloading /\ memory' = memory
          /\ \A q \in unwritten \cup (DOMAIN op.plan \ writes(op.plan)) :
                q \in DOMAIN op.plan /\ memory[q] # disk[q] => disk[q] = op.plan[q].local
      BY <1>1, Parts DEF AppFollows
    <3>2. \A q \in unwritten' \cup (DOMAIN op'.plan \ writes(op'.plan)) :
            q \in DOMAIN op'.plan /\ memory'[q] # disk'[q] => disk'[q] = op'.plan[q].local
      <4> SUFFICES ASSUME NEW q \in unwritten' \cup (DOMAIN op'.plan \ writes(op'.plan)),
                          q \in DOMAIN op'.plan, memory'[q] # disk'[q]
                   PROVE  disk'[q] = op'.plan[q].local
        OBVIOUS
      <4>1. q \in Path /\ q # p /\ q \in unwritten \cup (DOMAIN op.plan \ writes(op.plan))
        BY <1>2, <2>1, <2>5
      <4> QED
        BY <2>1, <2>3, <3>1, <4>1
    <3>3. disk'[op'.now] = op'.plan[op'.now].content
      BY <2>1, <2>3 DEF c
    <3> QED
      BY <2>1, <2>3, <3>1, <3>2, <3>3 DEF AppFollows
  <2>7. PullHolds'
    <3>1. store'[bound'].migrated /\ Fresh(bound)' /\ \A d \in DB \ {bound} : ~store'[d].current
      BY <1>1, <1>2, <2>3 DEF Fresh
    <3>2. ASSUME NEW q \in DOMAIN op.plan PROVE PullPlanned(q)'
      <4>1. q \in Path /\ PullPlanned(q) /\ store' = store /\ bound' = bound /\ declared' = declared
        BY <1>1, <1>2
      <4>2. ~settling(bound, q)
        BY <1>1 DEF settling
      <4>3. (KeepsReported(q) => KeepsReported(q)') /\ (TakesOnly(q) => TakesOnly(q)')
        BY <2>1, <4>1 DEF KeepsReported, TakesOnly, base
      <4>4. q \notin writes(op.plan) => disk'[q] # NoFile
        BY <1>2, <2>3, <4>1 DEF PullPlanned
      <4> QED
        BY <2>1, <2>5, <4>1, <4>2, <4>3, <4>4 DEF PullPlanned
    <3>3. \A q \in op.deletes : base(bound, q)' = None
      BY <1>1, <1>2 DEF base
    <3> QED
      BY <1>1, <1>2, <2>1, <2>2, <2>3, <2>5, <3>1, <3>2, <3>3 DEF PullHolds
  <2> QED
    BY <1>1, <2>1, <2>3, <2>4, <2>6, <2>7, NoBuildNoPush, Together
<1>5. CASE /\ op' = [op EXCEPT !.todo = @ \ {p}, !.left = @ \cup {p},
                               !.plan = [q \in DOMAIN @ \ {p} |-> @[q]]]
           /\ UNCHANGED <<disk, mine, told>>
  <2>1. /\ DOMAIN op' = Fields /\ op'.kind = op.kind /\ op'.step = "write"
        /\ op'.plan = [q \in DOMAIN op.plan \ {p} |-> op.plan[q]]
        /\ op'.todo = op.todo \ {p} /\ op'.deletes = op.deletes /\ op'.at = op.at
        /\ op'.root = op.root /\ op'.wrote = op.wrote
    BY <1>1, <1>2, <1>5 DEF Fields
  <2>2. /\ DOMAIN op'.plan = DOMAIN op.plan \ {p}
        /\ \A q \in DOMAIN op'.plan : op'.plan[q] = op.plan[q]
        /\ writes(op'.plan) = writes(op.plan) \ {p}
    BY <2>1 DEF writes
  <2>3. OpTyped'
    <3>1. op'.todo \subseteq Path /\ op'.deletes \subseteq Path /\ DOMAIN op'.plan \subseteq Path
      BY <1>2, <2>1, <2>2
    <3> QED
      BY <1>1, <2>1, <3>1, PullsTyped, Parts
  <2>4. AppFollows'
    <3>1. unwritten' \subseteq unwritten
      BY <1>1, <2>1 DEF unwritten
    <3>2. DOMAIN op'.plan \ writes(op'.plan) \subseteq DOMAIN op.plan \ writes(op.plan)
      BY <2>2
    <3>3. \A q \in Path : \A k \in keys(q) : differ(q, k)' <=> differ(q, k)
      BY <1>1, <1>5 DEF differ
    <3>4. \A q \in unwritten' \cup (DOMAIN op'.plan \ writes(op'.plan)) :
            q \in DOMAIN op'.plan /\ memory'[q] # disk'[q] => disk'[q] = op'.plan[q].local
      <4>1. op.kind \in Pulls /\ memory' = memory /\ disk' = disk
        BY <1>1, <1>5
      <4>2. \A q \in unwritten \cup (DOMAIN op.plan \ writes(op.plan)) :
              q \in DOMAIN op.plan /\ memory[q] # disk[q] => disk[q] = op.plan[q].local
        BY <4>1, Parts DEF AppFollows
      <4> QED
        BY <2>2, <3>1, <3>2, <4>1, <4>2
    <3>5. /\ op'.kind \in Pulls /\ op'.step = "write" /\ op'.wrote = op.wrote
          /\ ~reloading /\ reloading' = reloading /\ unreloaded' = unreloaded
          /\ memory' = memory /\ disk' = disk /\ mine' = mine
      BY <1>1, <1>5, <2>1, Parts DEF AppFollows
    <3> QED
      BY <2>1, <3>3, <3>4, <3>5, Parts DEF AppFollows
  <2>5. PullHolds'
    <3>1. /\ store'[bound'].migrated /\ Fresh(bound)' /\ \A d \in DB \ {bound} : ~store'[d].current
      BY <1>1, <1>2, <2>1, Parts DEF Fresh, PullHolds
    <3>2. ASSUME NEW q \in DOMAIN op'.plan PROVE PullPlanned(q)'
      <4>1. /\ q \in DOMAIN op.plan /\ PullPlanned(q) /\ op'.plan[q] = op.plan[q] /\ q # p
            /\ store' = store /\ bound' = bound /\ declared' = declared /\ disk' = disk
        BY <1>1, <1>2, <1>5, <2>2
      <4>2. ~settling(bound, q) /\ (op'.todo \subseteq op.todo)
            /\ (q \notin writes(op'.plan) => q \notin writes(op.plan))
        BY <1>1, <2>1, <2>2, <4>1 DEF settling
      <4>3. (KeepsReported(q) => KeepsReported(q)') /\ (TakesOnly(q) => TakesOnly(q)')
        BY <2>1, <4>1 DEF KeepsReported, TakesOnly, base
      <4> QED
        BY <2>1, <4>1, <4>2, <4>3 DEF PullPlanned
    <3>3. \A q \in op.deletes : base(bound, q)' = None
      BY <1>1, <1>2 DEF base
    <3>4. op'.todo \subseteq writes(op'.plan) /\ op'.deletes \cap DOMAIN op'.plan = {}
      BY <1>2, <2>1, <2>2
    <3> QED
      BY <1>1, <1>2, <2>1, <3>1, <3>2, <3>3, <3>4 DEF PullHolds
  <2>6. TypeOK' /\ DOMAIN declared' = Path
    BY <1>1, <1>5, Parts, TypesStay DEF settings, TypeOK, FileShape
  <2> QED
    BY <1>1, <1>2, <1>5, <2>1, <2>3, <2>4, <2>5, <2>6, PullGoesOn
<1> QED
  BY <1>1, <1>4, <1>5 DEF c

LEMMA PullDeleteKeeps ==
  ASSUME IInv, NEW p \in Path, PullDelete(p)
  PROVE  IInv'
<1>1. /\ op.kind \in Pulls /\ op.step = "write" /\ op.todo = {} /\ p \in op.deletes
      /\ UNCHANGED <<server, store, settings, memory, stopped, reloading>>
      /\ acts' \in Nat /\ failures' \in Nat
      /\ \/ /\ disk' = [disk EXCEPT ![p] = NoFile] /\ Forget(NoFile, p)
            /\ \/ /\ op' = [op EXCEPT !.step = "drop", !.now = p, !.wrote = TRUE]
                  /\ unreloaded' = unreloaded
               \/ op' = [op EXCEPT !.deletes = @ \ {p}] /\ unreloaded' = TRUE
         \/ /\ op' = [op EXCEPT !.deletes = @ \ {p}]
            /\ UNCHANGED <<disk, unreloaded, mine, told>>
  BY Parts, Counted DEF PullDelete, pulling, Pulls, history
<1>2. /\ p \notin DOMAIN op.plan /\ op.deletes \cap DOMAIN op.plan = {}
      /\ op.kind = "overwrite" /\ \A q \in op.deletes : base(bound, q) = None
      /\ \A q \in DOMAIN op.plan : PullPlanned(q)
      /\ bound' = bound /\ declared' = declared /\ store[bound].migrated
      /\ \A d \in DB \ {bound} : ~store[d].current
      /\ DOMAIN op = Fields /\ op.deletes \subseteq Path /\ DOMAIN op.plan \subseteq Path
  <2>1. PullHolds /\ OpTyped /\ drawn
    BY <1>1, Parts DEF drawn
  <2>2. op.deletes \cap DOMAIN op.plan = {} /\ op.kind = "overwrite"
    BY <1>1, <2>1 DEF PullHolds
  <2> QED
    BY <1>1, <2>1, <2>2 DEF PullHolds, OpTyped, settings
<1>3. store'[bound'].migrated /\ \A d \in DB \ {bound} : ~store'[d].current
  BY <1>1, <1>2
<1>4. \A q \in op.deletes : base(bound, q)' = None
  BY <1>1, <1>2 DEF base
<1>5. CASE /\ disk' = [disk EXCEPT ![p] = NoFile] /\ Forget(NoFile, p)
           /\ op' = [op EXCEPT !.step = "drop", !.now = p, !.wrote = TRUE] /\ unreloaded' = unreloaded
  <2>1. /\ DOMAIN op' = Fields /\ op'.kind = op.kind /\ op'.step = "drop" /\ op'.plan = op.plan
        /\ op'.todo = {} /\ op'.deletes = op.deletes /\ op'.at = op.at /\ op'.now = p
        /\ op'.root = op.root /\ op'.wrote
    BY <1>1, <1>2, <1>5 DEF Fields
  <2>2. /\ TypeOK' /\ Shapes' /\ BaseExplains' /\ LegacyHolds'
        /\ \A d \in DB, q \in Path : \A k \in keys(q) : differ(q, k)' => mine'[d][q][k] = None
        /\ disk'[p] = NoFile /\ \A q \in Path : q # p => disk'[q] = disk[q]
        /\ p \in Path /\ store[bound].current /\ \A d \in DB \ {bound} : ~store[d].current
    <3>1. /\ p \in op.todo \cup op.deletes /\ NoFile \in Content(p) \cup {NoFile}
          /\ op'.step # "mark" /\ base(bound, p) = None
      BY <1>1, <1>2, <2>1
    <3> QED
      BY <1>1, <1>5, <3>1, WrittenKeeps, Parts DEF TypeOK
  <2>3. OpTyped'
    <3>1. op.kind # "share"
      BY <1>2
    <3> QED
      BY <1>1, <1>2, <2>1, <3>1, PullsTyped, Parts
  <2>4. writes(op.plan)' = writes(op.plan) /\ unwritten' = op.deletes \ {p}
        /\ unwritten = op.deletes
    BY <1>1, <2>1 DEF writes, unwritten
  <2>5. AppFollows'
    <3>1. op.kind \in Pulls /\ ~reloading /\ reloading' = reloading /\ memory' = memory
          /\ \A q \in unwritten \cup (DOMAIN op.plan \ writes(op.plan)) :
                q \in DOMAIN op.plan /\ memory[q] # disk[q] => disk[q] = op.plan[q].local
      BY <1>1, Parts DEF AppFollows
    <3>2. \A q \in unwritten' \cup (DOMAIN op'.plan \ writes(op'.plan)) :
            q \in DOMAIN op'.plan /\ memory'[q] # disk'[q] => disk'[q] = op'.plan[q].local
      <4> SUFFICES ASSUME NEW q \in unwritten' \cup (DOMAIN op'.plan \ writes(op'.plan)),
                          q \in DOMAIN op'.plan, memory'[q] # disk'[q]
                   PROVE  disk'[q] = op'.plan[q].local
        OBVIOUS
      <4>1. q \in Path /\ q # p /\ q \in unwritten \cup (DOMAIN op.plan \ writes(op.plan))
        BY <1>2, <2>1, <2>4
      <4> QED
        BY <2>1, <2>2, <3>1, <4>1
    <3> QED
      BY <2>1, <2>2, <3>1, <3>2 DEF AppFollows
  <2>6. PullHolds'
    <3>1. Fresh(bound)'
      BY <1>1, <1>2, <2>2 DEF Fresh
    <3>2. ASSUME NEW q \in DOMAIN op.plan PROVE PullPlanned(q)'
      <4>1. q \in Path /\ q # p /\ PullPlanned(q) /\ disk'[q] = disk[q] /\ store' = store /\ bound' = bound
        BY <1>1, <1>2, <2>2
      <4> QED
        BY <1>2, <2>1, <2>4, <4>1 DEF PullPlanned, KeepsReported
    <3> QED
      BY <1>1, <1>2, <1>3, <1>4, <2>1, <2>4, <3>1, <3>2 DEF PullHolds
  <2> QED
    BY <1>1, <2>1, <2>2, <2>3, <2>5, <2>6, NoBuildNoPush, Together
<1>6. CASE op' = [op EXCEPT !.deletes = @ \ {p}] /\ UNCHANGED <<disk, unreloaded, mine, told>>
  <2>1. /\ DOMAIN op' = Fields /\ op'.kind = op.kind /\ op'.step = "write" /\ op'.plan = op.plan
        /\ op'.todo = {} /\ op'.deletes = op.deletes \ {p} /\ op'.at = op.at
        /\ op'.root = op.root /\ op'.wrote = op.wrote
    BY <1>1, <1>2, <1>6 DEF Fields
  <2>2. OpTyped'
    <3>1. op'.deletes \subseteq Path
      BY <1>2, <2>1
    <3> QED
      BY <1>1, <1>2, <2>1, <3>1, PullsTyped, Parts
  <2>3. writes(op.plan)' = writes(op.plan) /\ unwritten' \subseteq unwritten
    BY <1>1, <2>1 DEF writes, unwritten
  <2>4. AppFollows'
    <3>1. \A q \in Path : \A k \in keys(q) : differ(q, k)' <=> differ(q, k)
      BY <1>1, <1>6 DEF differ
    <3> QED
      BY <1>1, <1>6, <2>1, <2>3, <3>1, Parts DEF AppFollows
  <2>5. PullHolds'
    <3>1. Fresh(bound)'
      BY <1>1, <1>2, <2>1, Parts DEF Fresh, PullHolds
    <3>2. ASSUME NEW q \in DOMAIN op.plan PROVE PullPlanned(q)'
      <4>1. q \in Path /\ PullPlanned(q) /\ disk' = disk /\ store' = store /\ bound' = bound
        BY <1>1, <1>2, <1>6
      <4> QED
        BY <1>2, <2>1, <2>3, <4>1 DEF PullPlanned, KeepsReported
    <3> QED
      BY <1>1, <1>2, <1>3, <1>4, <2>1, <2>3, <3>1, <3>2 DEF PullHolds
  <2>6. TypeOK' /\ DOMAIN declared' = Path
    BY <1>1, <1>6, Parts, TypesStay DEF settings, TypeOK, FileShape
  <2> QED
    BY <1>1, <1>2, <1>6, <2>1, <2>2, <2>4, <2>5, <2>6, PullGoesOn
<1>7. CASE /\ disk' = [disk EXCEPT ![p] = NoFile] /\ Forget(NoFile, p)
           /\ op' = [op EXCEPT !.deletes = @ \ {p}] /\ unreloaded' = TRUE
  <2>1. /\ DOMAIN op' = Fields /\ op'.kind = op.kind /\ op'.step = "write" /\ op'.plan = op.plan
        /\ op'.todo = {} /\ op'.deletes = op.deletes \ {p} /\ op'.at = op.at
        /\ op'.root = op.root /\ op'.wrote = op.wrote
    BY <1>1, <1>2, <1>7 DEF Fields
  <2>2. /\ TypeOK' /\ Shapes' /\ BaseExplains' /\ LegacyHolds'
        /\ \A d \in DB, q \in Path : \A k \in keys(q) : differ(q, k)' => mine'[d][q][k] = None
        /\ disk'[p] = NoFile /\ \A q \in Path : q # p => disk'[q] = disk[q]
        /\ p \in Path /\ store[bound].current /\ \A d \in DB \ {bound} : ~store[d].current
    <3>1. /\ p \in op.todo \cup op.deletes /\ NoFile \in Content(p) \cup {NoFile}
          /\ op'.step # "mark" /\ base(bound, p) = None
      BY <1>1, <1>2, <2>1
    <3> QED
      BY <1>1, <1>7, <3>1, WrittenKeeps
  <2>3. OpTyped'
    <3>1. op'.deletes \subseteq Path
      BY <1>2, <2>1
    <3> QED
      BY <1>1, <1>2, <2>1, <3>1, PullsTyped, Parts
  <2>4. writes(op.plan)' = writes(op.plan) /\ unwritten' = op.deletes \ {p}
        /\ unwritten = op.deletes
    BY <1>1, <2>1 DEF writes, unwritten
  <2>5. AppFollows'
    <3>1. op.kind \in Pulls /\ ~reloading /\ reloading' = reloading /\ memory' = memory
          /\ \A q \in unwritten \cup (DOMAIN op.plan \ writes(op.plan)) :
                q \in DOMAIN op.plan /\ memory[q] # disk[q] => disk[q] = op.plan[q].local
      BY <1>1, Parts DEF AppFollows
    <3>2. \A q \in unwritten' \cup (DOMAIN op'.plan \ writes(op'.plan)) :
            q \in DOMAIN op'.plan /\ memory'[q] # disk'[q] => disk'[q] = op'.plan[q].local
      <4> SUFFICES ASSUME NEW q \in unwritten' \cup (DOMAIN op'.plan \ writes(op'.plan)),
                          q \in DOMAIN op'.plan, memory'[q] # disk'[q]
                   PROVE  disk'[q] = op'.plan[q].local
        OBVIOUS
      <4>1. q \in Path /\ q # p /\ q \in unwritten \cup (DOMAIN op.plan \ writes(op.plan))
        BY <1>2, <2>1, <2>4
      <4> QED
        BY <2>1, <2>2, <3>1, <4>1
    <3> QED
      BY <1>1, <1>7, <2>1, <2>2, <3>1, <3>2, Parts DEF AppFollows
  <2>6. PullHolds'
    <3>1. Fresh(bound)'
      BY <1>1, <1>2, <2>2 DEF Fresh
    <3>2. ASSUME NEW q \in DOMAIN op.plan PROVE PullPlanned(q)'
      <4>1. q \in Path /\ q # p /\ PullPlanned(q) /\ disk'[q] = disk[q] /\ store' = store /\ bound' = bound
        BY <1>1, <1>2, <2>2
      <4> QED
        BY <1>2, <2>1, <2>4, <4>1 DEF PullPlanned, KeepsReported
    <3> QED
      BY <1>1, <1>2, <1>3, <1>4, <2>1, <2>4, <3>1, <3>2 DEF PullHolds
  <2> QED
    BY <1>1, <2>1, <2>2, <2>3, <2>5, <2>6, NoBuildNoPush, Together
<1> QED
  BY <1>1, <1>5, <1>6, <1>7

LEMMA PullDropKeeps ==
  ASSUME IInv, PullDrop
  PROVE  IInv'
<1> DEFINE q == op.now
<1>1. /\ op.kind \in Pulls /\ op.step = "drop"
      /\ store' = [store EXCEPT ![bound].base[q] = None, ![bound].localFirst = @ \ {q}]
      /\ op' = [op EXCEPT !.step = "write", !.now = None, !.deletes = @ \ {q}]
      /\ UNCHANGED <<server, settings, disk, memory, stopped, reloading, unreloaded, mine, told>>
      /\ acts' \in Nat /\ failures' \in Nat
  BY Parts, Counted DEF PullDrop, pulling, Pulls, app, history
<1>2. /\ op.kind = "overwrite" /\ q \in op.deletes /\ q \in Path /\ base(bound, q) = None
      /\ bound' = bound /\ declared' = declared /\ store[bound].migrated /\ store[bound].current
      /\ bound \in DB /\ \A d \in DB \ {bound} : ~store[d].current
      /\ op.todo \subseteq writes(op.plan) /\ op.deletes \cap DOMAIN op.plan = {}
      /\ \A r \in op.deletes : base(bound, r) = None
      /\ \A r \in DOMAIN op.plan : PullPlanned(r)
  <2>1. PullHolds /\ OpTyped /\ drawn
    BY <1>1, Parts DEF drawn
  <2>2. q \in op.deletes /\ op.kind = "overwrite"
    BY <1>1, <2>1 DEF PullHolds
  <2> QED
    BY <1>1, <2>1, <2>2, Parts DEF PullHolds, OpTyped, Fresh, settings
<1>3. /\ DOMAIN op' = Fields /\ op'.kind = op.kind /\ op'.step = "write" /\ op'.plan = op.plan
      /\ op'.todo = op.todo /\ op'.deletes = op.deletes \ {q} /\ op'.at = op.at
      /\ op'.root = op.root /\ op'.wrote = op.wrote
  BY <1>1, Parts DEF OpTyped, Fields
<1> HIDE DEF q
<1>4. DOMAIN store' = DB /\ \A d \in DB :
        /\ DOMAIN store'[d] = StoreFields /\ store'[d].att = store[d].att
        /\ store'[d].docs = store[d].docs /\ DOMAIN store'[d].base = Path
        /\ \A r \in Path : store'[d].base[r] = store[d].base[r]
        /\ d # bound => store'[d] = store[d]
        /\ store'[d].migrated = store[d].migrated /\ store'[d].current = store[d].current
        /\ \A r \in Path : r \in store'[d].localFirst => r \in store[d].localFirst
  <2> DEFINE s == store[bound]
             t == store'[bound]
  <2>1. /\ DOMAIN store = DB /\ DOMAIN s = StoreFields /\ DOMAIN s.base = Path /\ s.base[q] = None
        /\ \A d \in DB : DOMAIN store[d] = StoreFields
    BY <1>2, Parts DEF StoreShape, base
  <2>2. /\ DOMAIN store' = DB /\ \A d \in DB \ {bound} : store'[d] = store[d]
        /\ t = [s EXCEPT !.base = [s.base EXCEPT ![q] = None], !.localFirst = s.localFirst \ {q}]
    BY <1>1, <1>2, <2>1 DEF StoreFields
  <2> DEFINE b == [s.base EXCEPT ![q] = None]
  <2>3. DOMAIN b = Path /\ \A r \in Path : b[r] = s.base[r]
    BY <2>1
  <2> HIDE DEF s, t, b
  <2>4. t = [s EXCEPT !.base = b, !.localFirst = s.localFirst \ {q}]
    BY <2>2 DEF b
  <2>5. /\ DOMAIN t = StoreFields /\ t.att = s.att /\ t.docs = s.docs /\ t.current = s.current
        /\ t.migrated = s.migrated /\ t.base = b /\ t.localFirst = s.localFirst \ {q}
    BY ONLY <2>1, <2>4 DEF StoreFields
  <2>6. \A d \in DB : DOMAIN store[d].base = Path
    BY Parts DEF StoreShape
  <2> QED
    BY <2>1, <2>2, <2>3, <2>5, <2>6 DEF s, t
<1>5. \A d \in DB, r \in Path : base(d, r)' = base(d, r) /\ ~settling(d, r) /\ ~settling(d, r)'
  BY <1>1, <1>3, <1>4 DEF base, settling
<1>6. TypeOK'
  <2>1. \A d \in DB, r \in Path : {store'[d].docs[r], store'[d].base[r]} \subseteq Doc(r) \cup {None}
    BY <1>4, Parts DEF TypeOK
  <2> QED
    BY <1>1, <1>4, <2>1, Parts DEF TypeOK, settings
<1>7. Shapes'
  <2>1. StoreShape'
    BY <1>4, Parts DEF StoreShape
  <2> QED
    BY <1>1, <2>1, Parts DEF Shapes, ServerShape, FileShape, HistoryShape, settings
<1>8. OpTyped'
  <2>1. op'.todo \subseteq Path /\ op'.deletes \subseteq Path /\ DOMAIN op'.plan \subseteq Path
    BY <1>3, Parts DEF OpTyped
  <2> QED
    BY <1>1, <1>3, <2>1, PullsTyped, Parts
<1>9. writes(op.plan)' = writes(op.plan) /\ unwritten' \subseteq unwritten
  <2>1. q \notin op.todo
    BY <1>2 DEF writes
  <2> QED
    BY <1>1, <1>3, <2>1 DEF writes, unwritten, q
<1>10. AppFollows'
  <2>1. \A r \in Path : \A k \in keys(r) : differ(r, k)' <=> differ(r, k)
    BY <1>1 DEF differ
  <2> QED
    BY <1>1, <1>3, <1>9, <2>1, Parts DEF AppFollows
<1>11. BaseExplains'
  <2>1. \A d \in DB : Fresh(d)' => Fresh(d)
    BY <1>1, <1>3, <1>4 DEF Fresh
  <2> QED
    BY <1>1, <1>4, <1>5, <2>1, Parts DEF BaseExplains
<1>12. LegacyHolds'
  BY <1>1, <1>2, <1>4, LegacyOthers, Parts
<1>13. PullHolds'
  <2>1. store'[bound'].migrated /\ Fresh(bound)' /\ \A d \in DB \ {bound} : ~store'[d].current
    BY <1>2, <1>4 DEF Fresh
  <2>2. ASSUME NEW r \in DOMAIN op.plan PROVE PullPlanned(r)'
    <3>1. r \in Path /\ PullPlanned(r)
      BY <1>2, Parts DEF OpTyped
    <3>2. /\ \A p \in Path : store'[bound].docs[p] # None \/ store[bound].docs[p] = None
          /\ base(bound, r)' = base(bound, r) /\ ~settling(bound, r)
          /\ r \in store'[bound].localFirst => r \in store[bound].localFirst
      BY <1>2, <1>4, <1>5, <3>1
    <3> QED
      BY <1>1, <1>2, <1>3, <3>1, <3>2, PlanStays
  <2>3. \A r \in op'.deletes : base(bound, r)' = None
    BY <1>2, <1>3, <1>5, Parts DEF OpTyped
  <2> QED
    BY <1>2, <1>3, <1>9, <2>1, <2>2, <2>3 DEF PullHolds
<1> QED
  BY <1>1, <1>3, <1>6, <1>7, <1>8, <1>10, <1>11, <1>12, <1>13, NoBuildNoPush, Together
-----------------------------------------------------------------------------
(* Every step keeps the invariant.                                         *)

LEMMA PullStepKeeps ==
  ASSUME IInv, PullStep
  PROVE  IInv'
<1>1. CASE PullCopy \/ PullPlan \/ PullBackup
  BY <1>1, PullCopyKeeps, PullPlanKeeps, PullBackupKeeps
<1>2. CASE applyPlan
  <2>1. CASE PullStop \/ PullMark \/ PullSettle \/ PullDrop \/ PullEnd
    BY <2>1, PullStopKeeps, PullMarkKeeps, PullSettleKeeps, PullDropKeeps, PullEndKeeps
  <2>2. CASE \E p \in Path : PullWrite(p) \/ PullDelete(p)
    BY <2>2, PullWriteKeeps, PullDeleteKeeps
  <2> QED
    BY <1>2, <2>1, <2>2 DEF applyPlan
<1>3. CASE releaseDeclaration
  BY <1>3, ReleaseKeeps
<1> QED
  BY <1>1, <1>2, <1>3 DEF PullStep, pullAndReload, overwrite

LEMMA BuildKeeps ==
  ASSUME IInv, Build
  PROVE  IInv'
  BY WipeStoreKeeps, CreateRecreateKeeps, CreateMetaKeeps, SaveEntryKeeps, WriteAttachmentKeeps
     DEF Build, create, join

LEMMA PullStartsKeep ==
  ASSUME IInv, PullStarts
  PROVE  IInv'
<1>1. CASE pull
  <2>1. "pull" \in Pulls /\ "pull" # "share" /\ PullStart("pull", None)
    BY <1>1 DEF Pulls, pull
  <2> QED
    BY <2>1, PullStartKeeps
<1>2. CASE PullStart("overwrite", None)
  <2>1. "overwrite" \in Pulls /\ "overwrite" # "share"
    BY DEF Pulls
  <2> QED
    BY <1>2, <2>1, PullStartKeeps
<1>3. ASSUME NEW at \in Positions, shareAgain(at) PROVE IInv'
  <2>1. "share" \in Pulls /\ PullStart("share", at)
    BY <1>3 DEF Pulls, shareAgain
  <2> QED
    BY <2>1, PullStartKeeps
<1> QED
  BY <1>1, <1>2, <1>3 DEF PullStarts

LEMMA PlacesAre ==
  ASSUME NEW at \in Positions
  PROVE  at[1] \in Path /\ at[2] \in keys(at[1])
  BY DEF Positions

LEMMA NextKeeps ==
  ASSUME IInv, [Next]_vars
  PROVE  IInv'
<1>1. CASE PushStart \/ PushStep
  BY <1>1, PushStartKeeps, PushCheckKeeps, PushSelectKeeps, PushSendKeeps, PushRecordKeeps DEF PushStep
<1>2. CASE PullStarts \/ PullStep \/ PullDeclined \/ OpFails
  BY <1>2, PullStartsKeep, PullStepKeeps, DeclinedKeeps, OpFailsKeeps
<1>3. CASE Build \/ User
  BY <1>3, BuildKeeps, BuildStartKeeps, RebindKeeps DEF User
<1>4. CASE Reload \/ Crash
  BY <1>4, ReloadKeeps, CrashKeeps
<1>5. CASE Peers
  <2>1. ASSUME NEW d \in DB, PeerCreate(d) PROVE IInv'
    BY <2>1, PeerCreateKeeps
  <2>2. ASSUME NEW d \in DB, NEW at \in Positions, NEW v \in Value, PeerPush(d, at[1], at[2], v)
        PROVE  IInv'
    BY <2>2, PlacesAre, PeerPushKeeps
  <2> QED
    BY <1>5, <2>1, <2>2 DEF Peers
<1>6. ASSUME NEW at \in Positions, NEW v \in Values(at[1]), AppEdit(at[1], at[2], v)
      PROVE  IInv'
  BY <1>6, PlacesAre, AppEditKeeps
<1>7. CASE UNCHANGED vars
  <2>1. UNCHANGED <<server, store, settingUp, bound, declared, off, disk, memory, stopped, reloading,
                    unreloaded, op, mine, told, acts, failures>>
    BY <1>7 DEF vars, settings, app, history, counters
  <2>2. /\ \A d \in DB : Fresh(d)' = Fresh(d) /\ LegacyServer(d)' = LegacyServer(d)
        /\ \A d \in DB, p \in Path : base(d, p)' = base(d, p) /\ settling(d, p)' = settling(d, p)
    BY <2>1 DEF Fresh, LegacyServer, base, settling
  <2>3. TypeOK' /\ Shapes' /\ OpTyped' /\ Wiped'
    BY <2>1, Parts DEF TypeOK, Shapes, ServerShape, StoreShape, FileShape, HistoryShape, OpTyped,
       Wiped, EmptyStore, base
  <2>4. AppFollows'
    BY <2>1, Parts DEF AppFollows, differ, unwritten, writes
  <2>5. BaseExplains'
    BY <2>1, <2>2, BasesStay, Parts
  <2>6. LegacyHolds'
    BY <2>1, LegacyStays, Parts
  <2>7. PushHolds'
    BY <2>1, Parts DEF PushHolds, PushPlanned, PushSent, RevKnown, revOf, sameVersion, SendsChanges, base
  <2>8. PullHolds'
    BY <2>1, Parts DEF PullHolds, PullPlanned, KeepsReported, TakesOnly, Fresh, drawn, base, settling, writes
  <2> QED
    BY <2>3, <2>4, <2>5, <2>6, <2>7, <2>8, Together
<1> QED
  BY <1>1, <1>2, <1>3, <1>4, <1>5, <1>6, <1>7 DEF Next

LEMMA SpecHolds == Spec => []IInv
<1>1. Init => IInv
  BY InitHolds
<1>2. IInv /\ [Next]_vars => IInv'
  BY NextKeeps
<1> QED
  BY <1>1, <1>2, PTL DEF Spec

\* In every state of every run the variables are typed, and unless a Pull
\* runs, its reload is about to happen, or one failed on its own store after it
\* wrote, the app holds what the disk has: its next saved setting takes
\* nothing back.
THEOREM AppFollowsDisk == Spec => []ConfigInv
<1>1. IInv => ConfigInv
  <2> SUFFICES ASSUME IInv PROVE ConfigInv
    OBVIOUS
  <2>1. ~unreloaded => ReloadFollowsWrite
    BY Parts DEF AppFollows, Pulls, ReloadFollowsWrite
  <2> QED
    BY <2>1, Parts DEF ConfigInv, AppHoldsDisk
<1> QED
  BY <1>1, SpecHolds, PTL
-----------------------------------------------------------------------------
(* A Pull that merges leaves what is this device's own.                    *)

LEMMA DiskMoves ==
  ASSUME IInv, Next, op.kind \in {"pull", "share"}, op.step = "write",
         disk' # disk, acts' = acts
  PROVE  \E p \in op.todo : disk' = [disk EXCEPT ![p] = op.plan[p].content]
<1>1. acts \in Nat /\ op.kind \notin Builds /\ op # NoOp /\ op.kind # "push" /\ op.kind \in Pulls
  <2>1. op.kind \in Pulls
    BY DEF Pulls
  <2> QED
    BY <2>1, PullOf, Parts DEF HistoryShape
<1>2. ~reloading /\ op.deletes = {}
  BY <1>1, Parts DEF AppFollows, PullHolds
<1>3. ~Act
  BY <1>1 DEF Act
<1>4. ~PushStart /\ ~PushStep /\ ~PullStarts /\ ~PullDeclined /\ ~Build /\ ~OpFails /\ ~Reload
  BY <1>1, <1>2 DEF PushStart, unlocked, PushStep, PushCheck, PushSelect, PushSend, PushRecord,
     PullStarts, pull, shareAgain, PullStart, guarded, PullDeclined, Build, create, join, Builds,
     OpFails, Reload
<1>5. ~Crash
  BY DEF Crash, Restarted
<1>6. ~User /\ ~Peers
  BY <1>3 DEF User, CreateStart, JoinStart, Rebind, ChangePolicy, Peers, PeerCreate, PeerPush
<1>7. \A at \in Positions : \A v \in Values(at[1]) : ~AppEdit(at[1], at[2], v)
  BY <1>3 DEF AppEdit
<1>8. PullStep
  BY <1>4, <1>5, <1>6, <1>7 DEF Next
<1>9. ~PullCopy /\ ~PullPlan /\ ~PullBackup /\ ~releaseDeclaration
  BY DEF PullCopy, PullPlan, PullBackup, releaseDeclaration, pulling
<1>10. applyPlan
  BY <1>8, <1>9 DEF PullStep, pullAndReload, overwrite
<1>11. ~PullStop /\ ~PullMark /\ ~PullSettle /\ ~PullDrop /\ ~PullEnd
  BY DEF PullStop, PullMark, PullSettle, PullDrop, PullEnd, pulling, app
<1>12. PICK p \in Path : PullWrite(p)
  BY <1>2, <1>10, <1>11 DEF applyPlan, PullDelete
<1> QED
  BY <1>12 DEF PullWrite

\* A merging Pull changes on the disk no key that the app changed and the
\* server does not have, and none declared the device's own: only the key
\* Share again asks for, a path without a base, and what the app wrote after
\* the Pull had read the disk. For any databases, files, policies and
\* failures, and any mix of what an older build left in the stores.
THEOREM PullsLeaveOwn == Spec => PullKeepsOwn
<1>1. IInv /\ [Next]_vars =>
        [\A p \in Path :
           pulling("write") /\ op.kind # "overwrite" /\ disk'[p] # disk[p] /\ acts' = acts
           /\ disk[p] # NoFile /\ op.plan[p].local # NoFile
           => \A k \in diffJson(disk[p], disk'[p]) :
                \/ op.kind = "share" /\ op.at = <<p, k>>
                \/ op.plan[p].local[k] # disk[p][k]
                \/ /\ k \notin declared[p]
                   /\ \/ mine[bound][p][k] = None
                      \/ /\ ~op.plan[p].based
                         /\ p \notin store[bound].localFirst \/ disk[p][k] = Missing]_vars
  <2> SUFFICES ASSUME IInv, Next, NEW p \in Path,
                      pulling("write"), op.kind # "overwrite", disk'[p] # disk[p], acts' = acts,
                      disk[p] # NoFile, op.plan[p].local # NoFile,
                      NEW k \in diffJson(disk[p], disk'[p]),
                      op.plan[p].local[k] = disk[p][k],
                      ~(op.kind = "share" /\ op.at = <<p, k>>)
               PROVE  /\ k \notin declared[p]
                      /\ \/ mine[bound][p][k] = None
                         \/ /\ ~op.plan[p].based
                            /\ p \notin store[bound].localFirst \/ disk[p][k] = Missing
    OBVIOUS
  <2>1. op.kind \in {"pull", "share"} /\ op.step = "write" /\ op.kind \in Pulls
    BY DEF pulling, Pulls
  <2>2. PICK q \in op.todo : disk' = [disk EXCEPT ![q] = op.plan[q].content]
    BY <2>1, DiskMoves
  <2>3. p = q /\ disk'[p] = op.plan[p].content
    BY <2>2, Parts DEF FileShape
  <2>4. /\ p \in op.todo /\ p \in DOMAIN op.plan /\ PullPlanned(p)
        /\ store[bound].migrated /\ Fresh(bound) /\ ~settling(bound, p)
    BY <2>1, <2>2, <2>3, Parts DEF PullHolds, writes, settling
  <2>5. k \in keys(p) /\ op.plan[p].content[k] # op.plan[p].local[k]
    <3>1. DOMAIN op.plan[p].content = keys(p)
      BY <2>4, Contents DEF PullPlanned, PullEntry
    <3> QED
      BY <2>3, <3>1 DEF diffJson
  <2>6. /\ k \notin declared[p]
        /\ IF op.plan[p].based
           THEN base(bound, p) # None /\ base(bound, p).content[k] = op.plan[p].local[k]
           ELSE p \notin store[bound].localFirst \/ op.plan[p].local[k] = Missing
    BY <2>4, <2>5 DEF PullPlanned, TakesOnly
  <2>7. op.plan[p].based => mine[bound][p][k] = None
    BY <2>4, <2>5, <2>6, Parts DEF BaseExplains
  <2> QED
    BY <2>6, <2>7
<1> QED
  BY <1>1, SpecHolds, PTL DEF Spec, PullKeepsOwn
-----------------------------------------------------------------------------
(* A Push sends what is this device's own.                                 *)

LEMMA ServerMoves ==
  ASSUME IInv, Next, op.kind = "push", server' # server
  PROVE  PushSend \/ Peers
<1>1. op.kind \notin Builds /\ op # NoOp /\ op.kind \notin Pulls
  BY PullOf, Parts DEF Builds, Pulls, NoOp
<1>2. ~PushStart /\ ~PushCheck /\ ~PushSelect /\ ~(\E p \in Path : PushRecord(p))
  BY DEF PushStart, PushCheck, PushSelect, PushRecord
<1>3. ~PullStarts /\ ~PullStep /\ ~PullDeclined /\ ~Build /\ ~OpFails
  BY <1>1 DEF PullStarts, pull, shareAgain, PullStart, guarded, unlocked, PullStep, pullAndReload,
     overwrite, Pulls, PullDeclined, Build, create, join, OpFails
<1>4. ~Reload /\ ~Crash /\ ~User
  BY DEF Reload, Crash, Restarted, User, CreateStart, JoinStart, Rebind, ChangePolicy
<1>5. \A at \in Positions : \A v \in Values(at[1]) : ~AppEdit(at[1], at[2], v)
  BY DEF AppEdit
<1> QED
  BY <1>2, <1>3, <1>4, <1>5 DEF Next, PushStep

\* What a Push changes of a shared version is what the app changed on this
\* device, or what a Pull kept knowingly, and never a key declared the
\* device's own: for any peers, lost answers, new roots and older stores.
THEOREM PushesSendOwn == Spec => PushSendsOwn
<1>1. IInv /\ [Next]_vars =>
        [\A p \in Path :
           LET old == server[bound].docs[p]
               new == server'[bound].docs[p]
           IN op.kind = "push" /\ op.step = "send" /\ old # new /\ old # None /\ new # None
              /\ old.vclock["peer"] = new.vclock["peer"]
              => \A k \in diffJson(old.content, new.content) :
                   /\ k \notin declared[p]
                   /\ \/ mine[bound][p][k] # None \/ k \in told[bound][p]
                      \/ disk[p] = NoFile \/ disk[p][k] # new.content[k]]_vars
  <2> DEFINE old(p) == server[bound].docs[p]
             new(p) == server'[bound].docs[p]
  <2> SUFFICES ASSUME IInv, Next, NEW p \in Path,
                      op.kind = "push", op.step = "send", old(p) # new(p), old(p) # None, new(p) # None,
                      old(p).vclock["peer"] = new(p).vclock["peer"],
                      NEW k \in diffJson(old(p).content, new(p).content)
               PROVE  /\ k \notin declared[p]
                      /\ \/ mine[bound][p][k] # None \/ k \in told[bound][p]
                         \/ disk[p] = NoFile \/ disk[p][k] # new(p).content[k]
    OBVIOUS
  <2>1. /\ bound \in DB /\ DOMAIN server = DB /\ DOMAIN server[bound] = ServerFields
        /\ DOMAIN server[bound].docs = Path
        /\ old(p) \in Uploaded(p) /\ old(p).vclock \in [{"me", "peer"} -> Nat]
        /\ old(p).content \in Content(p)
    <3>1. old(p) \in Uploaded(p)
      BY Parts DEF TypeOK
    <3> QED
      BY <3>1, Versions, Parts DEF ServerShape
  <2>2. PushSend
    <3>1. ASSUME NEW d \in DB, PeerCreate(d) PROVE FALSE
      <4>1. d # bound => server'[bound] = server[bound]
        BY <2>1, <3>1 DEF PeerCreate
      <4>2. d = bound => new(p) = None
        BY <2>1, <3>1 DEF PeerCreate, NewRemote
      <4> QED
        BY <4>1, <4>2
    <3>2. ASSUME NEW d \in DB, NEW q \in Path, NEW j, NEW v, PeerPush(d, q, j, v) PROVE FALSE
      <4> DEFINE doc == server[d].docs[q]
                 was == IF doc = None
                        THEN [vclock |-> clock(0, 0), content |-> [i \in keys(q) |-> Missing]]
                        ELSE doc
                 row == [vclock |-> VC!incrementVC(was.vclock, "peer"),
                         content |-> [was.content EXCEPT ![j] = v], seq |-> server[d].seq + 1]
      <4>1. server' = [server EXCEPT ![d].seq = @ + 1, ![d].docs[q] = row]
        BY <3>2 DEF PeerPush
      <4>2. row.vclock = VC!incrementVC(was.vclock, "peer")
        OBVIOUS
      <4>3. doc # None => was = doc
        OBVIOUS
      <4> HIDE DEF row, was
      <4>4. d # bound => server'[bound] = server[bound]
        BY <2>1, <4>1
      <4>5. d = bound => new(p) = IF p = q THEN row ELSE old(p)
        BY <2>1, <4>1 DEF ServerFields
      <4>6. d = bound /\ p = q /\ new(p) = row
        BY <4>4, <4>5
      <4>7. new(p).vclock["peer"] = old(p).vclock["peer"] + 1
        <5>1. was.vclock = old(p).vclock
          BY <4>3, <4>6
        <5> DEFINE c == old(p).vclock
        <5>2. c \in [{"me", "peer"} -> Nat] /\ row.vclock = VC!incrementVC(c, "peer")
          BY <2>1, <4>2, <5>1
        <5> HIDE DEF c
        <5>3. row.vclock["peer"] = c["peer"] + 1
          BY <5>2, Clocks
        <5> QED
          BY <4>6, <5>3 DEF c
      <4> QED
        BY <2>1, <4>7
    <3>3. ~Peers
      BY <3>1, <3>2, PlacesAre DEF Peers
    <3>4. server' # server
      OBVIOUS
    <3> QED
      BY <3>3, <3>4, ServerMoves
  <2> DEFINE accepted == {q \in DOMAIN op.plan : op.plan[q].rev = revOf(bound, q)}
             e == op.plan[p]
  <2>3. p \in accepted /\ new(p).content = e.content
    <3> DEFINE sent(q) == [content |-> op.plan[q].content, sent |-> op.plan[q].sent,
                           vclock  |-> VC!incrementVC(IF op.plan[q].base = None THEN clock(0, 0)
                                                      ELSE op.plan[q].base.vclock, "me")]
               docs == [q \in Path |->
                          IF q \in accepted
                          THEN [vclock |-> sent(q).vclock, content |-> sent(q).content,
                                seq |-> server[bound].seq + 1]
                          ELSE server[bound].docs[q]]
    <3>1. server' = [server EXCEPT ![bound].seq = @ + IF accepted = {} THEN 0 ELSE 1, ![bound].docs = docs]
      BY <2>1, <2>2 DEF PushSend, ServerFields
    <3>2. /\ p \in accepted => docs[p].content = op.plan[p].content
          /\ p \notin accepted => docs[p] = old(p)
      OBVIOUS
    <3> HIDE DEF docs, accepted
    <3>3. new(p) = docs[p]
      BY <2>1, <3>1 DEF ServerFields
    <3> QED
      BY <3>2, <3>3
  <2>4. /\ p \in DOMAIN op.plan /\ PushPlanned(p) /\ SendsChanges(p) /\ RevKnown(p)
        /\ store[bound].migrated /\ store[bound].current
    BY <2>3, Parts DEF PushHolds, PushPlanned
  <2>5. e.rev # None /\ e.rev = revOf(bound, p)
    <3>1. revOf(bound, p) # None
      <4>1. server[bound].made \in Nat /\ old(p).seq \in Nat
        BY <2>1, Versions, Parts DEF ServerShape
      <4> QED
        BY <4>1, NoneIsNothing DEF revOf
    <3> QED
      BY <2>3, <3>1
  <2>6. e.base # None /\ e.base = base(bound, p) /\ old(p).content = e.base.content
    BY <2>4, <2>5 DEF RevKnown, sameVersion, PushPlanned
  <2>7. k \in keys(p) /\ e.content[k] # e.base.content[k]
    <3>1. DOMAIN e.content = keys(p)
      BY <2>4, Contents DEF PushPlanned, PushEntry
    <3> QED
      BY <2>3, <2>6, <3>1 DEF diffJson
  <2>8. k \in e.sent /\ k \notin declared[p]
    BY <2>4, <2>6, <2>7 DEF SendsChanges
  <2>9. disk[p][k] = new(p).content[k] => disk[p][k] # base(bound, p).content[k]
    BY <2>3, <2>6, <2>7
  <2>10. ~settling(bound, p) /\ Fresh(bound)
    BY <2>4 DEF settling, Fresh
  <2> QED
    BY <2>1, <2>4, <2>6, <2>7, <2>8, <2>9, <2>10, Parts DEF BaseExplains
<1> QED
  BY <1>1, SpecHolds, PTL DEF Spec, PushSendsOwn

=============================================================================
