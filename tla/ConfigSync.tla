----------------------------- MODULE ConfigSync -----------------------------
(***************************************************************************)
(* The settings sync of one device: Push, Pull & Reload, Share again, Pull  *)
(* & Overwrite, Create, Join and the change of database, against config     *)
(* databases that its peers push to and may create anew.  The app edits     *)
(* the settings files all along, from its own memory of them.               *)
(*                                                                         *)
(* An operation holds the lock of ConfigSync from its first step to its     *)
(* last; what may come between two steps is the app, the peers, a failure   *)
(* of the step's request and the end of the app.  The peers' pushes are      *)
(* those a device of this kind makes: they change the version the server     *)
(* has.                                                                     *)
(***************************************************************************)
EXTENDS Naturals, FiniteSets, ConfigMerge

CONSTANTS
    DB,           \* config databases
    Home,         \* the one this device uses first
    Path,         \* settings files
    Keyed,        \* those merged key by key
    Stoppable,    \* those of a community plugin, which a Pull stops
    Key,          \* the positions of a keyed file
    Whole,        \* the only key of the others
    Value,
    Legacy,       \* what the store an older build left holds of each file:
                  \* a version behind the server's, an unsent one, both, or
                  \* one the server has not
    MaxRoots,     \* roots per database
    MaxActs,      \* what the user, the app and the peers do
    MaxFailures   \* crashes and failed requests

ASSUME ConfigAssumption ==
    /\ Home \in DB /\ Keyed \subseteq Path /\ Stoppable \subseteq Path
    /\ Whole \notin Key /\ Missing \notin Value
    /\ Keyed # {} => Key # {}
    /\ Value # {} /\ \A v \in Value : Value # {v}
    /\ Legacy \in [Path -> {"behind", "unsent", "crossed", "gone"}]
    /\ {MaxRoots, MaxActs, MaxFailures} \subseteq Nat /\ MaxRoots > 0

VARIABLES
    server,    \* per database: its root (0: no config:meta), documents, update seq
    store,     \* per database: this device's local store
    settingUp, \* settings: databases whose Create of this device did not end
    bound,     \* settings: the database used now
    declared,  \* settings: deviceOnlyKeys, per file
    off,       \* settings: files that do not take part (overrides)
    disk,      \* the settings files
    memory,    \* what the app holds of them since it started
    stopped,   \* files whose plugin a Pull has stopped
    reloading, \* the reload a Pull asked for is about to happen
    unreloaded, \* history: a Pull ended without the reload its writes call for
    op,        \* the operation that runs
    mine,      \* history: per database and file, the value a key had before
               \* the app changed it, None where it did not
    told,      \* history: keys whose disk value a Pull kept against the shared one
    acts, failures

settings == <<settingUp, bound, declared, off>>
app == <<disk, memory, stopped, reloading, unreloaded>>
history == <<mine, told>>
counters == <<acts, failures>>
vars == <<server, store, settings, app, op, history, counters>>

VC == INSTANCE VClock WITH Device <- {"me", "peer"}

keys(p) == IF p \in Keyed THEN Key ELSE {Whole}
Content(p) == [keys(p) -> Value \cup (IF p \in Keyed THEN {Missing} ELSE {})]
clock(n, m) == [d \in {"me", "peer"} |-> IF d = "me" THEN n ELSE m]

(* A version of a file, and the server's document of one. *)
Doc(p) == [vclock : [{"me", "peer"} -> Nat], content : Content(p)]
Uploaded(p) == [vclock : [{"me", "peer"} -> Nat], content : Content(p), seq : Nat]

ASSUME NoneIsNothing ==
    /\ None \notin Value \cup {Missing} /\ None \notin Nat \X Nat
    /\ \A p \in Path : NoFile \notin Content(p) /\ None \notin Content(p) \cup Doc(p) \cup Uploaded(p)

(* The document of a version, as the local store keeps it. *)
version(doc) == [vclock |-> doc.vclock, content |-> doc.content]

(* A store no database has been joined with: resetStore. *)
NewStore == [att |-> 0, docs |-> [p \in Path |-> None], base |-> [p \in Path |-> None],
             cursor |-> 0, current |-> FALSE, migrated |-> FALSE, localFirst |-> {}]

NewRemote(root) == [root |-> root, made |-> root, docs |-> [p \in Path |-> None], seq |-> 1]

NoOp == [kind |-> "none", step |-> "idle", plan |-> [p \in {} |-> None], todo |-> {}, deletes |-> {},
         now |-> None, at |-> None, left |-> {}, root |-> 0, reset |-> FALSE, wrote |-> FALSE,
         stops |-> FALSE]

----------------------------------------------------------------------------
(* The first states: the device is in sync with Home; its other stores are   *)
(* those an older build left, which wrote the disk it scanned as document    *)
(* and base, and their peers have pushed.                                   *)

first(p) == CHOOSE c \in Content(p) : Missing \notin {c[k] : k \in keys(p)}
other(p) == CHOOSE c \in Content(p) :
                /\ Cardinality(diffJson(first(p), c)) = 1
                /\ Missing \notin {c[k] : k \in keys(p)}

uploaded(d, p) ==
    CASE d = Home -> [vclock |-> clock(1, 1), content |-> first(p), seq |-> 2]
      [] d # Home /\ Legacy[p] # "gone" -> [vclock |-> clock(1, 2), content |-> other(p), seq |-> 3]
      [] OTHER -> None

scanned(d, p) ==
    LET l == IF d = Home THEN "behind" ELSE Legacy[p]
    IN [vclock |-> CASE l = "behind"  -> clock(1, 1)
                     [] l = "unsent"  -> clock(2, 2)
                     [] l = "crossed" -> clock(2, 1)
                     [] l = "gone"    -> clock(1, 0),
        content |-> first(p)]

Init ==
    /\ server = [d \in DB |-> [root |-> 1, made |-> 1, seq |-> IF d = Home THEN 2 ELSE 3,
                               docs |-> [p \in Path |-> uploaded(d, p)]]]
    /\ store = [d \in DB |-> [att |-> 1, cursor |-> 2, current |-> TRUE,
                              docs |-> [p \in Path |-> scanned(d, p)],
                              base |-> [p \in Path |-> scanned(d, p)],
                              migrated |-> d = Home, localFirst |-> {}]]
    /\ disk = [p \in Path |-> first(p)]
    /\ memory = disk
    /\ mine = [d \in DB |-> [p \in Path |-> [k \in keys(p) |->
                 IF /\ d # Home /\ Legacy[p] \in {"unsent", "crossed"}
                    /\ first(p)[k] # other(p)[k]
                 THEN other(p)[k] ELSE None]]]
    /\ told = [d \in DB |-> [p \in Path |-> {}]]
    /\ settingUp = {} /\ bound = Home
    /\ declared = [p \in Path |-> {}] /\ off = {}
    /\ stopped = {} /\ reloading = FALSE /\ unreloaded = FALSE /\ op = NoOp
    /\ acts = 0 /\ failures = 0

----------------------------------------------------------------------------
(* The lock, the readiness check and what Push and Pull begin with.         *)

participates(p) == p \notin off

(* preflight: this device has joined the root the server has. *)
ready(d) == d \notin settingUp /\ store[d].att # 0 /\ store[d].att = server[d].root

(* Another database's Pull wrote the disk: the bases are no longer what the
   disk took in. *)
alignBasesWithDisk_kept(s) == s
alignBasesWithDisk(s) ==
    IF s.current THEN s
    ELSE [s EXCEPT !.base = [p \in Path |-> None], !.localFirst = {}, !.current = TRUE]

(* A store of an older build: documents become the server's versions, bases
   what the disk took in of them. *)
migrateConfigBase(s, docs) ==
    LET known   == {p \in Path : s.docs[p] # None \/ s.base[p] # None}
        ref(p)  == IF s.docs[p] # None THEN s.docs[p] ELSE s.base[p]
        rel(p)  == VC!compareVC(ref(p).vclock, docs[p].vclock)
        based   == {p \in known : s.base[p] # None /\ participates(p) /\ docs[p] # None}
        taken   == {p \in based : \/ rel(p) = "dominated"
                                  \/ rel(p) = "equal" /\ ref(p).content = docs[p].content}
        unsent  == {p \in based : rel(p) = "dominates"}
    IN IF s.migrated THEN s
       ELSE [s EXCEPT
              !.docs = [p \in Path |-> IF p \in known /\ docs[p] # None
                                       THEN version(docs[p]) ELSE None],
              !.base = [p \in Path |-> CASE p \in taken  -> s.base[p]
                                         [] p \in unsent -> version(docs[p])
                                         [] OTHER        -> None],
              !.localFirst = @ \cup (based \ (taken \cup unsent)),
              !.migrated = TRUE]

prepare(d) == migrateConfigBase(alignBasesWithDisk(store[d]), server[d].docs)

(* No operation runs; those of a role in the reload guard wait for a reload
   that was asked for. *)
unlocked == op = NoOp
guarded == unlocked /\ ~reloading

Begin(kind, step) == [NoOp EXCEPT !.kind = kind, !.step = step]

Act == acts < MaxActs /\ acts' = acts + 1 /\ UNCHANGED failures
Failure == failures < MaxFailures /\ failures' = failures + 1 /\ UNCHANGED acts

----------------------------------------------------------------------------
(* Push *)

onDisk == {p \in Path : disk[p] # NoFile}

planPush(s) ==
    LET changed == {p \in onDisk : /\ participates(p)
                                   /\ s.base[p] = None \/ s.base[p].content # disk[p]}
    IN [p \in changed |-> [base |-> s.base[p], local |-> disk[p], rev |-> None,
                           sent |-> {}, content |-> disk[p]]]

contentOf(v) == IF v = None THEN None ELSE v.content

changesOf(e) == diffForPush(contentOf(e.base), e.local)

(* A whole file has no declared keys. *)
keptIn(p, e) == IF p \in Keyed /\ e.base # None THEN declared[p] ELSE {}

active(plan) == {p \in DOMAIN plan : ~(changesOf(plan[p]) \subseteq keptIn(p, plan[p]))}

PushStart ==
    /\ unlocked /\ bound # None /\ ready(bound)
    /\ LET plan == planPush(prepare(bound))
       IN op' = IF active(plan) = {} THEN NoOp
                ELSE [Begin("push", "check") EXCEPT !.plan = plan]
    /\ store' = [store EXCEPT ![bound] = prepare(bound)]
    /\ UNCHANGED <<server, settings, app, history, counters>>

(* A path is sent only if the server has the version of the store, and the
   disk has taken that version in. *)
sameVersion(a, b) == IF a = None \/ b = None THEN a = b
                     ELSE a.vclock = b.vclock /\ a.content = b.content
sendable(d, p, e) == /\ sameVersion(server[d].docs[p], store[d].docs[p])
                     /\ sameVersion(e.base, store[d].docs[p])

revOf(d, p) == IF server[d].docs[p] = None THEN None
               ELSE <<server[d].made, server[d].docs[p].seq>>

PushCheck ==
    /\ op.kind = "push" /\ op.step = "check"
    /\ LET ok   == {p \in DOMAIN op.plan : sendable(bound, p, op.plan[p])}
           plan == [p \in ok |-> [op.plan[p] EXCEPT !.rev = revOf(bound, p)]]
       IN op' = IF ok \cap active(op.plan) = {} THEN NoOp
                ELSE [op EXCEPT !.step = "select", !.plan = plan]
    /\ UNCHANGED <<server, store, settings, app, history, counters>>

(* The Push list: a key left out is declared this device's own, a file left
   out stops taking part, a declared key that is selected is shared again. *)
byKey(plan) == {p \in DOMAIN plan : p \in Keyed /\ plan[p].base # None}

saveDeclarations(keys_, files) ==
    declared' = [p \in Path |-> keys_[p]] /\ off' = off \cup files

PushSelect ==
    /\ op.kind = "push" /\ op.step = "select"
    /\ \E sel \in [DOMAIN op.plan -> SUBSET (Key \cup {Whole})] :
         LET own(p) == (declared[p] \ sel[p]) \cup (changesOf(op.plan[p]) \ sel[p])
             sends == {p \in DOMAIN op.plan : sel[p] # {}}
         IN /\ \A p \in DOMAIN op.plan :
                 /\ sel[p] \subseteq changesOf(op.plan[p])
                 /\ p \in byKey(op.plan) \/ sel[p] \in {{}, changesOf(op.plan[p])}
            /\ saveDeclarations([p \in Path |-> IF p \in byKey(op.plan) THEN own(p) ELSE declared[p]],
                                {p \in DOMAIN op.plan \ byKey(op.plan) : sel[p] = {}})
            /\ op' = IF sends = {} THEN NoOp
                     ELSE [op EXCEPT !.step = "send",
                            !.plan = [p \in sends |->
                               [op.plan[p] EXCEPT !.sent = sel[p],
                                 !.content = pushContent(contentOf(op.plan[p].base),
                                              op.plan[p].local, sel[p],
                                              IF p \in byKey(op.plan) THEN own(p) ELSE {})]]]
    /\ UNCHANGED <<server, store, settingUp, bound, app, history, counters>>

(* History: keys ks of a file are agreed on at the values of c; a value the
   app has written since is its change of that. *)
agreed(m, p, c, ks) ==
    [k \in keys(p) |-> IF k \notin ks THEN m[k]
                      ELSE IF disk[p] # NoFile /\ disk[p][k] # c[k] THEN c[k] ELSE None]

(* The documents that carry the revision the server has are accepted, the
   others held.  The answer may be lost. *)
PushSend ==
    /\ op.kind = "push" /\ op.step = "send"
    /\ \E lost \in BOOLEAN :
         LET accepted == {p \in DOMAIN op.plan : op.plan[p].rev = revOf(bound, p)}
             sent(p)  == [content |-> op.plan[p].content, sent |-> op.plan[p].sent,
                          vclock  |-> VC!incrementVC(IF op.plan[p].base = None THEN clock(0, 0)
                                                    ELSE op.plan[p].base.vclock, "me")]
         IN /\ IF lost THEN Failure ELSE UNCHANGED counters
            /\ server' = [server EXCEPT
                 ![bound].seq  = @ + IF accepted = {} THEN 0 ELSE 1,
                 ![bound].docs = [p \in Path |->
                    IF p \in accepted
                    THEN [vclock |-> sent(p).vclock, content |-> sent(p).content,
                          seq |-> server[bound].seq + 1]
                    ELSE @[p]]]
            /\ op' = IF lost \/ accepted = {} THEN NoOp
                     ELSE [op EXCEPT !.step = "record", !.todo = accepted,
                            !.plan = [p \in accepted |-> sent(p)]]
    /\ UNCHANGED <<store, settings, app, history>>

PushRecord(p) ==
    /\ op.kind = "push" /\ op.step = "record" /\ p \in op.todo
    /\ store' = [store EXCEPT ![bound].docs[p] = version(op.plan[p]),
                              ![bound].base[p] = version(op.plan[p])]
    /\ mine' = [mine EXCEPT ![bound][p] = agreed(@, p, op.plan[p].content, op.plan[p].sent)]
    /\ op' = IF op.todo = {p} THEN NoOp ELSE [op EXCEPT !.todo = @ \ {p}]
    /\ UNCHANGED <<server, settings, app, told, counters>>

----------------------------------------------------------------------------
(* Pull & Reload, Share again and Pull & Overwrite *)

pulling(step) == op.kind \in {"pull", "share", "overwrite"} /\ op.step = step

PullStart(kind, at) ==
    /\ guarded /\ bound # None /\ ready(bound)
    /\ kind = "share" => at[2] \in declared[at[1]]
    /\ store' = [store EXCEPT ![bound] = prepare(bound)]
    /\ op' = [Begin(kind, "copy") EXCEPT !.at = at]
    /\ UNCHANGED <<server, settings, app, history, counters>>

(* One round of the copy: the documents since the cursor replace the store's;
   a feed that ends before the cursor is that of a database created anew, and
   is read from its start, once. *)
PullCopy ==
    /\ pulling("copy")
    /\ LET s     == store[bound]
           newer == {p \in Path : /\ server[bound].docs[p] # None
                                  /\ server[bound].docs[p].seq > s.cursor}
       IN IF server[bound].seq < s.cursor
          THEN /\ store' = [store EXCEPT ![bound].cursor = IF op.reset THEN @ ELSE 0]
               /\ op' = IF op.reset THEN NoOp ELSE [op EXCEPT !.reset = TRUE]
          ELSE /\ store' = [store EXCEPT
                     ![bound].docs = [p \in Path |-> IF p \in newer
                                        THEN version(server[bound].docs[p]) ELSE @[p]],
                     ![bound].cursor = server[bound].seq]
               /\ op' = IF newer = {} THEN [op EXCEPT !.step = "plan"] ELSE op
    /\ UNCHANGED <<server, settings, app, history, counters>>

participatingSharedDocs(s) == {p \in Path : participates(p) /\ s.docs[p] # None}

(* The paths whose shared version the disk has not taken in. *)
candidates(s) ==
    {p \in participatingSharedDocs(s) :
                  \/ op.kind = "overwrite"
                  \/ op.kind = "share" /\ op.at[1] = p
                  \/ ~sameVersion(s.base[p], s.docs[p])}

decided(s, p) ==
    IF op.kind = "overwrite" THEN [content |-> s.docs[p].content, conflicts |-> {}]
    ELSE decidePull(contentOf(s.base[p]), disk[p], s.docs[p].content, p \in s.localFirst,
                    IF p \in Keyed THEN declared[p] ELSE {},
                    IF op.kind = "share" /\ op.at[1] = p THEN {op.at[2]} ELSE {})

(* Keys kept without a base because the shared version has none. *)
keptAlone(s, p) ==
    IF s.base[p] # None \/ disk[p] = NoFile \/ op.kind = "overwrite" THEN {}
    ELSE {k \in keys(p) : s.docs[p].content[k] = Missing /\ disk[p][k] # Missing}

writes(plan) == {p \in DOMAIN plan : plan[p].content # plan[p].local}

(* An overwrite deletes what the shared state does not have, and asks unless
   there is nothing to change. *)
planDeletes(s) ==
    IF op.kind # "overwrite" THEN {}
    ELSE {p \in onDisk : participates(p) /\ p \notin participatingSharedDocs(s)}

overwriteAsks(changed) ==
    op.kind = "overwrite" /\ (changed # {} \/ declared # [p \in Path |-> {}])

PullPlan ==
    /\ pulling("plan")
    /\ \E missing \in SUBSET candidates(store[bound]) :
         LET s    == store[bound]
             plan == [p \in candidates(s) \ missing |->
                       [shared |-> s.docs[p], based |-> s.base[p] # None, local |-> disk[p],
                        content |-> decided(s, p).content,
                        kept |-> decided(s, p).conflicts \cup keptAlone(s, p)
                                   \cup {k \in keys(p) : mine[bound][p][k] # None}
                                   \cup declared[p] \cup told[bound][p]]]
             extra   == planDeletes(s)
             changed == writes(plan) \cup extra
         IN /\ IF missing = {} THEN UNCHANGED counters ELSE Failure
            /\ op' = IF op.kind = "overwrite" /\ DOMAIN plan = {} THEN NoOp
                     ELSE [op EXCEPT !.plan = plan, !.todo = writes(plan), !.deletes = extra,
                            !.left = missing,
                            !.step = IF changed # {} \/ overwriteAsks(changed)
                                     THEN "backup" ELSE "write"]
    /\ UNCHANGED <<server, store, settings, app, history>>

(* The dialogs of Share again and Overwrite are declined, before anything but
   the store has changed. *)
PullDeclined ==
    /\ \/ op.kind = "share" /\ op.step = "plan"
       \/ op.kind = "overwrite" /\ op.step = "backup"
    /\ op' = NoOp
    /\ UNCHANGED <<server, store, settings, app, history, counters>>

(* The files to be changed are copied; an overwrite drops the declarations. *)
PullBackup ==
    /\ pulling("backup")
    /\ declared' = IF op.kind = "overwrite" THEN [p \in Path |-> {}] ELSE declared
    /\ op' = [op EXCEPT !.step = IF op.todo \cup op.deletes = {} THEN "write" ELSE "stop"]
    /\ UNCHANGED <<server, store, settingUp, bound, off, app, history, counters>>

(* The plugins of the files are stopped and the write to come is drawn in the
   settings: no store has bases for it until this one records it. *)
PullStop ==
    /\ pulling("stop")
    /\ stopped' = stopped \cup ((op.todo \cup op.deletes) \cap Stoppable)
    /\ store' = [d \in DB |-> [store[d] EXCEPT !.current = FALSE]]
    /\ op' = [op EXCEPT !.step = "mark", !.stops = (op.todo \cup op.deletes) \cap Stoppable # {}]
    /\ UNCHANGED <<server, settings, disk, memory, reloading, unreloaded, history, counters>>

PullMark ==
    /\ pulling("mark")
    /\ store' = [store EXCEPT ![bound].current = TRUE]
    /\ op' = [op EXCEPT !.step = "write"]
    /\ UNCHANGED <<server, settings, app, history, counters>>

(* History: what a Pull puts on the disk is not the app's change any more. *)
replaced(c, p) == IF disk[p] = NoFile \/ c = NoFile THEN keys(p) ELSE diffJson(disk[p], c)
Forget(c, p) ==
    /\ mine' = [d \in DB |-> [mine[d] EXCEPT ![p] =
                  [k \in keys(p) |-> IF k \in replaced(c, p) THEN None ELSE @[k]]]]
    /\ told' = [d \in DB |-> [told[d] EXCEPT ![p] = @ \ replaced(c, p)]]

PullWrite(p) ==
    /\ pulling("write") /\ p \in op.todo
    /\ \/ /\ disk' = [disk EXCEPT ![p] = op.plan[p].content]
          /\ Forget(op.plan[p].content, p)
          /\ op' = [op EXCEPT !.step = "settle", !.now = p, !.wrote = TRUE]
          /\ UNCHANGED counters
       \/ /\ Failure
          /\ op' = [op EXCEPT !.todo = @ \ {p}, !.left = @ \cup {p},
                             !.plan = [q \in DOMAIN @ \ {p} |-> @[q]]]
          /\ UNCHANGED <<disk, history>>
    /\ UNCHANGED <<server, store, settings, memory, stopped, reloading, unreloaded>>

(* settleBase: the disk has taken in the shared version of the paths ps. *)
settled(s, ps) == [s EXCEPT
    !.base = [p \in Path |-> IF p \in ps THEN op.plan[p].shared ELSE @[p]],
    !.localFirst = @ \ ps]
apart(ks, p, c) == {k \in ks : disk[p] # NoFile /\ disk[p][k] # c[k]}
since(p, k) == disk[p] # NoFile /\ disk[p][k] # op.plan[p].content[k]
Report(ps) ==
    /\ told' = [told EXCEPT ![bound] = [p \in Path |->
                  IF p \in ps THEN apart(@[p] \cup op.plan[p].kept, p, op.plan[p].shared.content)
                  ELSE @[p]]]
    /\ mine' = [mine EXCEPT ![bound] = [p \in Path |->
                  IF p \in ps
                  THEN agreed(@[p], p, op.plan[p].shared.content,
                              {k \in keys(p) : @[p][k] # None \/ since(p, k)})
                  ELSE @[p]]]

PullSettle ==
    /\ pulling("settle")
    /\ store' = [store EXCEPT ![bound] = settled(@, {op.now})]
    /\ Report({op.now})
    /\ op' = [op EXCEPT !.step = "write", !.now = None, !.todo = @ \ {op.now}]
    /\ UNCHANGED <<server, settings, app, counters>>

(* A file is deleted, and the folders that leaves empty; when such a folder
   cannot be, the file is gone and the Pull counts it as not deleted. *)
PullDelete(p) ==
    /\ pulling("write") /\ op.todo = {} /\ p \in op.deletes
    /\ \/ /\ disk' = [disk EXCEPT ![p] = NoFile]
          /\ Forget(NoFile, p)
          /\ \/ /\ op' = [op EXCEPT !.step = "drop", !.now = p, !.wrote = TRUE]
                /\ UNCHANGED <<unreloaded, counters>>
             \/ /\ Failure
                /\ op' = [op EXCEPT !.deletes = @ \ {p}]
                /\ unreloaded' = TRUE
       \/ /\ Failure
          /\ op' = [op EXCEPT !.deletes = @ \ {p}]
          /\ UNCHANGED <<disk, unreloaded, history>>
    /\ UNCHANGED <<server, store, settings, memory, stopped, reloading>>

PullDrop ==
    /\ pulling("drop")
    /\ store' = [store EXCEPT ![bound].base[op.now] = None, ![bound].localFirst = @ \ {op.now}]
    /\ op' = [op EXCEPT !.step = "write", !.now = None, !.deletes = @ \ {op.now}]
    /\ UNCHANGED <<server, settings, app, history, counters>>

(* The app reloads when the disk changed or a plugin was stopped. *)
reloadAfter_stopped == op.stops
reloadAfter == op.wrote \/ op.stops

(* The planned paths that need no write are settled, and the reload asked
   for; Share again first drops the declaration unless its file was left. *)
PullEnd ==
    /\ pulling("write") /\ op.todo \cup op.deletes = {}
    /\ LET rest == {p \in DOMAIN op.plan : p \notin writes(op.plan)}
       IN /\ store' = [store EXCEPT ![bound] = settled(@, rest)]
          /\ Report(rest)
    /\ IF op.kind = "share"
       THEN op' = [op EXCEPT !.step = "release"] /\ UNCHANGED reloading
       ELSE op' = NoOp /\ reloading' = reloadAfter
    /\ UNCHANGED <<server, settings, disk, memory, stopped, unreloaded, counters>>

releaseDeclaration ==
    /\ pulling("release")
    /\ declared' = IF op.at[1] \in op.left THEN declared
                   ELSE [declared EXCEPT ![op.at[1]] = @ \ {op.at[2]}]
    /\ op' = NoOp /\ reloading' = reloadAfter
    /\ UNCHANGED <<server, store, settingUp, bound, off, disk, memory, stopped, unreloaded,
                   history, counters>>

(* The app starts again: it reads the files, and no operation runs. *)
Restarted ==
    /\ memory' = disk /\ stopped' = {} /\ op' = NoOp
    /\ reloading' = FALSE /\ unreloaded' = FALSE
    /\ UNCHANGED <<server, store, settings, disk, mine>>

Reload == reloading /\ Restarted /\ UNCHANGED <<told, counters>>

(* An operation that ends between the write of a file and the record of it
   leaves a disk the store knows nothing of: what was written counts as told. *)
LeaveUnrecorded ==
    told' = IF op.step = "settle" THEN [told EXCEPT ![bound][op.now] = keys(op.now)] ELSE told

Crash == Restarted /\ Failure /\ LeaveUnrecorded

(* A request or a local transaction of the step fails, or the user cancels
   before it.  runOperation then asks for no reload, whatever was written. *)
OpFails ==
    /\ ~unlocked /\ Failure
    /\ op.step = "write" => op.todo \cup op.deletes = {} /\ DOMAIN op.plan # writes(op.plan)
    /\ op' = NoOp
    /\ unreloaded' = (unreloaded \/ op.wrote)
    /\ LeaveUnrecorded
    /\ UNCHANGED <<server, store, settings, disk, memory, stopped, reloading, mine>>

----------------------------------------------------------------------------
(* Create, Join and the change of database *)

building(kind, step) == op.kind = kind /\ op.step = step

CreateStart ==
    /\ guarded /\ bound # None /\ Act
    /\ settingUp' = settingUp \cup {bound}
    /\ op' = Begin("create", "wipe")
    /\ UNCHANGED <<server, store, bound, declared, off, app, history>>

(* Join accepts the root the server has; the user may have to confirm it and
   enter the passphrase. *)
JoinStart ==
    /\ guarded /\ bound # None /\ server[bound].root # 0 /\ Act
    /\ op' = [Begin("join", "wipe") EXCEPT !.root = server[bound].root]
    /\ UNCHANGED <<server, store, settings, app, history>>

resetStore_cursor(s) == [NewStore EXCEPT !.cursor = s.cursor]
resetStore(s) == NewStore

WipeStore ==
    /\ op.kind \in {"create", "join"} /\ op.step = "wipe"
    /\ store' = [store EXCEPT ![bound] = resetStore(@)]
    /\ op' = [op EXCEPT !.step = IF op.kind = "join" THEN "save" ELSE "recreate"]
    /\ UNCHANGED <<server, settings, app, history, counters>>

CreateRecreate ==
    /\ building("create", "recreate")
    /\ server' = [server EXCEPT ![bound] = [NewRemote(0) EXCEPT !.made = server[bound].made, !.seq = 0]]
    /\ op' = [op EXCEPT !.step = "meta"]
    /\ UNCHANGED <<store, settings, app, history, counters>>

CreateMeta ==
    /\ building("create", "meta") /\ server[bound].made < MaxRoots
    /\ server' = [server EXCEPT ![bound].root = server[bound].made + 1,
                                ![bound].made = @ + 1, ![bound].seq = @ + 1]
    /\ op' = [op EXCEPT !.step = "save", !.root = server[bound].made + 1]
    /\ UNCHANGED <<store, settings, app, history, counters>>

SaveEntry ==
    /\ op.kind \in {"create", "join"} /\ op.step = "save"
    /\ settingUp' = settingUp \ {bound}
    /\ op' = [op EXCEPT !.step = "commit"]
    /\ UNCHANGED <<server, store, bound, declared, off, app, history, counters>>

WriteAttachment ==
    /\ op.kind \in {"create", "join"} /\ op.step = "commit"
    /\ store' = [store EXCEPT ![bound].att = op.root]
    /\ op' = NoOp
    /\ UNCHANGED <<server, settings, app, history, counters>>

switchBinding(d) == bound' = d

Rebind(d) ==
    /\ unlocked /\ d # bound /\ Act
    /\ switchBinding(d)
    /\ UNCHANGED <<server, store, settingUp, declared, off, app, op, history>>

ChangePolicy(p) ==
    /\ unlocked /\ Act
    /\ off' = IF p \in off THEN off \ {p} ELSE off \cup {p}
    /\ UNCHANGED <<server, store, settingUp, bound, declared, app, op, history>>

----------------------------------------------------------------------------
(* The app and the peers *)

(* A settings change is saved as the app holds the file.  What that takes
   back of a Pull still running, waiting for its reload or left without it is
   counted as told: the Pull asks for the reload because of it. *)
asBase(d, p, k, v) == IF store[d].migrated /\ store[d].base[p] # None
                      THEN store[d].base[p].content[k] = v ELSE mine[d][p][k] = v
AppEdit(p, k, v) ==
    /\ p \notin stopped /\ Act
    /\ LET held == IF memory[p] = NoFile THEN [j \in keys(p) |-> Missing] ELSE memory[p]
           was  == IF disk[p] = NoFile THEN [j \in keys(p) |-> Missing] ELSE disk[p]
           new  == [held EXCEPT ![k] = v]
           back == diffJson(was, new) \ {k}
       IN /\ new # was
          /\ memory' = [memory EXCEPT ![p] = new]
          /\ disk' = [disk EXCEPT ![p] = new]
          /\ mine' = [d \in DB |-> [mine[d] EXCEPT ![p][k] =
                        IF v = was[k] THEN @ ELSE IF asBase(d, p, k, v) THEN None
                        ELSE IF @ = None THEN was[k] ELSE @]]
          /\ told' = IF op = NoOp /\ ~reloading /\ ~unreloaded THEN told
                     ELSE [d \in DB |-> [told[d] EXCEPT ![p] = @ \cup back]]
    /\ UNCHANGED <<server, store, settings, stopped, reloading, unreloaded, op>>

PeerPush(d, p, k, v) ==
    /\ server[d].root # 0 /\ Act
    /\ LET doc == server[d].docs[p]
           was == IF doc = None THEN [vclock |-> clock(0, 0), content |-> [j \in keys(p) |-> Missing]]
                  ELSE doc
       IN /\ was.content[k] # v
          /\ server' = [server EXCEPT ![d].seq = @ + 1,
               ![d].docs[p] = [vclock |-> VC!incrementVC(was.vclock, "peer"),
                               content |-> [was.content EXCEPT ![k] = v],
                               seq |-> server[d].seq + 1]]
    /\ UNCHANGED <<store, settings, app, op, history>>

PeerCreate(d) ==
    /\ server[d].made < MaxRoots /\ Act
    /\ server' = [server EXCEPT ![d] = NewRemote(@.made + 1)]
    /\ UNCHANGED <<store, settings, app, op, history>>

----------------------------------------------------------------------------
Positions == {at \in Path \X (Key \cup {Whole}) : at[2] \in keys(at[1])}
Values(p) == Value \cup (IF p \in Keyed THEN {Missing} ELSE {})

PushStep == PushCheck \/ PushSelect \/ PushSend \/ \E p \in Path : PushRecord(p)

pull           == PullStart("pull", None)
shareAgain(at) == PullStart("share", at)

PullStarts == pull \/ PullStart("overwrite", None) \/ \E at \in Positions : shareAgain(at)

applyPlan == \/ PullStop \/ PullMark \/ PullSettle \/ PullDrop \/ PullEnd
             \/ \E p \in Path : PullWrite(p) \/ PullDelete(p)

pullAndReload == /\ op.kind \in {"pull", "share"}
                 /\ PullCopy \/ PullPlan \/ PullBackup \/ applyPlan \/ releaseDeclaration

overwrite == op.kind = "overwrite" /\ (PullCopy \/ PullPlan \/ PullBackup \/ applyPlan)

PullStep == pullAndReload \/ overwrite

create == /\ op.kind = "create"
          /\ WipeStore \/ CreateRecreate \/ CreateMeta \/ SaveEntry \/ WriteAttachment

join == op.kind = "join" /\ (WipeStore \/ SaveEntry \/ WriteAttachment)

Build == create \/ join

User == CreateStart \/ JoinStart \/ \E d \in DB : Rebind(d) \/ \E p \in Path : ChangePolicy(p)

Peers == \E d \in DB : \/ PeerCreate(d)
                      \/ \E at \in Positions, v \in Value : PeerPush(d, at[1], at[2], v)

Next == \/ PushStart \/ PushStep \/ PullStarts \/ PullStep \/ PullDeclined \/ Build \/ OpFails
        \/ Reload \/ Crash \/ User \/ Peers
        \/ \E at \in Positions : \E v \in Values(at[1]) : AppEdit(at[1], at[2], v)

Spec == Init /\ [][Next]_vars

(* A step of an operation is taken, a reload that was asked for happens, and
   the user goes on pressing Push and Pull. *)
FairSpec ==
    /\ Spec
    /\ WF_vars(PushStep \/ PullStep \/ Build) /\ WF_vars(Reload)
    /\ SF_vars(PushStart) /\ SF_vars(pull)

----------------------------------------------------------------------------
(* Properties *)

TypeOK ==
    /\ \A d \in DB :
         /\ server[d].root \in 0..server[d].made /\ server[d].made <= MaxRoots
         /\ store[d].att \in 0..server[d].made
         /\ \A p \in Path :
              /\ server[d].docs[p] \in Uploaded(p) \cup {None}
              /\ {store[d].docs[p], store[d].base[p]} \subseteq Doc(p) \cup {None}
              /\ told[d][p] \subseteq keys(p)
    /\ \A p \in Path : /\ {disk[p], memory[p]} \subseteq Content(p) \cup {NoFile}
                      /\ declared[p] \subseteq IF p \in Keyed THEN Key ELSE {}
    /\ off \subseteq Path /\ stopped \subseteq Stoppable /\ settingUp \subseteq DB
    /\ {reloading, unreloaded} \subseteq BOOLEAN /\ bound \in DB

(* What a Push changes of a shared version is what the app changed on this
   device, or what a Pull kept knowingly, and never a key declared the
   device's own. *)
PushSendsOwn ==
    [][\A p \in Path :
        LET old == server[bound].docs[p]
            new == server'[bound].docs[p]
        IN op.kind = "push" /\ op.step = "send" /\ old # new /\ old # None /\ new # None
           /\ old.vclock["peer"] = new.vclock["peer"]
           => \A k \in diffJson(old.content, new.content) :
                /\ k \notin declared[p]
                /\ \/ mine[bound][p][k] # None \/ k \in told[bound][p]
                   \/ disk[p] = NoFile \/ disk[p][k] # new.content[k]]_vars

(* A Pull that merges changes no key on the disk that the app changed and the
   server does not have, nor one declared the device's own; but the key Share
   again asks for, a path without a base (or, when the disk wins there, a key the
   app removed), and what the app wrote after the disk was read. *)
PullKeepsOwn ==
    [][\A p \in Path :
        pulling("write") /\ op.kind # "overwrite" /\ disk'[p] # disk[p] /\ acts' = acts
        /\ disk[p] # NoFile /\ op.plan[p].local # NoFile
        => \A k \in diffJson(disk[p], disk'[p]) :
             \/ op.kind = "share" /\ op.at = <<p, k>>
             \/ op.plan[p].local[k] # disk[p][k]
             \/ /\ k \notin declared[p]
                /\ \/ mine[bound][p][k] = None
                   \/ /\ ~op.plan[p].based
                      /\ p \notin store[bound].localFirst \/ disk[p][k] = Missing]_vars

(* "Reload Obsidian when a file was written - the app must re-read the files,
   or it writes its in-memory settings back over them" (config-sync.ts:975):
   unless a Pull runs or its reload is about to happen, the app holds what the
   disk has. *)
ReloadFollowsWrite ==
    op.kind \notin {"pull", "share", "overwrite"} /\ ~reloading => memory = disk

(* It does not where a Pull failed on its own store or settings after it wrote,
   or deleted a file but not the folder: no reload is asked for then.  In every
   other case the app's next change of a setting takes nothing back. *)
AppHoldsDisk == ~unreloaded => ReloadFollowsWrite

(* What every step keeps: the types, and an app that holds what the disk has. *)
ConfigInv == TypeOK /\ AppHoldsDisk

(* With Push and Pull pressed again and again, the files of a device that has
   joined and the shared ones become the same but for declared keys. *)
shared(d, p) ==
    IF disk[p] = NoFile THEN server[d].docs[p] = None
    ELSE /\ server[d].docs[p] # None
         /\ diffJson(disk[p], server[d].docs[p].content) \subseteq declared[p]

EventuallyShared == <>[](ready(bound) => \A p \in Path : participates(p) => shared(bound, p))
=============================================================================
