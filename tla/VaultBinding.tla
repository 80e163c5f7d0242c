---------------------------- MODULE VaultBinding ----------------------------
(***************************************************************************)
(* The setup of the vault database: Init and Clone, the Live Sync switch,   *)
(* the agreement check and the re-check of the database's root, on devices  *)
(* that share one server database which any of them may replace.            *)
(*                                                                         *)
(* A vault is a number: the n-th that an Init creates (`vault:meta` with    *)
(* its generation id and, if encrypted, its salt).  Documents carry the     *)
(* vault whose content they are and the key they are sealed under.          *)
(* Settings are written to disk with every change of the setup state, so a  *)
(* crash before the save is a crash before the change.                      *)
(***************************************************************************)
EXTENDS Naturals, Sequences, FiniteSets, SequencesExt

CONSTANTS
    Device,
    Unrecorded,   \* devices whose settings have no vaultRoot yet
    None,
    MaxVaults,    \* vaults created, the first included
    MaxEvents,    \* what users do, and edits pushed
    MaxFailures,  \* crashes, and steps of an operation that fail
    MaxFeed,      \* documents the server takes after the first ones
    Encryptions,  \* settings of the encryption switch, a subset of BOOLEAN
    Windows       \* the overlaps let in: see Confirm, RecreateRemote and StopLive

ASSUME BindingAssumption ==
    /\ MaxVaults \in Nat \ {0} /\ MaxEvents \in Nat
    /\ MaxFailures \in Nat /\ MaxFeed \in Nat
    /\ Encryptions \subseteq BOOLEAN /\ Encryptions # {}
    /\ Windows \subseteq {"inits", "check", "batch", "legacy"}
    /\ None \notin Nat /\ Unrecorded \subseteq Device

VARIABLES
    conn,      \* settings.connectionState
    root,      \* settings.vaultRoot: the vault set up against, 0 for a DB without meta
    enc,       \* settings.encryptionEnabled
    key,       \* VaultBinding.crypto: the vault whose key is unlocked
    op,        \* the Init, Clone or database check that runs
    check,     \* the agreement check, or the unlock at startup, in flight
    session,   \* the live session and the key its client was built with
    batch,     \* pulled rows judged and not committed yet
    local,     \* the local database: the vaults its documents are of, the pull cursor
    whole,     \* the last Init or Clone that destroyed something has ended well
    reloader,  \* an operation that may reload the app (a config Pull)
    server,    \* the database: its incarnation, its meta, its changes feed
    vaults,    \* vault -> it is encrypted
    events, failures

settings == <<conn, root, enc>>
volatile == <<key, op, check, session, batch, reloader>>
stored == <<local, whole>>
counters == <<events, failures>>
vars == <<settings, volatile, stored, server, vaults, counters>>

Vault == 1..MaxVaults
Conn == {"editing", "tested", "settingUp", "setupDone", "syncing"}
Row == [of: Vault, sealed: Vault \cup {None}, meta: BOOLEAN]
Op == [name: {"check", "init", "clone"},
       step: {"asking", "confirmed", "emptied", "recreated", "published", "filled"},
       vault: Vault \cup {0, None}]
Check == [at: {"loading", "checking"}, step: {"judging", "unlocking"},
          meta: Vault \cup {0}, agreed: BOOLEAN, own: BOOLEAN]
ASSUME NoneIsNothing == None \notin Op \cup Check

metaRow(v) == [of |-> v, sealed |-> None, meta |-> TRUE]
doc(v, k) == [of |-> v, sealed |-> k, meta |-> FALSE]

(* The key of vault v, if it has one. *)
keyOf(v) == IF v # 0 /\ vaults[v] THEN v ELSE None

(* The first state: every device was set up on vault 1.  Those of Unrecorded
   were set up by a build that kept no root, and have sync switched off; the
   others sync. *)
Init ==
    /\ vaults \in {<<e>> : e \in Encryptions}
    /\ conn = [d \in Device |-> IF d \in Unrecorded THEN "setupDone" ELSE "syncing"]
    /\ root = [d \in Device |-> IF d \in Unrecorded THEN None ELSE 1]
    /\ session = [d \in Device |->
                    IF d \in Unrecorded THEN [phase |-> "off", key |-> None]
                    ELSE [phase |-> "live", key |-> keyOf(1)]]
    /\ key = [d \in Device |-> IF d \in Unrecorded THEN None ELSE keyOf(1)]
    /\ enc = [d \in Device |-> vaults[1]]
    /\ op = [d \in Device |-> None]
    /\ check = [d \in Device |-> None]
    /\ batch = [d \in Device |-> None]
    /\ local = [d \in Device |-> [docs |-> {1}, cursor |-> [db |-> 1, seq |-> 2]]]
    /\ whole = [d \in Device |-> TRUE]
    /\ reloader = [d \in Device |-> "none"]
    /\ server = [db |-> 1, meta |-> 1, feed |-> <<metaRow(1), doc(1, keyOf(1))>>]
    /\ events = 0 /\ failures = 0

Event == events < MaxEvents /\ events' = events + 1 /\ UNCHANGED failures
Failure == failures < MaxFailures /\ failures' = failures + 1 /\ UNCHANGED events
Quiet == UNCHANGED counters

(* changeBlocker and reloadConflict: what refuses a change of the setup, and
   what also refuses Init and Clone. *)
idle(d) == op[d] = None
(* Mutant: the lease ends with the operation, before the app reloads. *)
reloadConflict_released(d) == reloader[d] = "runs"
reloadConflict(d) == reloader[d] # "none"

(* Mutant: fingerprints without a generation id, which tell encrypted roots
   apart by their salt and plain ones not at all. *)
rootChanged_bySalt(d, meta) == root[d] # None /\ keyOf(root[d]) # keyOf(meta)
(* rootChanged: the database is not the one this device was set up against. *)
rootChanged(d, meta) == root[d] # None /\ root[d] # meta

(* stopLive.  The abort signal does not reach everything the session awaits: an
   agreement check in flight still concludes (window "check"), a batch past its
   last cancellation check is still committed (window "batch"). *)
StopLive(d) ==
    /\ session' = [session EXCEPT ![d] = [phase |-> "off", key |-> None]]
    /\ check' = [check EXCEPT ![d] = IF @ = None \/ "check" \notin Windows THEN None
                                     ELSE [@ EXCEPT !.own = FALSE]]
    /\ batch' = IF "batch" \in Windows THEN batch ELSE [batch EXCEPT ![d] = None]

---------------------------------------------------------------------------
(* The user's switches and settings, refused while an operation runs. *)

LiveOn(d) ==
    /\ idle(d) /\ conn[d] = "setupDone" /\ Event
    /\ conn' = [conn EXCEPT ![d] = "syncing"]
    /\ session' = [session EXCEPT ![d] = [phase |-> "checking", key |-> None]]
    /\ UNCHANGED <<root, enc, key, op, check, batch, reloader, stored, server, vaults>>

LiveOff(d) ==
    /\ idle(d) /\ conn[d] = "syncing" /\ Event
    /\ StopLive(d)
    /\ conn' = [conn EXCEPT ![d] = "setupDone"]
    /\ UNCHANGED <<root, enc, key, op, reloader, stored, server, vaults>>

(* Step 1's encryption switch; the tab offers it only while sync is off. *)
ChangeCodecSetting(d, e) ==
    /\ idle(d) /\ conn[d] # "syncing" /\ e # enc[d] /\ Event
    /\ enc' = [enc EXCEPT ![d] = e]
    /\ conn' = [conn EXCEPT ![d] = IF @ = "setupDone" THEN "tested" ELSE @]
    /\ UNCHANGED <<root, volatile, stored, server, vaults>>

(* Step 2's Apply and the CouchDB tab's Apply of new credentials. *)
Apply(d, state) ==
    /\ idle(d) /\ conn[d] \notin {"syncing", state} /\ Event
    /\ conn' = [conn EXCEPT ![d] = state]
    /\ UNCHANGED <<root, enc, volatile, stored, server, vaults>>

applyDatabase(d) == Apply(d, "tested")
applyServer(d) == Apply(d, "editing")

(* Step 2's Check holds the lock of Init and Clone while it reads. *)
CheckDatabase(d) ==
    /\ idle(d) /\ Event
    /\ op' = [op EXCEPT ![d] = [name |-> "check", step |-> "asking", vault |-> None]]
    /\ UNCHANGED <<settings, key, check, session, batch, reloader, stored, server, vaults>>

CheckedDatabase(d) ==
    /\ (IF idle(d) THEN FALSE ELSE op[d].name = "check") /\ Quiet
    /\ op' = [op EXCEPT ![d] = None]
    /\ UNCHANGED <<settings, key, check, session, batch, reloader, stored, server, vaults>>

---------------------------------------------------------------------------
(* Init and Clone *)

at(d, name, step) == IF idle(d) THEN FALSE ELSE op[d].name = name /\ op[d].step = step
running(d) == IF idle(d) THEN FALSE ELSE op[d].name \in {"init", "clone"}
destructive(d) == IF running(d) THEN op[d].step # "asking" ELSE FALSE
stepTo(d, s) == op' = [op EXCEPT ![d].step = s]

(* Clone refuses an empty database, and one whose passphrase is not known
   (Fail). *)
cloneable == server.feed # <<>>

(* The preparation, up to the dialog: it reads the database and changes
   nothing. *)
Prepare(d, name) ==
    /\ idle(d) /\ ~reloadConflict(d) /\ Event
    /\ name = "clone" => cloneable
    /\ op' = [op EXCEPT ![d] = [name |-> name, step |-> "asking",
                                vault |-> IF name = "clone" THEN server.meta ELSE None]]
    /\ UNCHANGED <<settings, key, check, session, batch, reloader, stored, server, vaults>>

(* The key the run works under: the one its preparation derived or unlocked,
   whatever was unlocked before. *)
(* Mutant: a key unlocked earlier is used again. *)
runKey_cached(d, v) ==
    IF v = 0 \/ ~vaults'[v] THEN None ELSE IF key[d] # None THEN key[d] ELSE v
runKey(d, v) == IF v # 0 /\ vaults'[v] THEN v ELSE None

(* Mutant: the state is written at the end of the run only. *)
Confirm_unmarked(d) ==
    /\ at(d, "init", "asking") \/ at(d, "clone", "asking")
    /\ Quiet
    /\ op[d].name = "init" => /\ Len(vaults) < MaxVaults
                              /\ \A e \in Device : destructive(e) => op[e].name # "init"
    /\ LET v == IF op[d].name = "init" THEN Len(vaults) + 1 ELSE op[d].vault
       IN /\ vaults' = IF op[d].name = "init" THEN Append(vaults, enc[d]) ELSE vaults
          /\ key' = [key EXCEPT ![d] = runKey(d, v)]
          /\ op' = [op EXCEPT ![d].step = "confirmed", ![d].vault = v]
    /\ StopLive(d)
    /\ UNCHANGED <<conn, root, enc, reloader, stored, server>>
(* beginDestructive, and the key the run works under.  Unless the window is
   open, no two Inits destroy and fill the database at a time ("inits"). *)
Confirm(d) ==
    /\ at(d, "init", "asking") \/ at(d, "clone", "asking")
    /\ Quiet
    /\ op[d].name = "init" =>
        /\ Len(vaults) < MaxVaults
        /\ "inits" \notin Windows =>
            \A e \in Device : destructive(e) => op[e].name # "init"
    /\ LET v == IF op[d].name = "init" THEN Len(vaults) + 1 ELSE op[d].vault
       IN /\ vaults' = IF op[d].name = "init" THEN Append(vaults, enc[d]) ELSE vaults
          /\ key' = [key EXCEPT ![d] = runKey(d, v)]
          /\ op' = [op EXCEPT ![d].step = "confirmed", ![d].vault = v]
    /\ StopLive(d)
    /\ conn' = [conn EXCEPT ![d] = "settingUp"]
    /\ UNCHANGED <<root, enc, reloader, stored, server>>

(* Mutant: the destroyed database is not opened again. *)
(* The local database is destroyed and opened empty. *)
EmptyLocal(d) ==
    /\ at(d, "init", "confirmed") \/ at(d, "clone", "confirmed")
    /\ Quiet
    /\ local' = [local EXCEPT ![d] = [docs |-> {}, cursor |-> None]]
    /\ whole' = [whole EXCEPT ![d] = FALSE]
    /\ stepTo(d, "emptied")
    /\ UNCHANGED <<settings, key, check, session, batch, reloader, server, vaults>>

(* recreateRemote: delete the database and create it again.  Unless the window
   "legacy" is open, not between the unlock and the check of a device that has
   no recorded root. *)
RecreateRemote(d) ==
    /\ at(d, "init", "emptied") /\ Quiet
    /\ "legacy" \notin Windows =>
        \A e \in Device \ {d} : root[e] = None => key[e] = None /\ check[e] = None
    /\ server' = [db |-> server.db + 1, meta |-> 0, feed |-> <<>>]
    /\ stepTo(d, "recreated")
    /\ UNCHANGED <<settings, key, check, session, batch, reloader, stored, vaults>>

(* publishMeta: first of all documents.  A meta that is already there is a
   conflict row, which pushMeta does not look at. *)
PublishMeta(d) ==
    /\ at(d, "init", "recreated") /\ Quiet
    /\ server' = IF server.meta # 0 THEN server
                 ELSE [server EXCEPT !.meta = op[d].vault,
                                     !.feed = Append(@, metaRow(op[d].vault))]
    /\ stepTo(d, "published")
    /\ UNCHANGED <<settings, key, check, session, batch, reloader, stored, vaults>>

scanVaultToDb(d) == local[d].docs \cup {op[d].vault}

(* The vault is scanned and everything the local database then holds is
   pushed, under the key at hand; an encrypted vault without a key is refused
   (wrapClient), which Fail stands for. *)
PushVault(d) ==
    /\ at(d, "init", "published") /\ Quiet
    /\ enc[d] => key[d] # None
    /\ local' = [local EXCEPT ![d].docs = scanVaultToDb(d)]
    /\ server' = [server EXCEPT !.feed = @ \o
                    SetToSeq({doc(v, IF enc[d] THEN key[d] ELSE None) : v \in local'[d].docs})]
    /\ stepTo(d, "filled")
    /\ UNCHANGED <<settings, key, check, session, batch, reloader, whole, vaults>>

(* A client with key k reads rows sealed under it; without a key it takes a
   row as it is.  A row sealed under another key does not decrypt, a plain
   one is refused by the cipher floor. *)
reads(k, r) == r.meta \/ k = None \/ r.sealed = k

(* pullAll and the writes to the vault. *)
PullVault(d) ==
    /\ at(d, "clone", "emptied") /\ Quiet
    /\ \A r \in Range(server.feed) : reads(key[d], r)
    /\ local' = [local EXCEPT ![d].docs = @ \cup {r.of : r \in {x \in Range(server.feed) : ~x.meta}}]
    /\ stepTo(d, "filled")
    /\ UNCHANGED <<settings, key, check, session, batch, reloader, whole, server, vaults>>

(* A Clone commits the codec of the vault it cloned. *)
adoptedCodec(d) == IF op[d].name = "clone" THEN keyOf(op[d].vault) # None ELSE enc[d]

(* settleSetup: the device is bound to the vault the run prepared. *)
Settle(d) ==
    /\ at(d, "init", "filled") \/ at(d, "clone", "filled")
    /\ Quiet
    /\ conn' = [conn EXCEPT ![d] = "setupDone"]
    /\ root' = [root EXCEPT ![d] = op[d].vault]
    /\ enc' = [enc EXCEPT ![d] = adoptedCodec(d)]
    /\ whole' = [whole EXCEPT ![d] = TRUE]
    /\ op' = [op EXCEPT ![d] = None]
    /\ UNCHANGED <<key, check, session, batch, reloader, local, server, vaults>>

(* The run ends early: before the dialog is answered nothing has changed,
   after it the key is dropped and the state stays "settingUp". *)
Fail(d) ==
    /\ running(d) /\ Failure
    /\ key' = IF destructive(d) THEN [key EXCEPT ![d] = None] ELSE key
    /\ op' = [op EXCEPT ![d] = None]
    /\ UNCHANGED <<settings, check, session, batch, reloader, stored, server, vaults>>

---------------------------------------------------------------------------
(* The agreement check of a session that opens, and the unlock at startup *)

(* Both read vault:meta and compare its codec with the settings. *)
FetchMeta(d) ==
    /\ session[d].phase \in {"loading", "checking"} /\ check[d] = None /\ Quiet
    /\ check' = [check EXCEPT ![d] =
        [at |-> session[d].phase, step |-> "judging", meta |-> server.meta,
         agreed |-> enc[d] = (keyOf(server.meta) # None), own |-> TRUE]]
    /\ UNCHANGED <<settings, key, op, session, batch, reloader, stored, server, vaults>>

(* The session whose check it is goes on, if it still stands. *)
Go(d, phase, k) ==
    /\ check' = [check EXCEPT ![d] = None]
    /\ session' = IF ~check[d].own THEN session
                  ELSE [session EXCEPT ![d] = [phase |-> phase, key |-> k]]

(* pause: persist "tested"; the session ends with the error. *)
Pause(d) ==
    /\ conn' = [conn EXCEPT ![d] = "tested"]
    /\ Go(d, "off", None)
    /\ UNCHANGED <<root, key>>

(* The check passed: a device without a recorded root takes this one, and the
   client is built with the key at hand. *)
Pass(d, k) ==
    /\ root' = [root EXCEPT ![d] = IF @ = None THEN check[d].meta ELSE @]
    /\ key' = [key EXCEPT ![d] = k]
    /\ Go(d, "live", IF enc[d] THEN k ELSE None)
    /\ UNCHANGED conn

(* The unlock at startup ended, well or not: the session opens. *)
Loaded(d, k) ==
    /\ key' = [key EXCEPT ![d] = k]
    /\ Go(d, "checking", None)
    /\ UNCHANGED <<conn, root>>

judging(d, where) ==
    IF check[d] = None THEN FALSE ELSE check[d].step = "judging" /\ check[d].at = where
needsKey(d) == check[d].agreed /\ keyOf(check[d].meta) # None /\ key[d] = None

Unlocks(d) ==
    /\ judging(d, "loading") \/ (judging(d, "checking") /\ ~rootChanged(d, check[d].meta))
    /\ needsKey(d) /\ Quiet
    /\ check' = [check EXCEPT ![d].step = "unlocking"]
    /\ UNCHANGED <<settings, key, op, session, batch, reloader, stored, server, vaults>>

Judge(d) ==
    /\ Quiet
    /\ \/ judging(d, "loading") /\ ~needsKey(d) /\ Loaded(d, key[d])
       \/ judging(d, "checking") /\ (rootChanged(d, check[d].meta) \/ ~check[d].agreed) /\ Pause(d)
       \/ /\ judging(d, "checking") /\ ~rootChanged(d, check[d].meta)
          /\ check[d].agreed /\ ~needsKey(d) /\ Pass(d, key[d])
    /\ UNCHANGED <<enc, op, batch, reloader, stored, server, vaults>>

(* The key of the meta that was read is derived and kept. *)
Unlocked(d) ==
    /\ (IF check[d] = None THEN FALSE ELSE check[d].step = "unlocking") /\ Quiet
    /\ IF check[d].at = "loading" THEN Loaded(d, check[d].meta) ELSE Pass(d, check[d].meta)
    /\ UNCHANGED <<enc, op, batch, reloader, stored, server, vaults>>

(* The passphrase does not unlock the vault, or is not entered. *)
NotUnlocked(d) ==
    /\ (IF check[d] = None THEN FALSE ELSE check[d].step = "unlocking") /\ Event
    /\ IF check[d].at = "loading" THEN Loaded(d, key[d]) ELSE Pause(d)
    /\ UNCHANGED <<enc, op, batch, reloader, stored, server, vaults>>

---------------------------------------------------------------------------
(* The live session *)

live(d) == session[d].phase = "live"

(* An edit is recorded and pushed under the session's key.  The server takes
   it whatever database stands there now. *)
Push(d) ==
    /\ live(d) /\ Event /\ Len(server.feed) < MaxFeed
    /\ local[d].docs # {}
    /\ \E v \in local[d].docs :
        server' = [server EXCEPT !.feed = Append(@, doc(v, session[d].key))]
    /\ UNCHANGED <<settings, volatile, stored, vaults>>

(* CouchDB answers a sequence of another incarnation from the start. *)
rowsSince(c) ==
    IF c = None THEN server.feed
    ELSE IF c.db = server.db THEN SubSeq(server.feed, c.seq + 1, Len(server.feed))
    ELSE server.feed

(* The session ends and does not come back by itself. *)
Halted(d) == session' = [session EXCEPT ![d] = [phase |-> "halted", key |-> None]]

PausedBy(d) ==
    /\ conn' = [conn EXCEPT ![d] = "tested"]
    /\ session' = [session EXCEPT ![d] = [phase |-> "off", key |-> None]]

regression(d) == local[d].cursor # None /\ Len(server.feed) < local[d].cursor.seq
observed(rows) == LET m == {r \in Range(rows) : r.meta} IN (CHOOSE r \in m : TRUE).of

(* An answer of the changes feed is judged as it arrives: a row that does not
   decrypt and a sequence that went back have the root read again, a row of
   vault:meta is compared with the root. *)
PullFetch(d) ==
    /\ live(d) /\ batch[d] = None /\ Quiet
    /\ LET rows == rowsSince(local[d].cursor)
           sealedElse == {r \in Range(rows) : ~reads(session[d].key, r)}
           garbled == \E r \in sealedElse : r.sealed # None
           replaced == IF \E r \in Range(rows) : r.meta
                       THEN rootChanged(d, observed(rows)) ELSE FALSE
       IN /\ rows # <<>>
          /\ \/ /\ sealedElse # {} /\ ~garbled       \* the cipher floor: terminal
                /\ Halted(d) /\ UNCHANGED <<conn, batch>>
             \/ /\ garbled /\ rootChanged(d, server.meta)
                /\ PausedBy(d) /\ UNCHANGED batch
             \/ /\ sealedElse = {} /\ replaced
                /\ PausedBy(d) /\ UNCHANGED batch
             \/ /\ sealedElse = {} /\ ~replaced /\ regression(d) /\ rootChanged(d, server.meta)
                /\ PausedBy(d) /\ UNCHANGED batch
             \/ /\ sealedElse = {} /\ ~replaced /\ ~regression(d)
                /\ batch' = [batch EXCEPT ![d] =
                    [docs |-> {r.of : r \in {x \in Range(rows) : ~x.meta}},
                     cursor |-> [db |-> server.db, seq |-> Len(server.feed)]]]
                /\ UNCHANGED <<conn, session>>
    /\ UNCHANGED <<root, enc, key, op, check, reloader, stored, server, vaults>>

(* The writer commits what it accepted together with the cursor. *)
PullCommit(d) ==
    /\ batch[d] # None /\ Quiet
    /\ local' = [local EXCEPT ![d] = [docs |-> @.docs \cup batch[d].docs,
                                      cursor |-> batch[d].cursor]]
    /\ batch' = [batch EXCEPT ![d] = None]
    /\ UNCHANGED <<settings, key, op, check, session, reloader, whole, server, vaults>>

(* The engine opens the session again (an error, a reconnect). *)
SessionRestarts(d) ==
    /\ session[d].phase \in {"live", "halted"} /\ conn[d] = "syncing" /\ Event
    /\ session' = [session EXCEPT ![d] = [phase |-> "checking", key |-> None]]
    /\ batch' = IF "batch" \in Windows THEN batch ELSE [batch EXCEPT ![d] = None]
    /\ UNCHANGED <<settings, key, op, check, reloader, stored, server, vaults>>

---------------------------------------------------------------------------
(* Reloads *)

(* The plugin loads: nothing in memory is left, the settings say what starts. *)
Restart(d) ==
    /\ key' = [key EXCEPT ![d] = None]
    /\ op' = [op EXCEPT ![d] = None]
    /\ check' = [check EXCEPT ![d] = None]
    /\ batch' = [batch EXCEPT ![d] = None]
    /\ reloader' = [reloader EXCEPT ![d] = "none"]
    /\ session' = [session EXCEPT ![d] =
        [phase |-> IF conn[d] = "syncing" THEN "loading" ELSE "off", key |-> None]]

Crash(d) ==
    /\ Failure /\ Restart(d)
    /\ UNCHANGED <<settings, stored, server, vaults>>

(* A config Pull or Join takes the lease of an operation that reloads. *)
ConfigStarts(d) ==
    /\ reloader[d] = "none" /\ ~running(d) /\ Event
    /\ reloader' = [reloader EXCEPT ![d] = "runs"]
    /\ UNCHANGED <<settings, key, op, check, session, batch, stored, server, vaults>>

(* It ends without a reload, or holds its lease until the app reloads. *)
ConfigEnds(d) ==
    /\ reloader[d] = "runs" /\ Quiet
    /\ \E next \in {"none", "reloading"} : reloader' = [reloader EXCEPT ![d] = next]
    /\ UNCHANGED <<settings, key, op, check, session, batch, stored, server, vaults>>

Reload(d) ==
    /\ reloader[d] = "reloading" /\ Quiet
    /\ Restart(d)
    /\ UNCHANGED <<settings, stored, server, vaults>>

(* Maintenance: "Delete local vault database" restarts the plugin. *)
DeleteLocal(d) ==
    /\ idle(d) /\ Event
    /\ local' = [local EXCEPT ![d] = [docs |-> {}, cursor |-> None]]
    /\ Restart(d)
    /\ UNCHANGED <<settings, whole, server, vaults>>

---------------------------------------------------------------------------
runs(d, name) == IF idle(d) THEN FALSE ELSE op[d].name = name

(* What SetupService carries out once the user has confirmed. *)
setupInit(d) == EmptyLocal(d) \/ RecreateRemote(d) \/ PublishMeta(d) \/ PushVault(d)
setupClone(d) == EmptyLocal(d) \/ PullVault(d)

init(d) ==
    \/ Prepare(d, "init")
    \/ runs(d, "init") /\ (Confirm(d) \/ setupInit(d) \/ Settle(d) \/ Fail(d))

clone(d) ==
    \/ Prepare(d, "clone")
    \/ runs(d, "clone") /\ (Confirm(d) \/ setupClone(d) \/ Settle(d) \/ Fail(d))

Setup(d) == init(d) \/ clone(d)

User(d) ==
    \/ LiveOn(d) \/ LiveOff(d) \/ CheckDatabase(d) \/ CheckedDatabase(d)
    \/ \E e \in Encryptions : ChangeCodecSetting(d, e)
    \/ applyDatabase(d) \/ applyServer(d)
    \/ ConfigStarts(d) \/ ConfigEnds(d) \/ DeleteLocal(d)

Session(d) ==
    \/ FetchMeta(d) \/ Unlocks(d) \/ Judge(d) \/ Unlocked(d)
    \/ PullFetch(d) \/ PullCommit(d)

Next ==
    \E d \in Device :
        \/ Setup(d) \/ User(d) \/ Session(d) \/ NotUnlocked(d)
        \/ Push(d) \/ SessionRestarts(d)
        \/ Crash(d) \/ Reload(d)

Spec == Init /\ [][Next]_vars

(* A session goes on while it can; nobody has to act. *)
FairSpec == Spec /\ \A d \in Device : WF_vars(Session(d))

---------------------------------------------------------------------------
TypeOK ==
    /\ conn \in [Device -> Conn]
    /\ root \in [Device -> Vault \cup {0, None}]
    /\ enc \in [Device -> BOOLEAN]
    /\ key \in [Device -> Vault \cup {None}]
    /\ op \in [Device -> Op \cup {None}]
    /\ check \in [Device -> Check \cup {None}]
    /\ session \in [Device -> [phase: {"off", "loading", "checking", "live", "halted"},
                               key: Vault \cup {None}]]
    /\ batch \in [Device -> [docs: SUBSET Vault, cursor: [db: Nat, seq: Nat]] \cup {None}]
    /\ local \in [Device -> [docs: SUBSET Vault, cursor: [db: Nat, seq: Nat] \cup {None}]]
    /\ whole \in [Device -> BOOLEAN]
    /\ reloader \in [Device -> {"none", "runs", "reloading"}]
    /\ server \in [db: Nat, meta: Vault \cup {0}, feed: Seq(Row)]
    /\ vaults \in Seq(BOOLEAN) /\ Len(vaults) \in Vault
    /\ events \in 0..MaxEvents /\ failures \in 0..MaxFailures

(* beginDestructive's promise: an Init or Clone that fails or is killed half
   way never leaves a device that syncs, or could be switched on, with what
   it has destroyed. *)
NothingHalfBuilt ==
    \A d \in Device : conn[d] \in {"setupDone", "syncing"} => whole[d]

(* What every step of a setup keeps: its types, and nothing half built. *)
BindingInv == TypeOK /\ NothingHalfBuilt

(* "A re-created DB pauses the session before anything of it is applied"
   (pull-pipeline.ts:22): a live session never takes documents of a vault newer
   than the one its device was set up with.  The pause rests on the meta, which
   Init writes before its own documents.  But a device that has just replaced
   the vault is live, and pushes into the database a second one is replacing in
   turn, before that one's meta; the third device takes those documents. *)
SessionTakesOwn ==
    \A d \in Device : live(d) /\ root[d] \in Vault =>
        \A v \in local[d].docs : v <= root[d]

(* A live session on an encrypted vault seals under the key of the vault its
   device is bound to, whatever was unlocked, failed or replaced before. *)
KeyOfRoot ==
    \A d \in Device : live(d) => session[d].key = (IF root[d] = None THEN None ELSE keyOf(root[d]))

(* ReloadGuard: a planned reload of the app never meets an Init or a Clone,
   neither one that asks nor one that destroys. *)
PlannedReloadsWait ==
    \A d \in Device : reloader[d] = "reloading" => ~running(d)

(* A device that syncs with a database another device has replaced finds out:
   its session ends, and it does not open one against the new vault. *)
astray(d) ==
    /\ session[d].phase \in {"loading", "checking", "live"}
    /\ root[d] # None /\ server.meta # 0 /\ root[d] # server.meta
ReplacementNoticed ==
    \A d \in Device : astray(d) ~> ~astray(d)
=============================================================================
