------------------------- MODULE VaultBinding_proofs -------------------------
(***************************************************************************)
(* VaultBinding for any devices, vaults and interleavings: what an Init or *)
(* a Clone destroyed is never synced with, a planned reload meets neither, *)
(* and a session seals under the key of the vault its device is bound to.  *)
(***************************************************************************)
EXTENDS VaultBinding, FiniteSetTheorems, SequenceTheorems, TLAPS

-----------------------------------------------------------------------------
(* What is kept whatever overlaps are let in.                              *)

SettingsOK ==
  /\ conn \in [Device -> Conn]
  /\ root \in [Device -> Vault \cup {0, None}]
  /\ enc \in [Device -> BOOLEAN]

VolatileOK ==
  /\ key \in [Device -> Vault \cup {None}]
  /\ op \in [Device -> Op \cup {None}]
  /\ check \in [Device -> Check \cup {None}]
  /\ session \in [Device -> [phase: {"off", "loading", "checking", "live", "halted"},
                             key: Vault \cup {None}]]
  /\ batch \in [Device -> [docs: SUBSET Vault, cursor: [db: Nat, seq: Nat]] \cup {None}]
  /\ reloader \in [Device -> {"none", "runs", "reloading"}]

StoredOK ==
  /\ local \in [Device -> [docs: SUBSET Vault, cursor: [db: Nat, seq: Nat] \cup {None}]]
  /\ whole \in [Device -> BOOLEAN]

RemoteOK ==
  /\ server \in [db: Nat, meta: Vault \cup {0}, feed: Seq(Row)]
  /\ vaults \in Seq(BOOLEAN) /\ Len(vaults) \in Vault

CountersOK == events \in 0..MaxEvents /\ failures \in 0..MaxFailures

\* The vault of a run is known once its dialog is answered.
RunsOK ==
  \A d \in Device : running(d) =>
    /\ op[d].name = "clone" => op[d].vault # None
    /\ op[d].name = "init" /\ op[d].step # "asking" => op[d].vault \in Vault

\* There is something to unlock.
UnlockingOK ==
  \A d \in Device : check[d] # None /\ check[d].step = "unlocking" => check[d].meta # 0

LeasesOK == \A d \in Device : reloader[d] # "none" => ~running(d)

MarkedOK ==
  \A d \in Device : /\ destructive(d) => conn[d] \in {"settingUp", "tested"}
                    /\ conn[d] \in {"setupDone", "syncing"} => whole[d]

Kept ==
  /\ SettingsOK /\ VolatileOK /\ StoredOK /\ RemoteOK /\ CountersOK
  /\ RunsOK /\ UnlockingOK /\ LeasesOK /\ MarkedOK

LEMMA KeptMeans == Kept => BindingInv /\ PlannedReloadsWait
  BY DEF Kept, SettingsOK, VolatileOK, StoredOK, RemoteOK, CountersOK, LeasesOK,
         MarkedOK, BindingInv, TypeOK, NothingHalfBuilt, PlannedReloadsWait

LEMMA VaultsAreNumbers == Vault \subseteq Nat /\ None \notin Vault \cup {0} /\ 1 \in Vault
  BY BindingAssumption DEF Vault

LEMMA CountersKept ==
  ASSUME CountersOK, Event \/ Failure \/ Quiet
  PROVE  CountersOK'
  BY BindingAssumption DEF CountersOK, Event, Failure, Quiet, counters

LEMMA StopLiveKeeps ==
  ASSUME Kept, NEW d \in Device, StopLive(d)
  PROVE  /\ check' \in [Device -> Check \cup {None}]
         /\ session' \in [Device -> [phase: {"off", "loading", "checking", "live", "halted"},
                                     key: Vault \cup {None}]]
         /\ batch' \in [Device -> [docs: SUBSET Vault, cursor: [db: Nat, seq: Nat]] \cup {None}]
         /\ UnlockingOK'
<1> DEFINE cd == IF check[d] = None \/ "check" \notin Windows THEN None
                 ELSE [check[d] EXCEPT !.own = FALSE]
<1>1. check \in [Device -> Check \cup {None}] /\ check' = [check EXCEPT ![d] = cd]
  BY DEF Kept, VolatileOK, StopLive
<1>2. /\ cd \in Check \cup {None}
      /\ cd # None => check[d] # None /\ cd.step = check[d].step /\ cd.meta = check[d].meta
  <2>1. CASE check[d] = None \/ "check" \notin Windows
    BY <2>1
  <2>2. CASE ~(check[d] = None \/ "check" \notin Windows)
    <3>1. check[d] \in Check /\ cd = [check[d] EXCEPT !.own = FALSE]
      BY <1>1, <2>2
    <3> QED
      BY <3>1 DEF Check
  <2> QED
    BY <2>1, <2>2
<1> HIDE DEF cd
<1>3. check' \in [Device -> Check \cup {None}] /\ UnlockingOK'
  BY <1>1, <1>2 DEF Kept, UnlockingOK
<1> QED
  BY <1>3 DEF StopLive, Kept, VolatileOK

LEMMA StepToKeeps ==
  ASSUME Kept, NEW d \in Device,
         NEW s \in {"asking", "confirmed", "emptied", "recreated", "published", "filled"},
         running(d), stepTo(d, s)
  PROVE  /\ op' \in [Device -> Op \cup {None}]
         /\ \A e \in Device \ {d} : op'[e] = op[e]
         /\ op[d] # None /\ op[d] \in Op
         /\ op'[d].name = op[d].name /\ op'[d].vault = op[d].vault /\ op'[d].step = s
<1>1. op \in [Device -> Op \cup {None}] /\ op[d] # None
  BY DEF Kept, VolatileOK, running, idle
<1>2. op' = [op EXCEPT ![d].step = s]
  BY DEF stepTo
<1>3. op[d] \in Op
  BY <1>1
<1> QED
  BY <1>1, <1>2, <1>3 DEF Op

LEMMA RunningAt ==
  ASSUME NEW d, NEW name \in {"init", "clone"}, NEW step, at(d, name, step)
  PROVE  /\ running(d) /\ op[d] # None /\ op[d].name = name /\ op[d].step = step
         /\ destructive(d) <=> step # "asking"
  BY DEF at, running, destructive, idle

-----------------------------------------------------------------------------
(* The user's switches.                                                    *)

LEMMA LiveOnKeeps ==
  ASSUME Kept, NEW d \in Device, LiveOn(d) PROVE Kept'
<1>1. SettingsOK' /\ VolatileOK' /\ StoredOK' /\ RemoteOK'
  BY VaultsAreNumbers
     DEF LiveOn, Kept, SettingsOK, VolatileOK, StoredOK, RemoteOK, stored, Conn
<1>2. CountersOK'
  BY CountersKept DEF LiveOn, Kept
<1>3. RunsOK' /\ UnlockingOK' /\ LeasesOK' /\ MarkedOK'
  BY VaultsAreNumbers
     DEF LiveOn, Kept, SettingsOK, VolatileOK, StoredOK, RemoteOK,
         RunsOK, UnlockingOK, LeasesOK, MarkedOK, idle, running, destructive, stored
<1> QED
  BY <1>1, <1>2, <1>3 DEF Kept

LEMMA LiveOffKeeps ==
  ASSUME Kept, NEW d \in Device, LiveOff(d) PROVE Kept'
<1>1. SettingsOK' /\ VolatileOK' /\ StoredOK' /\ RemoteOK'
  BY VaultsAreNumbers, StopLiveKeeps
     DEF LiveOff, Kept, SettingsOK, VolatileOK, StoredOK, RemoteOK, stored, Conn
<1>2. CountersOK'
  BY CountersKept DEF LiveOff, Kept
<1>3. RunsOK' /\ UnlockingOK' /\ LeasesOK' /\ MarkedOK'
  BY VaultsAreNumbers, StopLiveKeeps
     DEF LiveOff, Kept, SettingsOK, VolatileOK, StoredOK, RemoteOK,
         RunsOK, UnlockingOK, LeasesOK, MarkedOK, idle, running, destructive, stored
<1> QED
  BY <1>1, <1>2, <1>3 DEF Kept

LEMMA ChangeCodecSettingKeeps ==
  ASSUME Kept, NEW d \in Device, NEW e \in BOOLEAN, ChangeCodecSetting(d, e) PROVE Kept'
<1>1. SettingsOK' /\ VolatileOK' /\ StoredOK' /\ RemoteOK'
  BY VaultsAreNumbers
     DEF ChangeCodecSetting, Kept, SettingsOK, VolatileOK, StoredOK, RemoteOK, stored, volatile, Conn
<1>2. CountersOK'
  BY CountersKept DEF ChangeCodecSetting, Kept
<1>3. RunsOK' /\ UnlockingOK' /\ LeasesOK' /\ MarkedOK'
  BY VaultsAreNumbers
     DEF ChangeCodecSetting, Kept, SettingsOK, VolatileOK, StoredOK, RemoteOK,
         RunsOK, UnlockingOK, LeasesOK, MarkedOK, idle, running, destructive, stored, volatile
<1> QED
  BY <1>1, <1>2, <1>3 DEF Kept

LEMMA ApplyKeeps ==
  ASSUME Kept, NEW d \in Device, NEW state \in {"tested", "editing"}, Apply(d, state) PROVE Kept'
<1>1. SettingsOK' /\ VolatileOK' /\ StoredOK' /\ RemoteOK'
  BY VaultsAreNumbers
     DEF Apply, Kept, SettingsOK, VolatileOK, StoredOK, RemoteOK, stored, volatile, Conn
<1>2. CountersOK'
  BY CountersKept DEF Apply, Kept
<1>3. RunsOK' /\ UnlockingOK' /\ LeasesOK' /\ MarkedOK'
  BY VaultsAreNumbers
     DEF Apply, Kept, SettingsOK, VolatileOK, StoredOK, RemoteOK,
         RunsOK, UnlockingOK, LeasesOK, MarkedOK, idle, running, destructive, stored, volatile
<1> QED
  BY <1>1, <1>2, <1>3 DEF Kept

LEMMA CheckDatabaseKeeps ==
  ASSUME Kept, NEW d \in Device, CheckDatabase(d) PROVE Kept'
<1>1. SettingsOK' /\ VolatileOK' /\ StoredOK' /\ RemoteOK'
  BY VaultsAreNumbers
     DEF CheckDatabase, Kept, SettingsOK, VolatileOK, StoredOK, RemoteOK, stored, settings, Op
<1>2. CountersOK'
  BY CountersKept DEF CheckDatabase, Kept
<1>3. RunsOK' /\ UnlockingOK' /\ LeasesOK' /\ MarkedOK'
  BY VaultsAreNumbers
     DEF CheckDatabase, Kept, SettingsOK, VolatileOK, StoredOK, RemoteOK,
         RunsOK, UnlockingOK, LeasesOK, MarkedOK, idle, running, destructive, stored, settings
<1> QED
  BY <1>1, <1>2, <1>3 DEF Kept

LEMMA CheckedDatabaseKeeps ==
  ASSUME Kept, NEW d \in Device, CheckedDatabase(d) PROVE Kept'
<1>1. SettingsOK' /\ VolatileOK' /\ StoredOK' /\ RemoteOK'
  BY VaultsAreNumbers
     DEF CheckedDatabase, Kept, SettingsOK, VolatileOK, StoredOK, RemoteOK, stored, settings, Op
<1>2. CountersOK'
  BY CountersKept DEF CheckedDatabase, Kept
<1>3. RunsOK' /\ UnlockingOK' /\ LeasesOK' /\ MarkedOK'
  BY VaultsAreNumbers
     DEF CheckedDatabase, Kept, SettingsOK, VolatileOK, StoredOK, RemoteOK,
         RunsOK, UnlockingOK, LeasesOK, MarkedOK, idle, running, destructive, stored, settings
<1> QED
  BY <1>1, <1>2, <1>3 DEF Kept

-----------------------------------------------------------------------------
(* Init and Clone. *)

LEMMA PrepareKeeps ==
  ASSUME Kept, NEW d \in Device, NEW name \in {"init", "clone"}, Prepare(d, name) PROVE Kept'
<1>1. SettingsOK' /\ VolatileOK' /\ StoredOK' /\ RemoteOK'
  BY VaultsAreNumbers
     DEF Prepare, Kept, SettingsOK, VolatileOK, StoredOK, RemoteOK, stored, settings, Op
<1>2. CountersOK'
  BY CountersKept DEF Prepare, Kept
<1>3. RunsOK' /\ UnlockingOK' /\ LeasesOK' /\ MarkedOK'
  BY VaultsAreNumbers
     DEF Prepare, Kept, SettingsOK, VolatileOK, StoredOK, RemoteOK,
         RunsOK, UnlockingOK, LeasesOK, MarkedOK, idle, running, destructive, stored, settings, reloadConflict
<1> QED
  BY <1>1, <1>2, <1>3 DEF Kept

LEMMA FailKeeps ==
  ASSUME Kept, NEW d \in Device, Fail(d) PROVE Kept'
<1>1. SettingsOK' /\ VolatileOK' /\ StoredOK' /\ RemoteOK'
  BY VaultsAreNumbers
     DEF Fail, Kept, SettingsOK, VolatileOK, StoredOK, RemoteOK, stored, settings, Op
<1>2. CountersOK'
  BY CountersKept DEF Fail, Kept
<1>3. RunsOK' /\ UnlockingOK' /\ LeasesOK' /\ MarkedOK'
  BY VaultsAreNumbers
     DEF Fail, Kept, SettingsOK, VolatileOK, StoredOK, RemoteOK,
         RunsOK, UnlockingOK, LeasesOK, MarkedOK, idle, running, destructive, stored, settings
<1> QED
  BY <1>1, <1>2, <1>3 DEF Kept

\* A step of a run that goes on.
LEMMA RunGoesOn ==
  ASSUME Kept, NEW d \in Device, running(d), destructive(d),
         NEW s \in {"emptied", "recreated", "published", "filled"}, stepTo(d, s),
         UNCHANGED <<conn, reloader, check>>,
         \A e \in Device \ {d} : whole'[e] = whole[e]
  PROVE  /\ op' \in [Device -> Op \cup {None}]
         /\ RunsOK' /\ UnlockingOK' /\ LeasesOK' /\ MarkedOK'
<1>1. /\ op' \in [Device -> Op \cup {None}]
      /\ \A e \in Device \ {d} : op'[e] = op[e]
      /\ op'[d].name = op[d].name /\ op'[d].vault = op[d].vault /\ op'[d].step = s
  BY StepToKeeps
<1>2. op[d].step # "asking" /\ op[d] # None
  BY DEF running, destructive, idle
<1>3. \A e \in Device \ {d} : /\ running(e)' <=> running(e)
                              /\ destructive(e)' <=> destructive(e)
  BY <1>1 DEF running, destructive, idle
<1>4. RunsOK'
  BY <1>1, <1>2, <1>3 DEF Kept, RunsOK
<1>5. LeasesOK'
  BY <1>3 DEF Kept, LeasesOK
<1>6. MarkedOK'
  BY <1>3 DEF Kept, MarkedOK
<1> QED
  BY <1>1, <1>4, <1>5, <1>6 DEF Kept, UnlockingOK

LEMMA ConfirmKeeps ==
  ASSUME Kept, NEW d \in Device, Confirm(d) PROVE Kept'
<1> DEFINE v == IF op[d].name = "init" THEN Len(vaults) + 1 ELSE op[d].vault
<1>1. /\ running(d) /\ op[d] # None /\ op[d].name \in {"init", "clone"}
      /\ op \in [Device -> Op \cup {None}] /\ op[d] \in Op
  <2>1. /\ running(d) /\ op[d] # None /\ op[d].name \in {"init", "clone"}
        /\ op \in [Device -> Op \cup {None}]
    BY RunningAt DEF Confirm, Kept, VolatileOK
  <2> QED
    BY <2>1
<1>2. op[d].name = "init" => Len(vaults) + 1 \in Vault /\ Len(vaults) < MaxVaults
  BY BindingAssumption DEF Confirm, Kept, RemoteOK, Vault
<1>3. v \in Vault \cup {0} /\ (op[d].name = "init" => v \in Vault)
  BY <1>1, <1>2 DEF Kept, RunsOK, Op
<1>4. /\ op' = [op EXCEPT ![d].step = "confirmed", ![d].vault = v]
      /\ key' = [key EXCEPT ![d] = runKey(d, v)]
      /\ vaults' = IF op[d].name = "init" THEN Append(vaults, enc[d]) ELSE vaults
  BY DEF Confirm
<1> HIDE DEF v
<1>5. RemoteOK'
  <2>1. vaults' \in Seq(BOOLEAN) /\ Len(vaults') \in Vault
    <3>1. vaults \in Seq(BOOLEAN) /\ enc[d] \in BOOLEAN /\ Len(vaults) \in Vault
      BY DEF Kept, RemoteOK, SettingsOK
    <3>2. CASE op[d].name = "init"
      BY <1>2, <1>4, <3>1, <3>2
    <3>3. CASE op[d].name # "init"
      BY <1>4, <3>1, <3>3
    <3> QED
      BY <3>2, <3>3
  <2>2. server' = server
    BY DEF Confirm
  <2> QED
    BY <2>1, <2>2 DEF Kept, RemoteOK
<1>6. /\ op' \in [Device -> Op \cup {None}]
      /\ \A e \in Device \ {d} : op'[e] = op[e]
      /\ op'[d].name = op[d].name /\ op'[d].vault = v /\ op'[d].step = "confirmed"
  BY <1>1, <1>3, <1>4 DEF Op
<1>7. key' \in [Device -> Vault \cup {None}]
  <2>1. runKey(d, v) \in Vault \cup {None}
    BY <1>3 DEF runKey
  <2> QED
    BY <1>4, <2>1 DEF Kept, VolatileOK
<1>8. SettingsOK' /\ VolatileOK' /\ StoredOK' /\ UnlockingOK'
  BY <1>6, <1>7, StopLiveKeeps
     DEF Confirm, Kept, SettingsOK, VolatileOK, StoredOK, Conn, stored
<1>9. CountersOK'
  BY CountersKept DEF Confirm, Kept
<1>10. \A e \in Device \ {d} : /\ running(e)' <=> running(e)
                               /\ destructive(e)' <=> destructive(e)
  BY <1>6 DEF running, destructive, idle
<1>11. RunsOK'
  BY <1>1, <1>3, <1>6, <1>10, VaultsAreNumbers DEF Kept, RunsOK
<1>12. LeasesOK' /\ MarkedOK'
  <2>1. conn' = [conn EXCEPT ![d] = "settingUp"] /\ conn \in [Device -> Conn]
        /\ reloader' = reloader /\ whole' = whole
    BY DEF Confirm, Kept, SettingsOK, stored
  <2> QED
    BY <1>1, <1>10, <2>1 DEF Kept, LeasesOK, MarkedOK
<1> QED
  BY <1>5, <1>8, <1>9, <1>11, <1>12 DEF Kept

LEMMA EmptyLocalKeeps ==
  ASSUME Kept, NEW d \in Device, EmptyLocal(d) PROVE Kept'
<1>1. running(d) /\ destructive(d)
  BY RunningAt DEF EmptyLocal
<1>2. /\ op' \in [Device -> Op \cup {None}]
      /\ RunsOK' /\ UnlockingOK' /\ LeasesOK' /\ MarkedOK'
  BY <1>1, RunGoesOn DEF EmptyLocal, settings, Kept, StoredOK
<1>3. SettingsOK' /\ VolatileOK' /\ StoredOK' /\ RemoteOK'
  BY <1>2 DEF EmptyLocal, settings, Kept, SettingsOK, VolatileOK, StoredOK, RemoteOK
<1>4. CountersOK'
  BY CountersKept DEF EmptyLocal, Kept
<1> QED
  BY <1>2, <1>3, <1>4 DEF Kept

LEMMA RecreateRemoteKeeps ==
  ASSUME Kept, NEW d \in Device, RecreateRemote(d) PROVE Kept'
<1>1. running(d) /\ destructive(d)
  BY RunningAt DEF RecreateRemote
<1>2. /\ op' \in [Device -> Op \cup {None}]
      /\ RunsOK' /\ UnlockingOK' /\ LeasesOK' /\ MarkedOK'
  BY <1>1, RunGoesOn DEF RecreateRemote, settings, stored
<1>3. RemoteOK'
  BY DEF RecreateRemote, Kept, RemoteOK
<1>4. SettingsOK' /\ VolatileOK' /\ StoredOK'
  BY <1>2 DEF RecreateRemote, settings, stored, Kept, SettingsOK, VolatileOK, StoredOK
<1>5. CountersOK'
  BY CountersKept DEF RecreateRemote, Kept
<1> QED
  BY <1>2, <1>3, <1>4, <1>5 DEF Kept

LEMMA PublishMetaKeeps ==
  ASSUME Kept, NEW d \in Device, PublishMeta(d) PROVE Kept'
<1>1. running(d) /\ destructive(d) /\ op[d].name = "init" /\ op[d].step = "recreated"
  BY RunningAt DEF PublishMeta
<1>2. /\ op' \in [Device -> Op \cup {None}]
      /\ RunsOK' /\ UnlockingOK' /\ LeasesOK' /\ MarkedOK'
  BY <1>1, RunGoesOn DEF PublishMeta, settings, stored
<1>3. op[d].vault \in Vault
  BY <1>1 DEF Kept, RunsOK
<1>4. RemoteOK'
  <2>1. metaRow(op[d].vault) \in Row
    BY <1>3 DEF metaRow, Row
  <2>2. server \in [db: Nat, meta: Vault \cup {0}, feed: Seq(Row)] /\ vaults' = vaults
    BY DEF Kept, RemoteOK, PublishMeta
  <2>3. Append(server.feed, metaRow(op[d].vault)) \in Seq(Row)
    BY <2>1, <2>2
  <2>4. server' \in [db: Nat, meta: Vault \cup {0}, feed: Seq(Row)]
    <3>1. CASE server.meta # 0
      BY <2>2, <3>1 DEF PublishMeta
    <3>2. CASE server.meta = 0
      BY <1>3, <2>2, <2>3, <3>2 DEF PublishMeta
    <3> QED
      BY <3>1, <3>2
  <2> QED
    BY <2>2, <2>4 DEF Kept, RemoteOK
<1>5. SettingsOK' /\ VolatileOK' /\ StoredOK'
  BY <1>2 DEF PublishMeta, settings, stored, Kept, SettingsOK, VolatileOK, StoredOK
<1>6. CountersOK'
  BY CountersKept DEF PublishMeta, Kept
<1> QED
  BY <1>2, <1>4, <1>5, <1>6 DEF Kept

(***************************************************************************)
(* The sequence of a finite set is one of its elements, in some order.     *)
(***************************************************************************)
LEMMA SeqOfSet ==
  ASSUME NEW S, NEW T, IsFiniteSet(S), S \subseteq T
  PROVE  SetToSeq(S) \in Seq(T)
<1>1. Cardinality(S) \in Nat /\ ExistsBijection(1 .. Cardinality(S), S)
  BY FS_CardinalityType
<1>2. PICK f \in [1 .. Cardinality(S) -> S] : IsInjective(f)
  BY <1>1 DEF ExistsBijection, Bijection, Injection
<1>3. SetToSeq(S) \in [1 .. Cardinality(S) -> S]
  BY <1>2 DEF SetToSeq
<1> QED
  BY <1>1, <1>3

LEMMA VaultsAreFinite == \A S \in SUBSET Vault : IsFiniteSet(S)
<1>1. IsFiniteSet(Vault)
  BY BindingAssumption, FS_Interval DEF Vault
<1> QED
  BY <1>1, FS_Subset

LEMMA PushVaultKeeps ==
  ASSUME Kept, NEW d \in Device, PushVault(d) PROVE Kept'
<1> DEFINE ds == scanVaultToDb(d)
           k == IF enc[d] THEN key[d] ELSE None
<1>1. running(d) /\ destructive(d) /\ op[d].name = "init" /\ op[d].step = "published"
  BY RunningAt DEF PushVault
<1>2. /\ op' \in [Device -> Op \cup {None}]
      /\ RunsOK' /\ UnlockingOK' /\ LeasesOK' /\ MarkedOK'
  BY <1>1, RunGoesOn DEF PushVault, settings
<1>3. op[d].vault \in Vault
  BY <1>1 DEF Kept, RunsOK
<1>4. local \in [Device -> [docs: SUBSET Vault, cursor: [db: Nat, seq: Nat] \cup {None}]]
  BY DEF Kept, StoredOK
<1>5. ds \in SUBSET Vault /\ k \in Vault \cup {None}
  BY <1>3, <1>4 DEF scanVaultToDb, Kept, VolatileOK
<1>6. local' = [local EXCEPT ![d].docs = ds] /\ local'[d].docs = ds
  BY <1>4 DEF PushVault
<1> HIDE DEF ds, k
<1>7. StoredOK'
  <2>1. local' \in [Device -> [docs: SUBSET Vault, cursor: [db: Nat, seq: Nat] \cup {None}]]
    BY <1>4, <1>5, <1>6
  <2> QED
    BY <2>1 DEF PushVault, Kept, StoredOK
<1>8. RemoteOK'
  <2> DEFINE rs == {doc(v, k) : v \in ds}
  <2>1. IsFiniteSet(rs)
    <3> DEFINE f == [v \in ds |-> doc(v, k)]
    <3>1. f \in Surjection(ds, rs)
      BY DEF Surjection
    <3>2. IsFiniteSet(ds)
      BY <1>5, VaultsAreFinite
    <3> QED
      BY <3>1, <3>2, FS_Surjection
  <2>2. rs \subseteq Row
    <3>1. ASSUME NEW v \in ds PROVE doc(v, k) \in Row
      BY <1>5, <3>1 DEF doc, Row
    <3> QED
      BY <3>1
  <2>3. SetToSeq(rs) \in Seq(Row)
    BY <2>1, <2>2, SeqOfSet
  <2>4. server' = [server EXCEPT !.feed = @ \o SetToSeq(rs)] /\ vaults' = vaults
    BY <1>6 DEF PushVault, k
  <2> HIDE DEF rs
  <2>5. server.feed \o SetToSeq(rs) \in Seq(Row)
    BY <2>3 DEF Kept, RemoteOK
  <2> QED
    BY <2>4, <2>5 DEF Kept, RemoteOK
<1>9. SettingsOK' /\ VolatileOK'
  BY <1>2 DEF PushVault, settings, Kept, SettingsOK, VolatileOK
<1>10. CountersOK'
  BY CountersKept DEF PushVault, Kept
<1> QED
  BY <1>2, <1>7, <1>8, <1>9, <1>10 DEF Kept

LEMMA FeedRows ==
  ASSUME RemoteOK, NEW fd \in Seq(Row)
  PROVE  Range(fd) \subseteq Row
  BY DEF Range

LEMMA PullVaultKeeps ==
  ASSUME Kept, NEW d \in Device, PullVault(d) PROVE Kept'
<1> DEFINE new == {r.of : r \in {x \in Range(server.feed) : ~x.meta}}
<1>1. running(d) /\ destructive(d)
  BY RunningAt DEF PullVault
<1>2. /\ op' \in [Device -> Op \cup {None}]
      /\ RunsOK' /\ UnlockingOK' /\ LeasesOK' /\ MarkedOK'
  BY <1>1, RunGoesOn DEF PullVault, settings
<1>3. new \subseteq Vault
  <2>1. Range(server.feed) \subseteq Row
    BY FeedRows DEF Kept, RemoteOK
  <2> QED
    BY <2>1 DEF Row
<1>4. local' = [local EXCEPT ![d].docs = @ \cup new]
  BY DEF PullVault
<1> HIDE DEF new
<1>5. StoredOK'
  <2>1. local' \in [Device -> [docs: SUBSET Vault, cursor: [db: Nat, seq: Nat] \cup {None}]]
    BY <1>3, <1>4 DEF Kept, StoredOK
  <2> QED
    BY <2>1 DEF PullVault, Kept, StoredOK
<1>6. SettingsOK' /\ VolatileOK' /\ RemoteOK'
  BY <1>2 DEF PullVault, settings, Kept, SettingsOK, VolatileOK, RemoteOK
<1>7. CountersOK'
  BY CountersKept DEF PullVault, Kept
<1> QED
  BY <1>2, <1>5, <1>6, <1>7 DEF Kept

LEMMA SettleKeeps ==
  ASSUME Kept, NEW d \in Device, Settle(d) PROVE Kept'
<1>1. running(d) /\ op[d] # None /\ op[d].name \in {"init", "clone"}
      /\ op[d].step = "filled"
  BY RunningAt DEF Settle
<1>2. op[d].vault \in Vault \cup {0, None}
  BY <1>1 DEF Kept, VolatileOK, Op
<1>3. adoptedCodec(d) \in BOOLEAN
  BY DEF adoptedCodec, Kept, SettingsOK
<1>4. SettingsOK'
  BY <1>2, <1>3 DEF Settle, Kept, SettingsOK, Conn
<1>5. VolatileOK' /\ StoredOK' /\ RemoteOK'
  BY DEF Settle, Kept, VolatileOK, StoredOK, RemoteOK
<1>6. CountersOK'
  BY CountersKept DEF Settle, Kept
<1>7. RunsOK' /\ UnlockingOK' /\ LeasesOK' /\ MarkedOK'
  BY DEF Settle, Kept, SettingsOK, VolatileOK, StoredOK,
         RunsOK, UnlockingOK, LeasesOK, MarkedOK, idle, running, destructive
<1> QED
  BY <1>4, <1>5, <1>6, <1>7 DEF Kept

-----------------------------------------------------------------------------
(* The check. *)

LEMMA FetchMetaKeeps ==
  ASSUME Kept, NEW d \in Device, FetchMeta(d) PROVE Kept'
<1>1. SettingsOK' /\ VolatileOK' /\ StoredOK' /\ RemoteOK'
  BY VaultsAreNumbers
     DEF FetchMeta, Kept, SettingsOK, VolatileOK, StoredOK, RemoteOK, stored, settings, Check, keyOf
<1>2. CountersOK'
  BY CountersKept DEF FetchMeta, Kept
<1>3. RunsOK' /\ UnlockingOK' /\ LeasesOK' /\ MarkedOK'
  BY VaultsAreNumbers
     DEF FetchMeta, Kept, SettingsOK, VolatileOK, StoredOK, RemoteOK,
         RunsOK, UnlockingOK, LeasesOK, MarkedOK, idle, running, destructive, stored, settings, Check
<1> QED
  BY <1>1, <1>2, <1>3 DEF Kept

-----------------------------------------------------------------------------
(* The live session. *)

LEMMA PullCommitKeeps ==
  ASSUME Kept, NEW d \in Device, PullCommit(d) PROVE Kept'
<1>1. SettingsOK' /\ VolatileOK' /\ StoredOK' /\ RemoteOK'
  BY VaultsAreNumbers
     DEF PullCommit, Kept, SettingsOK, VolatileOK, StoredOK, RemoteOK, settings
<1>2. CountersOK'
  BY CountersKept DEF PullCommit, Kept
<1>3. RunsOK' /\ UnlockingOK' /\ LeasesOK' /\ MarkedOK'
  BY VaultsAreNumbers
     DEF PullCommit, Kept, SettingsOK, VolatileOK, StoredOK, RemoteOK,
         RunsOK, UnlockingOK, LeasesOK, MarkedOK, idle, running, destructive, settings
<1> QED
  BY <1>1, <1>2, <1>3 DEF Kept

LEMMA SessionRestartsKeeps ==
  ASSUME Kept, NEW d \in Device, SessionRestarts(d) PROVE Kept'
<1>1. SettingsOK' /\ VolatileOK' /\ StoredOK' /\ RemoteOK'
  BY VaultsAreNumbers
     DEF SessionRestarts, Kept, SettingsOK, VolatileOK, StoredOK, RemoteOK, settings, stored
<1>2. CountersOK'
  BY CountersKept DEF SessionRestarts, Kept
<1>3. RunsOK' /\ UnlockingOK' /\ LeasesOK' /\ MarkedOK'
  BY VaultsAreNumbers
     DEF SessionRestarts, Kept, SettingsOK, VolatileOK, StoredOK, RemoteOK,
         RunsOK, UnlockingOK, LeasesOK, MarkedOK, idle, running, destructive, settings, stored
<1> QED
  BY <1>1, <1>2, <1>3 DEF Kept

LEMMA CrashKeeps ==
  ASSUME Kept, NEW d \in Device, Crash(d) PROVE Kept'
<1>1. SettingsOK' /\ VolatileOK' /\ StoredOK' /\ RemoteOK'
  BY VaultsAreNumbers
     DEF Crash, Kept, SettingsOK, VolatileOK, StoredOK, RemoteOK, settings, stored, Restart
<1>2. CountersOK'
  BY CountersKept DEF Crash, Kept
<1>3. RunsOK' /\ UnlockingOK' /\ LeasesOK' /\ MarkedOK'
  BY VaultsAreNumbers
     DEF Crash, Kept, SettingsOK, VolatileOK, StoredOK, RemoteOK,
         RunsOK, UnlockingOK, LeasesOK, MarkedOK, idle, running, destructive, settings, stored, Restart
<1> QED
  BY <1>1, <1>2, <1>3 DEF Kept

LEMMA ReloadKeeps ==
  ASSUME Kept, NEW d \in Device, Reload(d) PROVE Kept'
<1>1. SettingsOK' /\ VolatileOK' /\ StoredOK' /\ RemoteOK'
  BY VaultsAreNumbers
     DEF Reload, Kept, SettingsOK, VolatileOK, StoredOK, RemoteOK, settings, stored, Restart
<1>2. CountersOK'
  BY CountersKept DEF Reload, Kept
<1>3. RunsOK' /\ UnlockingOK' /\ LeasesOK' /\ MarkedOK'
  BY VaultsAreNumbers
     DEF Reload, Kept, SettingsOK, VolatileOK, StoredOK, RemoteOK,
         RunsOK, UnlockingOK, LeasesOK, MarkedOK, idle, running, destructive, settings, stored, Restart
<1> QED
  BY <1>1, <1>2, <1>3 DEF Kept

LEMMA DeleteLocalKeeps ==
  ASSUME Kept, NEW d \in Device, DeleteLocal(d) PROVE Kept'
<1>1. SettingsOK' /\ VolatileOK' /\ StoredOK' /\ RemoteOK'
  BY VaultsAreNumbers
     DEF DeleteLocal, Kept, SettingsOK, VolatileOK, StoredOK, RemoteOK, settings, stored, Restart
<1>2. CountersOK'
  BY CountersKept DEF DeleteLocal, Kept
<1>3. RunsOK' /\ UnlockingOK' /\ LeasesOK' /\ MarkedOK'
  BY VaultsAreNumbers
     DEF DeleteLocal, Kept, SettingsOK, VolatileOK, StoredOK, RemoteOK,
         RunsOK, UnlockingOK, LeasesOK, MarkedOK, idle, running, destructive, settings, stored, Restart
<1> QED
  BY <1>1, <1>2, <1>3 DEF Kept

LEMMA ConfigStartsKeeps ==
  ASSUME Kept, NEW d \in Device, ConfigStarts(d) PROVE Kept'
<1>1. SettingsOK' /\ VolatileOK' /\ StoredOK' /\ RemoteOK'
  BY VaultsAreNumbers
     DEF ConfigStarts, Kept, SettingsOK, VolatileOK, StoredOK, RemoteOK, settings, stored
<1>2. CountersOK'
  BY CountersKept DEF ConfigStarts, Kept
<1>3. RunsOK' /\ UnlockingOK' /\ LeasesOK' /\ MarkedOK'
  BY VaultsAreNumbers
     DEF ConfigStarts, Kept, SettingsOK, VolatileOK, StoredOK, RemoteOK,
         RunsOK, UnlockingOK, LeasesOK, MarkedOK, idle, running, destructive, settings, stored
<1> QED
  BY <1>1, <1>2, <1>3 DEF Kept

LEMMA ConfigEndsKeeps ==
  ASSUME Kept, NEW d \in Device, ConfigEnds(d) PROVE Kept'
<1>1. SettingsOK' /\ VolatileOK' /\ StoredOK' /\ RemoteOK'
  BY VaultsAreNumbers
     DEF ConfigEnds, Kept, SettingsOK, VolatileOK, StoredOK, RemoteOK, settings, stored
<1>2. CountersOK'
  BY CountersKept DEF ConfigEnds, Kept
<1>3. RunsOK' /\ UnlockingOK' /\ LeasesOK' /\ MarkedOK'
  BY VaultsAreNumbers
     DEF ConfigEnds, Kept, SettingsOK, VolatileOK, StoredOK, RemoteOK,
         RunsOK, UnlockingOK, LeasesOK, MarkedOK, idle, running, destructive, settings, stored
<1> QED
  BY <1>1, <1>2, <1>3 DEF Kept

LEMMA UnlocksKeeps ==
  ASSUME Kept, NEW d \in Device, Unlocks(d) PROVE Kept'
<1>1. check[d] # None /\ check[d] \in Check /\ check \in [Device -> Check \cup {None}]
  BY DEF Unlocks, judging, Kept, VolatileOK
<1>2. check[d].meta # 0
  BY <1>1, VaultsAreNumbers DEF Unlocks, needsKey, keyOf
<1>3. check' = [check EXCEPT ![d].step = "unlocking"]
  BY DEF Unlocks
<1>4. check' \in [Device -> Check \cup {None}] /\ UnlockingOK'
  BY <1>1, <1>2, <1>3 DEF Check, Kept, UnlockingOK
<1>5. SettingsOK' /\ VolatileOK' /\ StoredOK' /\ RemoteOK'
  BY <1>4 DEF Unlocks, Kept, SettingsOK, VolatileOK, StoredOK, RemoteOK, stored, settings
<1>6. CountersOK'
  BY CountersKept DEF Unlocks, Kept
<1>7. RunsOK' /\ LeasesOK' /\ MarkedOK'
  BY DEF Unlocks, Kept, RunsOK, LeasesOK, MarkedOK, idle, running, destructive,
         stored, settings
<1> QED
  BY <1>4, <1>5, <1>6, <1>7 DEF Kept

\* A check that ends: the session goes on, or not.
LEMMA CheckEnds ==
  ASSUME Kept, NEW d \in Device, NEW k \in Vault \cup {None},
         check[d] # None,
         NEW m \in Vault \cup {0},
         conn' \in {conn, [conn EXCEPT ![d] = "tested"]},
         root' \in {root, [root EXCEPT ![d] = m]},
         key' \in {key, [key EXCEPT ![d] = k]},
         \E ph \in {"off", "checking", "live"} : Go(d, ph, k) \/ Go(d, ph, None),
         UNCHANGED <<enc, op, batch, reloader, stored, server, vaults>>
  PROVE  /\ SettingsOK' /\ VolatileOK' /\ StoredOK' /\ RemoteOK'
         /\ RunsOK' /\ UnlockingOK' /\ LeasesOK' /\ MarkedOK'
<1>1. SettingsOK'
  <2>1. root' \in [Device -> Vault \cup {0, None}]
    BY DEF Kept, SettingsOK
  <2>2. conn' \in [Device -> Conn]
    BY DEF Kept, SettingsOK, Conn
  <2> QED
    BY <2>1, <2>2 DEF Kept, SettingsOK
<1>2. PICK ph \in {"off", "checking", "live"} : Go(d, ph, k) \/ Go(d, ph, None)
  OBVIOUS
<1>3. check' = [check EXCEPT ![d] = None]
      /\ session' \in {session, [session EXCEPT ![d] = [phase |-> ph, key |-> k]],
                       [session EXCEPT ![d] = [phase |-> ph, key |-> None]]}
  BY <1>2 DEF Go
<1>4. VolatileOK' /\ UnlockingOK'
  <2>1. session' \in [Device -> [phase: {"off", "loading", "checking", "live", "halted"},
                                 key: Vault \cup {None}]]
    BY <1>3 DEF Kept, VolatileOK
  <2>2. key' \in [Device -> Vault \cup {None}]
    BY DEF Kept, VolatileOK
  <2>3. check' \in [Device -> Check \cup {None}] /\ UnlockingOK'
    BY <1>3 DEF Kept, VolatileOK, UnlockingOK
  <2> QED
    BY <2>1, <2>2, <2>3 DEF Kept, VolatileOK
<1>5. MarkedOK'
  BY DEF Kept, SettingsOK, MarkedOK, running, destructive, idle, stored
<1> QED
  BY <1>1, <1>4, <1>5
     DEF Kept, StoredOK, RemoteOK, RunsOK, LeasesOK, running, idle, stored

LEMMA PassEnds ==
  ASSUME Kept, NEW d \in Device, check[d] # None, NEW k \in Vault \cup {None}, Pass(d, k),
         UNCHANGED <<enc, op, batch, reloader, stored, server, vaults>>
  PROVE  /\ SettingsOK' /\ VolatileOK' /\ StoredOK' /\ RemoteOK'
         /\ RunsOK' /\ UnlockingOK' /\ LeasesOK' /\ MarkedOK'
<1>1. check[d].meta \in Vault \cup {0} /\ root \in [Device -> Vault \cup {0, None}]
  BY DEF Kept, VolatileOK, SettingsOK, Check
<1>2. root' \in {root, [root EXCEPT ![d] = check[d].meta]}
  BY <1>1 DEF Pass
<1>3. Go(d, "live", k) \/ Go(d, "live", None)
  BY DEF Pass
<1> QED
  BY <1>1, <1>2, <1>3, CheckEnds DEF Pass

LEMMA PauseEnds ==
  ASSUME Kept, NEW d \in Device, check[d] # None, Pause(d),
         UNCHANGED <<enc, op, batch, reloader, stored, server, vaults>>
  PROVE  /\ SettingsOK' /\ VolatileOK' /\ StoredOK' /\ RemoteOK'
         /\ RunsOK' /\ UnlockingOK' /\ LeasesOK' /\ MarkedOK'
  BY CheckEnds DEF Pause

LEMMA LoadedEnds ==
  ASSUME Kept, NEW d \in Device, check[d] # None, NEW k \in Vault \cup {None}, Loaded(d, k),
         UNCHANGED <<enc, op, batch, reloader, stored, server, vaults>>
  PROVE  /\ SettingsOK' /\ VolatileOK' /\ StoredOK' /\ RemoteOK'
         /\ RunsOK' /\ UnlockingOK' /\ LeasesOK' /\ MarkedOK'
  BY CheckEnds DEF Loaded

LEMMA JudgeKeeps ==
  ASSUME Kept, NEW d \in Device, Judge(d) PROVE Kept'
<1>1. check[d] # None /\ key[d] \in Vault \cup {None}
  BY DEF Judge, judging, Kept, VolatileOK
<1>2. Loaded(d, key[d]) \/ Pause(d) \/ Pass(d, key[d])
  BY DEF Judge
<1>3. CountersOK'
  BY CountersKept DEF Judge, Kept
<1> QED
  BY <1>1, <1>2, <1>3, LoadedEnds, PauseEnds, PassEnds DEF Judge, Kept

LEMMA UnlockedKeeps ==
  ASSUME Kept, NEW d \in Device, Unlocked(d) PROVE Kept'
<1>1. check[d] # None /\ check[d].meta \in Vault
  BY VaultsAreNumbers DEF Unlocked, Kept, VolatileOK, UnlockingOK, Check
<1>2. Loaded(d, check[d].meta) \/ Pass(d, check[d].meta)
  BY DEF Unlocked
<1>3. CountersOK'
  BY CountersKept DEF Unlocked, Kept
<1> QED
  BY <1>1, <1>2, <1>3, LoadedEnds, PassEnds DEF Unlocked, Kept

LEMMA NotUnlockedKeeps ==
  ASSUME Kept, NEW d \in Device, NotUnlocked(d) PROVE Kept'
<1>1. check[d] # None /\ key[d] \in Vault \cup {None}
  BY DEF NotUnlocked, Kept, VolatileOK
<1>2. Loaded(d, key[d]) \/ Pause(d)
  BY DEF NotUnlocked
<1>3. CountersOK'
  BY CountersKept DEF NotUnlocked, Kept
<1> QED
  BY <1>1, <1>2, <1>3, LoadedEnds, PauseEnds DEF NotUnlocked, Kept

LEMMA PushKeeps ==
  ASSUME Kept, NEW d \in Device, Push(d) PROVE Kept'
<1>1. PICK v \in local[d].docs :
        server' = [server EXCEPT !.feed = Append(@, doc(v, session[d].key))]
  BY DEF Push
<1>2. doc(v, session[d].key) \in Row
  BY DEF doc, Row, Kept, StoredOK, VolatileOK
<1>3. Append(server.feed, doc(v, session[d].key)) \in Seq(Row)
  BY <1>2 DEF Kept, RemoteOK
<1>4. RemoteOK'
  BY <1>1, <1>3 DEF Push, Kept, RemoteOK
<1>5. SettingsOK' /\ VolatileOK' /\ StoredOK' /\ RunsOK' /\ UnlockingOK' /\ LeasesOK' /\ MarkedOK'
  BY DEF Push, settings, volatile, stored, Kept, SettingsOK, VolatileOK, StoredOK,
         RunsOK, UnlockingOK, LeasesOK, MarkedOK, idle, running, destructive
<1>6. CountersOK'
  BY CountersKept DEF Push, Kept
<1> QED
  BY <1>4, <1>5, <1>6 DEF Kept

\* What a device is answered is a part of the feed.
LEMMA RowsAreRows ==
  ASSUME Kept, NEW d \in Device
  PROVE  /\ rowsSince(local[d].cursor) \in Seq(Row)
         /\ Range(rowsSince(local[d].cursor)) \subseteq Range(server.feed)
<1> DEFINE c == local[d].cursor
<1>1. server.feed \in Seq(Row) /\ c \in [db: Nat, seq: Nat] \cup {None}
  BY DEF Kept, RemoteOK, StoredOK
<1>2. CASE rowsSince(c) = server.feed
  BY <1>1, <1>2
<1>3. CASE rowsSince(c) = SubSeq(server.feed, c.seq + 1, Len(server.feed)) /\ c # None
  <2>1. c.seq + 1 \in Int /\ Len(server.feed) \in Int
        /\ \A i \in c.seq + 1 .. Len(server.feed) : server.feed[i] \in Row
    BY <1>1, <1>3
  <2> DEFINE rs == SubSeq(server.feed, c.seq + 1, Len(server.feed))
  <2>2. rs \in Seq(Row)
    BY <2>1, SubSeqProperties
  <2>3. ASSUME NEW i \in DOMAIN rs PROVE rs[i] \in Range(server.feed)
    <3>1. c.seq \in Nat /\ Len(server.feed) \in Nat
      BY <1>1, <1>3
    <3> DEFINE n == Len(server.feed)
               k == c.seq
    <3>2. n \in Nat /\ k \in Nat
      BY <3>1
    <3> HIDE DEF n, k
    <3>3. /\ Len(rs) = IF k + 1 <= n THEN n - (k + 1) + 1 ELSE 0
          /\ \A m \in 1 .. n - (k + 1) + 1 : rs[m] = server.feed[k + 1 + m - 1]
      BY <2>1, SubSeqProperties DEF n, k
    <3>4. DOMAIN rs = 1 .. Len(rs)
      BY <2>2
    <3>5. rs[i] = server.feed[k + i] /\ k + i \in 1 .. n
      <4> HIDE DEF rs
      <4>1. i \in 1 .. n - (k + 1) + 1
        BY <3>3, <3>4, <3>2
      <4> QED
        BY <3>3, <3>2, <4>1
    <3>6. DOMAIN server.feed = 1 .. Len(server.feed)
      BY <1>1
    <3> QED
      BY <3>6, <3>5 DEF Range, n
  <2> QED
    BY <1>3, <2>2, <2>3 DEF Range
<1> QED
  BY <1>2, <1>3 DEF rowsSince

LEMMA PullFetchKeeps ==
  ASSUME Kept, NEW d \in Device, PullFetch(d) PROVE Kept'
<1> DEFINE rows == rowsSince(local[d].cursor)
           b == [docs |-> {r.of : r \in {x \in Range(rows) : ~x.meta}},
                 cursor |-> [db |-> server.db, seq |-> Len(server.feed)]]
<1>1. \/ (Halted(d) \/ PausedBy(d)) /\ UNCHANGED batch /\ (PausedBy(d) \/ UNCHANGED conn)
      \/ batch' = [batch EXCEPT ![d] = b] /\ UNCHANGED <<conn, session>>
  BY DEF PullFetch
<1>2. Range(rows) \subseteq Row
  BY FeedRows, RowsAreRows DEF Kept, RemoteOK
<1> HIDE DEF rows
<1>3. b \in [docs: SUBSET Vault, cursor: [db: Nat, seq: Nat]]
  <2>1. {r.of : r \in {x \in Range(rows) : ~x.meta}} \subseteq Vault
    BY <1>2 DEF Row
  <2>2. server.db \in Nat /\ Len(server.feed) \in Nat
    BY DEF Kept, RemoteOK
  <2> QED
    BY <2>1, <2>2
<1> HIDE DEF b
<1>4. /\ conn' \in {conn, [conn EXCEPT ![d] = "tested"]}
      /\ batch' \in {batch, [batch EXCEPT ![d] = b]}
      /\ \/ session' = session
         \/ \E ph \in {"off", "halted"} :
              session' = [session EXCEPT ![d] = [phase |-> ph, key |-> None]]
  BY <1>1 DEF Halted, PausedBy
<1>5. UNCHANGED <<root, enc, key, op, check, reloader, stored, server, vaults>>
  BY DEF PullFetch
<1>6. SettingsOK'
  BY <1>4, <1>5 DEF Kept, SettingsOK, Conn
<1>7. VolatileOK'
  <2>1. batch' \in [Device -> [docs: SUBSET Vault, cursor: [db: Nat, seq: Nat]] \cup {None}]
    BY <1>3, <1>4 DEF Kept, VolatileOK
  <2>2. session' \in [Device -> [phase: {"off", "loading", "checking", "live", "halted"},
                                 key: Vault \cup {None}]]
    BY <1>4 DEF Kept, VolatileOK
  <2> QED
    BY <1>5, <2>1, <2>2 DEF Kept, VolatileOK
<1>8. StoredOK' /\ RemoteOK' /\ RunsOK' /\ UnlockingOK' /\ LeasesOK' /\ MarkedOK'
  BY <1>4, <1>5 DEF Kept, SettingsOK, StoredOK, RemoteOK, RunsOK, UnlockingOK, LeasesOK,
         MarkedOK, idle, running, destructive, stored
<1>9. CountersOK'
  BY CountersKept DEF PullFetch, Kept
<1> QED
  BY <1>6, <1>7, <1>8, <1>9 DEF Kept

-----------------------------------------------------------------------------
LEMMA InitIsKept == Init => Kept
<1> SUFFICES ASSUME Init PROVE Kept
  OBVIOUS
<1>1. PICK e \in Encryptions : vaults = <<e>>
  BY DEF Init
<1>2. e \in BOOLEAN /\ vaults \in Seq(BOOLEAN) /\ Len(vaults) = 1 /\ vaults[1] = e
  BY <1>1, BindingAssumption
<1>3. keyOf(1) \in Vault \cup {None}
  BY VaultsAreNumbers DEF keyOf
<1>4. SettingsOK
  BY <1>2, VaultsAreNumbers DEF Init, SettingsOK, Conn
<1>5. VolatileOK
  BY <1>3 DEF Init, VolatileOK
<1>6. StoredOK
  BY VaultsAreNumbers DEF Init, StoredOK
<1>7. RemoteOK
  <2>1. metaRow(1) \in Row /\ doc(1, keyOf(1)) \in Row
    BY <1>3, VaultsAreNumbers DEF metaRow, doc, Row
  <2>2. <<metaRow(1), doc(1, keyOf(1))>> \in Seq(Row)
    BY <2>1
  <2>3. server \in [db: Nat, meta: Vault \cup {0}, feed: Seq(Row)]
    BY <2>2, VaultsAreNumbers DEF Init
  <2> QED
    BY <1>2, <2>3, VaultsAreNumbers DEF RemoteOK
<1>8. CountersOK
  BY BindingAssumption DEF Init, CountersOK
<1>9. RunsOK /\ UnlockingOK /\ LeasesOK /\ MarkedOK
  BY DEF Init, RunsOK, UnlockingOK, LeasesOK, MarkedOK, running, destructive, idle
<1> QED
  BY <1>4, <1>5, <1>6, <1>7, <1>8, <1>9 DEF Kept

LEMMA NextKeeps == ASSUME Kept, Next PROVE Kept'
<1>1. PICK d \in Device :
        \/ Setup(d) \/ User(d) \/ Session(d) \/ NotUnlocked(d)
        \/ Push(d) \/ SessionRestarts(d)
        \/ Crash(d) \/ Reload(d)
  BY DEF Next
<1>2. CASE Setup(d)
  BY <1>2, PrepareKeeps, ConfirmKeeps, EmptyLocalKeeps, RecreateRemoteKeeps,
     PublishMetaKeeps, PushVaultKeeps, PullVaultKeeps, SettleKeeps, FailKeeps
     DEF Setup, init, clone, setupInit, setupClone
<1>3. CASE User(d)
  BY <1>3, BindingAssumption, LiveOnKeeps, LiveOffKeeps, CheckDatabaseKeeps, CheckedDatabaseKeeps,
     ChangeCodecSettingKeeps, ApplyKeeps, ConfigStartsKeeps, ConfigEndsKeeps, DeleteLocalKeeps
     DEF User, applyDatabase, applyServer
<1>4. CASE Session(d)
  BY <1>4, FetchMetaKeeps, UnlocksKeeps, JudgeKeeps, UnlockedKeeps, PullFetchKeeps,
     PullCommitKeeps DEF Session
<1> QED
  BY <1>1, <1>2, <1>3, <1>4, NotUnlockedKeeps, PushKeeps, SessionRestartsKeeps,
     CrashKeeps, ReloadKeeps

LEMMA SpecKeeps == Spec => []Kept
<1>1. Kept /\ UNCHANGED vars => Kept'
  BY DEF vars, settings, volatile, stored, counters, Kept, SettingsOK, VolatileOK, StoredOK,
         RemoteOK, CountersOK, RunsOK, UnlockingOK, LeasesOK, MarkedOK,
         running, destructive, idle
<1>2. Kept /\ [Next]_vars => Kept'
  BY <1>1, NextKeeps
<1> QED
  BY <1>2, InitIsKept, PTL DEF Spec

(***************************************************************************)
(* beginDestructive's promise: a device whose Init or Clone failed or was  *)
(* killed half way never syncs, nor offers to.                             *)
(***************************************************************************)
THEOREM HalfBuiltNeverSyncs == Spec => []BindingInv
<1>1. Kept => BindingInv
  BY KeptMeans
<1> QED
  BY <1>1, SpecKeeps, PTL

(***************************************************************************)
(* ReloadGuard: a planned reload of the app meets neither an Init nor a    *)
(* Clone.                                                                  *)
(***************************************************************************)
THEOREM ReloadsMeetNoSetup == Spec => []PlannedReloadsWait
<1>1. Kept => PlannedReloadsWait
  BY KeptMeans
<1> QED
  BY <1>1, SpecKeeps, PTL

-----------------------------------------------------------------------------
(* The keys. Vaults are numbered as they are created, so what any device   *)
(* knows of is no newer than what the server shows; that is what makes a   *)
(* key that outlived its vault unequal to every root met later.            *)

initRuns(d) == destructive(d) /\ op[d].name = "init"

unpublished(d) == initRuns(d) /\ op[d].step \in {"confirmed", "emptied", "recreated"}

\* A vault some database has shown; 0 is that of a database without a meta.
Known(v) ==
  /\ v \in 0 .. Len(vaults)
  /\ \A e \in Device : unpublished(e) => v < Len(vaults)
  /\ server.meta = 0 \/ v <= server.meta

InitsOK ==
  /\ \A d, e \in Device : initRuns(d) /\ initRuns(e) => d = e
  /\ \A d \in Device : initRuns(d) =>
       /\ op[d].vault = Len(vaults)
       /\ op[d].step = "recreated" => server.meta = 0
       /\ op[d].step \in {"published", "filled"} => server.meta = op[d].vault

AllKnown ==
  /\ Known(server.meta)
  /\ \A d \in Device :
       /\ root[d] # None => Known(root[d])
       /\ check[d] # None => Known(check[d].meta)
       /\ running(d) /\ op[d].name = "clone" => Known(op[d].vault)
       /\ key[d] # None /\ ~unpublished(d) => Known(key[d])

\* A run works under the key of its own vault, and alone.
RunKeysOK ==
  \A d \in Device : destructive(d) =>
    key[d] = keyOf(op[d].vault) /\ session[d].phase = "off" /\ check[d] = None

SessionsOK ==
  \A d \in Device :
    /\ session[d].phase # "off" => conn[d] = "syncing"
    /\ check[d] # None =>
         /\ check[d].own /\ check[d].at = session[d].phase
         /\ check[d].agreed = (enc[d] = (keyOf(check[d].meta) # None))
         /\ check[d].step = "unlocking" =>
              /\ check[d].agreed /\ keyOf(check[d].meta) # None
              /\ check[d].at = "checking" => ~rootChanged(d, check[d].meta)
         /\ check[d].meta # 0 =>
              /\ root[d] # None => root[d] <= check[d].meta
              /\ key[d] # None => key[d] <= check[d].meta
              /\ root[d] = None => check[d].meta = server.meta

\* The key of a device that is bound is its vault's, or a newer one's.
KeysOK ==
  \A d \in Device : ~destructive(d) /\ key[d] # None =>
    IF root[d] = None THEN key[d] = server.meta ELSE root[d] <= key[d]

KeyInv == InitsOK /\ AllKnown /\ RunKeysOK /\ SessionsOK /\ KeysOK /\ KeyOfRoot

LEMMA KnownStays ==
  ASSUME NEW v, Known(v), RemoteOK,
         Len(vaults') \in Nat, Len(vaults) <= Len(vaults'),
         server'.meta \in {server.meta, 0, Len(vaults)},
         \A e \in Device : unpublished(e)' => unpublished(e) \/ Len(vaults) < Len(vaults')
  PROVE  Known(v)'
<1>1. v \in Nat /\ v <= Len(vaults) /\ Len(vaults) \in Nat
  BY DEF Known, RemoteOK
<1>2. v \in 0 .. Len(vaults')
  BY <1>1
<1>3. ASSUME NEW e \in Device, unpublished(e)' PROVE v < Len(vaults')
  <2>1. unpublished(e) => v < Len(vaults)
    BY DEF Known
  <2> QED
    BY <1>1, <1>3, <2>1
<1>4. server'.meta = 0 \/ v <= server'.meta
  BY <1>1 DEF Known
<1> QED
  BY <1>2, <1>3, <1>4 DEF Known

LEMMA KnownAlike ==
  ASSUME NEW v, Known(v), vaults' = vaults, server'.meta = server.meta,
         \A e \in Device : unpublished(e)' => unpublished(e)
  PROVE  Known(v)'
  BY DEF Known

\* A step that changes nothing but what is begun, and how far it is.
LEMMA RunMoves ==
  ASSUME KeyInv, UNCHANGED <<vaults, root, check, key, session, enc, conn>>,
         server'.meta = server.meta,
         \A e \in Device :
           /\ destructive(e)' <=> destructive(e)
           /\ destructive(e) =>
                /\ op'[e].name = op[e].name /\ op'[e].vault = op[e].vault
                /\ op'[e].step = "recreated" => op[e].step = "recreated"
                /\ op'[e].step \in {"published", "filled"} /\ op[e].name = "init"
                     => op[e].step \in {"published", "filled"}
                /\ unpublished(e)' <=> unpublished(e)
           /\ running(e)' /\ op'[e].name = "clone" => Known(op'[e].vault)
  PROVE  KeyInv'
<1>1. \A e \in Device : /\ initRuns(e)' <=> initRuns(e)
                        /\ unpublished(e)' <=> unpublished(e)
  BY DEF initRuns, unpublished
<1>2. \A v : keyOf(v)' = keyOf(v) /\ (Known(v) => Known(v)')
  BY <1>1, KnownAlike DEF keyOf
<1>3. InitsOK'
  BY <1>1 DEF KeyInv, InitsOK, initRuns
<1>4. AllKnown'
  BY <1>1, <1>2 DEF KeyInv, AllKnown
<1>5. RunKeysOK'
  BY <1>2 DEF KeyInv, RunKeysOK
<1>6. SessionsOK'
  BY <1>2 DEF KeyInv, SessionsOK, rootChanged
<1>7. KeysOK'
  BY DEF KeyInv, KeysOK
<1>8. KeyOfRoot'
  BY <1>2 DEF KeyInv, KeyOfRoot, live
<1> QED
  BY <1>3, <1>4, <1>5, <1>6, <1>7, <1>8 DEF KeyInv

\* A step that only takes away: a key, a run, a check, a session.
LEMMA LocalMoves ==
  ASSUME KeyInv, NEW d \in Device, UNCHANGED <<vaults, root>>, server'.meta = server.meta,
         \A e \in Device \ {d} :
           /\ conn'[e] = conn[e] /\ enc'[e] = enc[e] /\ key'[e] = key[e]
           /\ op'[e] = op[e] /\ check'[e] = check[e] /\ session'[e] = session[e],
         key'[d] \in {key[d], None}, op'[d] \in {op[d], None},
         destructive(d) => (IF op'[d] = None THEN key'[d] = None ELSE key'[d] = key[d]),
         \/ check'[d] = None
         \/ check'[d] = check[d] /\ enc'[d] = enc[d] /\ session'[d].phase = session[d].phase,
         session'[d].phase # "off" => conn'[d] = "syncing",
         session'[d].phase = "live" => session'[d] = session[d],
         destructive(d)' => session'[d].phase = "off" /\ check'[d] = None
  PROVE  KeyInv'
<1>1. \A e \in Device : op'[e] = op[e] \/ op'[e] = None
  OBVIOUS
<1>2. \A e \in Device : /\ destructive(e)' => destructive(e) /\ op'[e] = op[e]
                        /\ running(e)' => running(e) /\ op'[e] = op[e]
                        /\ initRuns(e)' => initRuns(e) /\ op'[e] = op[e]
                        /\ unpublished(e)' => unpublished(e) /\ op'[e] = op[e]
  BY <1>1 DEF destructive, running, idle, initRuns, unpublished
<1>3. \A v : keyOf(v)' = keyOf(v) /\ (Known(v) => Known(v)')
  BY <1>2, KnownAlike DEF keyOf
<1>4. InitsOK'
  BY <1>2 DEF KeyInv, InitsOK
<1>5. \A e \in Device \ {d} : unpublished(e)' <=> unpublished(e)
  BY DEF unpublished, initRuns, destructive, running, idle
<1>6. \A e \in Device : key'[e] # None /\ ~unpublished(e)' => key[e] = key'[e] /\ ~unpublished(e)
  <2>1. key'[d] # None /\ ~unpublished(d)' => ~unpublished(d)
    BY <1>1 DEF unpublished, initRuns, destructive, running, idle
  <2> QED
    BY <1>5, <2>1
<1>7. AllKnown'
  BY <1>2, <1>3, <1>6 DEF KeyInv, AllKnown
<1>8. RunKeysOK'
  BY <1>2, <1>3 DEF KeyInv, RunKeysOK, destructive, running, idle
<1>9. SessionsOK'
  BY <1>3 DEF KeyInv, SessionsOK, rootChanged
<1>10. KeysOK'
  <2>1. \A e \in Device : ~destructive(e)' /\ key'[e] # None => ~destructive(e) /\ key'[e] = key[e]
    BY <1>1 DEF destructive, running, idle
  <2> QED
    BY <2>1 DEF KeyInv, KeysOK
<1>11. KeyOfRoot'
  BY <1>3 DEF KeyInv, KeyOfRoot, live
<1> QED
  BY <1>4, <1>7, <1>8, <1>9, <1>10, <1>11 DEF KeyInv

LEMMA DevicesAsTheyAre ==
  ASSUME Kept, KeyInv, NEW d \in Device
  PROVE  /\ conn \in [Device -> Conn] /\ enc \in [Device -> BOOLEAN]
         /\ key \in [Device -> Vault \cup {None}]
         /\ op \in [Device -> Op \cup {None}] /\ check \in [Device -> Check \cup {None}]
         /\ session \in [Device -> [phase: {"off", "loading", "checking", "live", "halted"},
                                    key: Vault \cup {None}]]
         /\ session[d].phase # "off" => conn[d] = "syncing"
         /\ check[d] # None =>
              session[d].phase = check[d].at /\ session[d].phase \in {"loading", "checking"}
         /\ destructive(d) => session[d].phase = "off" /\ check[d] = None
<1>1. check[d] \in Check \cup {None}
  BY DEF Kept, VolatileOK
<1> QED
  BY <1>1 DEF Kept, SettingsOK, VolatileOK, KeyInv, SessionsOK, RunKeysOK, Check

LEMMA LiveOnSeals ==
  ASSUME Kept, KeyInv, NEW d \in Device, LiveOn(d)
  PROVE  KeyInv'
  BY DevicesAsTheyAre, LocalMoves
     DEF LiveOn, destructive, running, idle

LEMMA LiveOffSeals ==
  ASSUME Kept, KeyInv, NEW d \in Device, "check" \notin Windows, LiveOff(d)
  PROVE  KeyInv'
  BY DevicesAsTheyAre, LocalMoves
     DEF LiveOff, StopLive, destructive, running, idle

LEMMA ChangeCodecSettingSeals ==
  ASSUME Kept, KeyInv, NEW d \in Device, NEW e, ChangeCodecSetting(d, e)
  PROVE  KeyInv'
  BY DevicesAsTheyAre, LocalMoves
     DEF ChangeCodecSetting, volatile, destructive, running, idle

LEMMA ApplySeals ==
  ASSUME Kept, KeyInv, NEW d \in Device, NEW state, Apply(d, state)
  PROVE  KeyInv'
  BY DevicesAsTheyAre, LocalMoves
     DEF Apply, volatile, destructive, running, idle

LEMMA FailSeals ==
  ASSUME Kept, KeyInv, NEW d \in Device, Fail(d)
  PROVE  KeyInv'
  BY DevicesAsTheyAre, LocalMoves
     DEF Fail, settings, destructive, running, idle

LEMMA PullFetchSeals ==
  ASSUME Kept, KeyInv, NEW d \in Device, PullFetch(d)
  PROVE  KeyInv'
  BY DevicesAsTheyAre, LocalMoves
     DEF PullFetch, Halted, PausedBy, live, destructive, running, idle

LEMMA SessionRestartsSeals ==
  ASSUME Kept, KeyInv, NEW d \in Device, SessionRestarts(d)
  PROVE  KeyInv'
  BY DevicesAsTheyAre, LocalMoves
     DEF SessionRestarts, settings, destructive, running, idle

LEMMA CrashSeals ==
  ASSUME Kept, KeyInv, NEW d \in Device, Crash(d)
  PROVE  KeyInv'
  BY DevicesAsTheyAre, LocalMoves
     DEF Crash, Restart, settings, destructive, running, idle

LEMMA ReloadSeals ==
  ASSUME Kept, KeyInv, NEW d \in Device, Reload(d)
  PROVE  KeyInv'
  BY DevicesAsTheyAre, LocalMoves
     DEF Reload, Restart, settings, destructive, running, idle

LEMMA DeleteLocalSeals ==
  ASSUME Kept, KeyInv, NEW d \in Device, DeleteLocal(d)
  PROVE  KeyInv'
  BY DevicesAsTheyAre, LocalMoves
     DEF DeleteLocal, Restart, settings, destructive, running, idle


LEMMA BeginsSeals ==
  ASSUME Kept, KeyInv, NEW d \in Device,
         \/ CheckDatabase(d) \/ CheckedDatabase(d)
         \/ \E name \in {"init", "clone"} : Prepare(d, name)
  PROVE  KeyInv'
<1>1. op \in [Device -> Op \cup {None}] /\ ~destructive(d) /\ ~running(d)
  BY DEF Kept, VolatileOK, CheckDatabase, CheckedDatabase, Prepare, destructive, running, idle
<1>2. /\ \A e \in Device \ {d} : op'[e] = op[e]
      /\ ~destructive(d)'
      /\ running(d)' /\ op'[d].name = "clone" => op'[d].vault = server.meta
  BY <1>1 DEF CheckDatabase, CheckedDatabase, Prepare, destructive, running, idle
<1>3. \A e \in Device : /\ destructive(e)' <=> destructive(e)
                        /\ unpublished(e)' => destructive(e)
                        /\ destructive(e) => op'[e] = op[e]
  BY <1>1, <1>2 DEF destructive, running, idle, unpublished, initRuns
<1>4. \A e \in Device : destructive(e) => (unpublished(e)' <=> unpublished(e))
  BY <1>3 DEF unpublished, initRuns
<1>5. \A e \in Device : running(e)' /\ op'[e].name = "clone" => Known(op'[e].vault)
  BY <1>2 DEF KeyInv, AllKnown, running, idle
<1> QED
  BY <1>3, <1>4, <1>5, RunMoves
     DEF CheckDatabase, CheckedDatabase, Prepare, settings, stored

LEMMA RunGoesOnSeals ==
  ASSUME Kept, KeyInv, NEW d \in Device, EmptyLocal(d) \/ PushVault(d) \/ PullVault(d)
  PROVE  KeyInv'
<1>1. PICK s \in {"emptied", "filled"} :
        /\ running(d) /\ destructive(d) /\ stepTo(d, s)
        /\ s = "emptied" => op[d].step = "confirmed"
        /\ s = "filled" => \/ op[d].name = "init" /\ op[d].step = "published"
                           \/ op[d].name = "clone" /\ op[d].step = "emptied"
  BY RunningAt DEF EmptyLocal, PushVault, PullVault
<1>2. /\ \A e \in Device \ {d} : op'[e] = op[e]
      /\ op[d] # None /\ op[d] \in Op
      /\ op'[d].name = op[d].name /\ op'[d].vault = op[d].vault /\ op'[d].step = s
      /\ op'[d] # None
  <2>1. /\ op' \in [Device -> Op \cup {None}]
        /\ \A e \in Device \ {d} : op'[e] = op[e]
        /\ op[d] # None /\ op[d] \in Op
        /\ op'[d].name = op[d].name /\ op'[d].vault = op[d].vault /\ op'[d].step = s
    BY <1>1, StepToKeeps
  <2>2. op'[d] # None
    <3>1. op' = [op EXCEPT ![d].step = s] /\ op \in [Device -> Op \cup {None}]
      BY <1>1 DEF stepTo, Kept, VolatileOK
    <3>2. op'[d] \in Op
      BY <2>1, <3>1 DEF Op
    <3> QED
      BY <3>2, NoneIsNothing
  <2> QED
    BY <2>1, <2>2
<1>3. \A e \in Device : /\ destructive(e)' <=> destructive(e)
                        /\ running(e)' <=> running(e)
                        /\ unpublished(e)' <=> unpublished(e)
  BY <1>1, <1>2 DEF destructive, running, idle, unpublished, initRuns
<1>4. \A e \in Device : running(e)' /\ op'[e].name = "clone" => Known(op'[e].vault)
  BY <1>2, <1>3 DEF KeyInv, AllKnown
<1>5. UNCHANGED <<vaults, root, check, key, session, enc, conn>> /\ server'.meta = server.meta
  BY DEF EmptyLocal, PushVault, PullVault, settings, stored, Kept, RemoteOK
<1> QED
  BY <1>1, <1>2, <1>3, <1>4, <1>5, RunMoves

-----------------------------------------------------------------------------
(* The check and the key it leaves. *)

\* A step of d that neither creates a vault nor touches the server.
LEMMA OthersAlike ==
  ASSUME vaults' = vaults, op' = op, server'.meta = server.meta
  PROVE  /\ \A v : (keyOf(v)' = keyOf(v)) /\ (Known(v) => Known(v)')
         /\ \A e \in Device : /\ destructive(e)' <=> destructive(e)
                              /\ running(e)' <=> running(e)
                              /\ initRuns(e)' <=> initRuns(e)
                              /\ unpublished(e)' <=> unpublished(e)
<1>1. \A e \in Device : /\ destructive(e)' <=> destructive(e)
                        /\ running(e)' <=> running(e)
                        /\ initRuns(e)' <=> initRuns(e)
                        /\ unpublished(e)' <=> unpublished(e)
  BY DEF destructive, running, idle, unpublished, initRuns
<1> QED
  BY <1>1, KnownAlike DEF keyOf

LEMMA CheckedMoves ==
  ASSUME Kept, KeyInv, NEW d \in Device, NEW c \in Check, check' = [check EXCEPT ![d] = c],
         UNCHANGED <<settings, key, op, session, server, vaults>>,
         ~destructive(d), c.own, c.at = session[d].phase,
         c.agreed = (enc[d] = (keyOf(c.meta) # None)),
         c.step = "unlocking" =>
           /\ c.agreed /\ keyOf(c.meta) # None
           /\ c.at = "checking" => ~rootChanged(d, c.meta),
         c.meta # 0 => /\ root[d] # None => root[d] <= c.meta
                       /\ key[d] # None => key[d] <= c.meta
                       /\ root[d] = None => c.meta = server.meta,
         Known(c.meta)
  PROVE  KeyInv'
<1>1. /\ check \in [Device -> Check \cup {None}] /\ check'[d] = c
      /\ \A e \in Device \ {d} : check'[e] = check[e]
  BY DEF Kept, VolatileOK
<1>2. InitsOK' /\ KeysOK' /\ KeyOfRoot'
  BY OthersAlike DEF KeyInv, InitsOK, KeysOK, KeyOfRoot, settings, live
<1>3. AllKnown'
  BY <1>1, OthersAlike DEF KeyInv, AllKnown, settings
<1>4. RunKeysOK'
  BY <1>1, OthersAlike DEF KeyInv, RunKeysOK
<1>5. SessionsOK'
  BY <1>1, OthersAlike DEF KeyInv, SessionsOK, settings, rootChanged
<1> QED
  BY <1>2, <1>3, <1>4, <1>5 DEF KeyInv

LEMMA FetchMetaSeals ==
  ASSUME Kept, KeyInv, NEW d \in Device, FetchMeta(d)
  PROVE  KeyInv'
<1> DEFINE c == [at |-> session[d].phase, step |-> "judging", meta |-> server.meta,
                 agreed |-> enc[d] = (keyOf(server.meta) # None), own |-> TRUE]
<1>1. ~destructive(d) /\ ~unpublished(d)
  BY DEF FetchMeta, KeyInv, RunKeysOK, unpublished, initRuns
<1>2. c \in Check
  BY DEF FetchMeta, Kept, RemoteOK, Check
<1>3. Known(server.meta)
  BY DEF KeyInv, AllKnown
<1>4. server.meta # 0 => /\ root[d] # None => root[d] <= server.meta
                         /\ key[d] # None => key[d] <= server.meta
  BY <1>1 DEF KeyInv, AllKnown, Known
<1>5. check' = [check EXCEPT ![d] = c]
  BY DEF FetchMeta
<1>6. /\ c.own /\ c.at = session[d].phase /\ c.step # "unlocking" /\ c.meta = server.meta
      /\ c.agreed = (enc[d] = (keyOf(c.meta) # None))
  OBVIOUS
<1> HIDE DEF c
<1> QED
  BY <1>1, <1>2, <1>3, <1>4, <1>5, <1>6, CheckedMoves DEF FetchMeta

LEMMA UnlocksSeals ==
  ASSUME Kept, KeyInv, NEW d \in Device, Unlocks(d)
  PROVE  KeyInv'
<1>1. check[d] # None /\ check[d] \in Check
  BY DEF Unlocks, judging, Kept, VolatileOK
<1> DEFINE c == [check[d] EXCEPT !.step = "unlocking"]
<1>2. /\ c \in Check /\ c.own = check[d].own /\ c.at = check[d].at /\ c.step = "unlocking"
      /\ c.meta = check[d].meta /\ c.agreed = check[d].agreed
  BY <1>1 DEF Check
<1>3. check' = [check EXCEPT ![d] = c]
  BY DEF Unlocks
<1> HIDE DEF c
<1>4. /\ check[d].own /\ check[d].at = session[d].phase
      /\ check[d].agreed = (enc[d] = (keyOf(check[d].meta) # None))
      /\ check[d].meta # 0 => /\ root[d] # None => root[d] <= check[d].meta
                              /\ key[d] # None => key[d] <= check[d].meta
                              /\ root[d] = None => check[d].meta = server.meta
      /\ Known(check[d].meta) /\ ~destructive(d)
  BY <1>1 DEF KeyInv, SessionsOK, AllKnown, RunKeysOK
<1>5. /\ check[d].agreed /\ keyOf(check[d].meta) # None
      /\ check[d].at = "checking" => ~rootChanged(d, check[d].meta)
  BY DEF Unlocks, needsKey, judging
<1> QED
  BY <1>2, <1>3, <1>4, <1>5, CheckedMoves DEF Unlocks

LEMMA PauseSeals ==
  ASSUME Kept, KeyInv, NEW d \in Device, check[d] # None, Pause(d),
         UNCHANGED <<enc, op, batch, reloader, stored, server, vaults>>
  PROVE  KeyInv'
<1>1. check[d].own /\ ~destructive(d)
  BY DEF KeyInv, SessionsOK, RunKeysOK
<1>2. op[d] = None => ~destructive(d)'
  BY DEF destructive, running, idle
<1>3. destructive(d)' <=> destructive(d)
  BY OthersAlike
<1> QED
  BY <1>1, <1>2, <1>3, DevicesAsTheyAre, LocalMoves DEF Pause, Go

LEMMA LoadedSeals ==
  ASSUME Kept, KeyInv, NEW d \in Device, check[d] # None,
         NEW k \in Vault \cup {None}, Loaded(d, k),
         k = key[d] \/ (k = check[d].meta /\ k # 0),
         UNCHANGED <<enc, op, batch, reloader, stored, server, vaults>>
  PROVE  KeyInv'
<1>1. /\ check[d].own /\ ~destructive(d) /\ ~unpublished(d) /\ conn[d] = "syncing"
      /\ Known(check[d].meta)
      /\ k = check[d].meta =>
           IF root[d] = None THEN k = server.meta ELSE root[d] <= k
  <2>1. check[d].own /\ ~destructive(d) /\ Known(check[d].meta) /\ conn[d] = "syncing"
    BY DevicesAsTheyAre DEF KeyInv, SessionsOK, RunKeysOK, AllKnown
  <2>2. k = check[d].meta /\ k # 0 => IF root[d] = None THEN k = server.meta ELSE root[d] <= k
    BY DEF KeyInv, SessionsOK
  <2>3. k # 0
    BY VaultsAreNumbers DEF Vault
  <2> QED
    BY <2>1, <2>2, <2>3 DEF unpublished, initRuns
<1>2. /\ key' = [key EXCEPT ![d] = k] /\ key'[d] = k /\ check'[d] = None
      /\ session'[d] = [phase |-> "checking", key |-> None]
      /\ \A e \in Device \ {d} : /\ key'[e] = key[e] /\ check'[e] = check[e]
                                 /\ session'[e] = session[e]
      /\ UNCHANGED <<conn, root>>
  BY <1>1 DEF Loaded, Go, Kept, VolatileOK
<1>3. InitsOK' /\ KeyOfRoot'
  BY <1>2, OthersAlike DEF KeyInv, InitsOK, KeyOfRoot, live
<1>4. AllKnown'
  BY <1>1, <1>2, OthersAlike DEF KeyInv, AllKnown
<1>5. RunKeysOK'
  BY <1>1, <1>2, OthersAlike DEF KeyInv, RunKeysOK
<1>6. SessionsOK'
  BY <1>1, <1>2, OthersAlike DEF KeyInv, SessionsOK, rootChanged
<1>7. KeysOK'
  BY <1>1, <1>2, OthersAlike DEF KeyInv, KeysOK
<1> QED
  BY <1>3, <1>4, <1>5, <1>6, <1>7 DEF KeyInv

LEMMA PassSeals ==
  ASSUME Kept, KeyInv, NEW d \in Device, check[d] # None,
         NEW k \in Vault \cup {None}, Pass(d, k),
         check[d].agreed, ~rootChanged(d, check[d].meta),
         \/ k = check[d].meta /\ keyOf(k) # None
         \/ k = key[d] /\ ~needsKey(d),
         UNCHANGED <<enc, op, batch, reloader, stored, server, vaults>>
  PROVE  KeyInv'
<1> DEFINE m == check[d].meta
<1>1. /\ check[d].own /\ ~destructive(d) /\ ~unpublished(d) /\ conn[d] = "syncing"
      /\ Known(m) /\ m \in Vault \cup {0}
      /\ enc[d] <=> keyOf(m) # None
      /\ root[d] \in {None, m}
  <2>1. check[d].own /\ ~destructive(d) /\ Known(m) /\ conn[d] = "syncing"
    BY DevicesAsTheyAre DEF KeyInv, SessionsOK, RunKeysOK, AllKnown
  <2>2. enc[d] <=> keyOf(m) # None
    BY DEF KeyInv, SessionsOK, Kept, SettingsOK
  <2>3. m \in Vault \cup {0}
    BY DEF Kept, VolatileOK, Check
  <2> QED
    BY <2>1, <2>2, <2>3 DEF unpublished, initRuns, rootChanged
<1>2. k # None => Known(k) /\ m <= k
  <2>1. CASE k = m
    BY <1>1, <2>1, VaultsAreNumbers
  <2>2. CASE k = key[d]
    BY <1>1, <2>2 DEF KeyInv, AllKnown, KeysOK, SessionsOK, Kept, VolatileOK, Vault
  <2> QED
    BY <2>1, <2>2
<1>3. (IF enc[d] THEN k ELSE None) = keyOf(m)
  <2>1. CASE enc[d]
    <3>1. m # 0 /\ keyOf(m) = m
      BY <1>1, <2>1 DEF keyOf
    <3>2. k = m
      <4>1. CASE k = key[d] /\ ~needsKey(d)
        <5>1. key[d] # None /\ key[d] <= m
          BY <1>1, <2>1, <3>1, <4>1 DEF needsKey, KeyInv, SessionsOK
        <5> QED
          BY <1>1, <1>2, <3>1, <4>1, <5>1, VaultsAreNumbers DEF Vault
      <4> QED
        BY <4>1
    <3> QED
      BY <2>1, <3>1, <3>2
  <2>2. CASE ~enc[d]
    BY <1>1, <2>2
  <2> QED
    BY <2>1, <2>2
<1>4. m # None
  BY <1>1, VaultsAreNumbers
<1>5. /\ key'[d] = k /\ check'[d] = None /\ root'[d] = m
      /\ session'[d] = [phase |-> "live", key |-> keyOf(m)]
      /\ \A e \in Device \ {d} : /\ key'[e] = key[e] /\ check'[e] = check[e]
                                 /\ session'[e] = session[e] /\ root'[e] = root[e]
      /\ conn' = conn
  BY <1>1, <1>3 DEF Pass, Go, Kept, VolatileOK, SettingsOK
<1> HIDE DEF m
<1>6. InitsOK'
  BY <1>5, OthersAlike DEF KeyInv, InitsOK
<1>7. KeyOfRoot'
  BY <1>4, <1>5, OthersAlike DEF KeyInv, KeyOfRoot, live
<1>8. AllKnown'
  BY <1>1, <1>2, <1>5, OthersAlike DEF KeyInv, AllKnown
<1>9. RunKeysOK'
  BY <1>1, <1>5, OthersAlike DEF KeyInv, RunKeysOK
<1>10. SessionsOK'
  BY <1>1, <1>5, OthersAlike DEF KeyInv, SessionsOK, rootChanged
<1>11. KeysOK'
  BY <1>2, <1>4, <1>5, OthersAlike DEF KeyInv, KeysOK
<1> QED
  BY <1>6, <1>7, <1>8, <1>9, <1>10, <1>11 DEF KeyInv

LEMMA CheckEndsSeals ==
  ASSUME Kept, KeyInv, NEW d \in Device, Judge(d) \/ Unlocked(d) \/ NotUnlocked(d)
  PROVE  KeyInv'
<1>1. /\ check[d] # None /\ key[d] \in Vault \cup {None}
      /\ UNCHANGED <<enc, op, batch, reloader, stored, server, vaults>>
  BY DEF Judge, Unlocked, NotUnlocked, judging, Kept, VolatileOK
<1>2. CASE Judge(d)
  <2>1. \/ Loaded(d, key[d]) \/ Pause(d)
        \/ /\ ~rootChanged(d, check[d].meta) /\ check[d].agreed
           /\ ~needsKey(d) /\ Pass(d, key[d])
    BY <1>2 DEF Judge
  <2> QED
    BY <1>1, <2>1, LoadedSeals, PauseSeals, PassSeals
<1>3. CASE Unlocked(d)
  <2>1. /\ check[d].step = "unlocking" /\ check[d].meta \in Vault /\ check[d].meta # 0
    BY <1>1, <1>3, VaultsAreNumbers DEF Unlocked, Kept, VolatileOK, UnlockingOK, Check
  <2>2. /\ check[d].agreed /\ keyOf(check[d].meta) # None
        /\ check[d].at = "checking" => ~rootChanged(d, check[d].meta)
    BY <1>1, <2>1 DEF KeyInv, SessionsOK
  <2>3. check[d].at \in {"loading", "checking"}
    BY <1>1 DEF Kept, VolatileOK, Check
  <2>4. \/ Loaded(d, check[d].meta)
        \/ check[d].at = "checking" /\ Pass(d, check[d].meta)
    BY <1>3, <2>3 DEF Unlocked
  <2> QED
    BY <1>1, <2>1, <2>2, <2>4, LoadedSeals, PassSeals
<1>4. CASE NotUnlocked(d)
  BY <1>1, <1>4, LoadedSeals, PauseSeals DEF NotUnlocked
<1> QED
  BY <1>2, <1>3, <1>4

-----------------------------------------------------------------------------
(* The steps of a run that change what the others stand on. *)

\* Another vault leaves the keys of those there are as they are.
LEMMA KeysStay ==
  ASSUME RemoteOK, NEW v \in 0 .. Len(vaults), NEW e \in BOOLEAN,
         vaults' \in {vaults, Append(vaults, e)}
  PROVE  keyOf(v)' = keyOf(v)
  BY DEF keyOf, RemoteOK

LEMMA ConfirmSeals ==
  ASSUME Kept, KeyInv, NEW d \in Device, "check" \notin Windows, "inits" \notin Windows,
         Confirm(d)
  PROVE  KeyInv'
<1> DEFINE v == IF op[d].name = "init" THEN Len(vaults) + 1 ELSE op[d].vault
<1>1. /\ op[d] # None /\ op[d].name \in {"init", "clone"} /\ op[d] \in Op
      /\ running(d) /\ ~destructive(d) /\ ~unpublished(d)
  <2>1. running(d) /\ op[d] # None /\ op[d].name \in {"init", "clone"} /\ ~destructive(d)
    BY RunningAt DEF Confirm
  <2> QED
    BY <2>1 DEF Kept, VolatileOK, unpublished, initRuns
<1>2. /\ op' = [op EXCEPT ![d].step = "confirmed", ![d].vault = v]
      /\ key' = [key EXCEPT ![d] = runKey(d, v)]
      /\ vaults' = IF op[d].name = "init" THEN Append(vaults, enc[d]) ELSE vaults
      /\ UNCHANGED <<root, enc, server>>
  BY DEF Confirm
<1>3. op[d].name = "init" => /\ Len(vaults) + 1 \in Vault /\ v = Len(vaults) + 1
                             /\ \A e \in Device : ~initRuns(e)
  BY BindingAssumption DEF Confirm, Kept, RemoteOK, Vault, initRuns
<1>4. op[d].name = "clone" => Known(v) /\ v = op[d].vault
  BY <1>1 DEF KeyInv, AllKnown
<1>5. v \in Vault \cup {0}
  BY <1>1, <1>3, <1>4 DEF Kept, RunsOK, Op
<1> HIDE DEF v
<1>6. /\ op'[d].name = op[d].name /\ op'[d].vault = v /\ op'[d].step = "confirmed"
      /\ op'[d] # None
      /\ key'[d] = runKey(d, v)
      /\ \A e \in Device \ {d} : op'[e] = op[e] /\ key'[e] = key[e]
  <2>1. op \in [Device -> Op \cup {None}] /\ key \in [Device -> Vault \cup {None}]
    BY DEF Kept, VolatileOK
  <2>2. op'[d] \in Op
    BY <1>1, <1>2, <1>5, <2>1 DEF Op
  <2>3. op'[d] # None
    BY <2>2, NoneIsNothing
  <2> QED
    BY <1>1, <1>2, <2>1, <2>3 DEF Op
<1>7. /\ session'[d] = [phase |-> "off", key |-> None] /\ check'[d] = None
      /\ \A e \in Device \ {d} : /\ session'[e] = session[e] /\ check'[e] = check[e]
                                 /\ conn'[e] = conn[e]
  BY DEF Confirm, StopLive, Kept, VolatileOK, SettingsOK
<1>8. /\ \A e \in Device \ {d} : /\ destructive(e)' <=> destructive(e)
                                 /\ running(e)' <=> running(e)
                                 /\ initRuns(e)' <=> initRuns(e)
                                 /\ unpublished(e)' <=> unpublished(e)
      /\ destructive(d)' /\ running(d)'
      /\ initRuns(d)' <=> op[d].name = "init"
      /\ unpublished(d)' <=> op[d].name = "init"
  <2>1. \A e \in Device \ {d} : /\ destructive(e)' <=> destructive(e)
                                /\ running(e)' <=> running(e)
                                /\ initRuns(e)' <=> initRuns(e)
                                /\ unpublished(e)' <=> unpublished(e)
    BY <1>6 DEF destructive, running, idle, unpublished, initRuns
  <2>2. destructive(d)' /\ running(d)'
    BY <1>1, <1>6 DEF destructive, running, idle
  <2> QED
    BY <1>6, <2>1, <2>2 DEF unpublished, initRuns
<1>9. /\ vaults \in Seq(BOOLEAN) /\ Len(vaults) \in Vault /\ enc[d] \in BOOLEAN
      /\ Len(vaults') = IF op[d].name = "init" THEN Len(vaults) + 1 ELSE Len(vaults)
      /\ Len(vaults) \in Nat
  <2>1. vaults \in Seq(BOOLEAN) /\ Len(vaults) \in Vault /\ enc[d] \in BOOLEAN
    BY DEF Kept, RemoteOK, SettingsOK
  <2> QED
    BY <1>2, <2>1
<1>10. \A w : Known(w) => Known(w)' /\ keyOf(w)' = keyOf(w)
  <2> SUFFICES ASSUME NEW w, Known(w) PROVE Known(w)' /\ keyOf(w)' = keyOf(w)
    OBVIOUS
  <2>1. keyOf(w)' = keyOf(w)
    BY <1>2, <1>9, KeysStay DEF Known, Kept
  <2>2. \A e \in Device : unpublished(e)' => unpublished(e) \/ Len(vaults) < Len(vaults')
    BY <1>8, <1>9
  <2>3. Known(w)'
    BY <1>2, <1>9, <2>2, KnownStays DEF Kept
  <2> QED
    BY <2>1, <2>3
<1>11. InitsOK'
  <2>1. \A e \in Device : initRuns(e)' /\ e # d => op[d].name = "clone" /\ initRuns(e)
    BY <1>1, <1>3, <1>8
  <2>2. initRuns(d)' => op'[d].vault = Len(vaults') /\ op'[d].step = "confirmed"
    BY <1>3, <1>6, <1>8, <1>9
  <2>3. op[d].name = "clone" => Len(vaults') = Len(vaults) /\ ~initRuns(d)'
    BY <1>8, <1>9
  <2>4. server' = server
    BY <1>2
  <2>5. \A e, f \in Device : initRuns(e)' /\ initRuns(f)' => e = f
    BY <2>1, <2>3, <1>8, <1>1 DEF KeyInv, InitsOK
  <2>6. ASSUME NEW e \in Device, initRuns(e)'
        PROVE /\ op'[e].vault = Len(vaults')
              /\ op'[e].step = "recreated" => server'.meta = 0
              /\ op'[e].step \in {"published", "filled"} => server'.meta = op'[e].vault
    <3>1. CASE e = d
      BY <2>2, <2>6, <3>1
    <3>2. CASE e # d
      BY <2>1, <2>3, <2>4, <2>6, <3>2, <1>6 DEF KeyInv, InitsOK
    <3> QED
      BY <3>1, <3>2
  <2> QED
    BY <2>5, <2>6 DEF InitsOK
<1>12. AllKnown'
  <2>1. /\ Known(server.meta)
        /\ \A e \in Device :
             /\ root[e] # None => Known(root[e])
             /\ check[e] # None => Known(check[e].meta)
             /\ running(e) /\ op[e].name = "clone" => Known(op[e].vault)
             /\ key[e] # None /\ ~unpublished(e) => Known(key[e])
    BY DEF KeyInv, AllKnown
  <2>2. key'[d] # None /\ ~unpublished(d)' => Known(key[d])'
    BY <1>1, <1>4, <1>6, <1>8, <1>10 DEF runKey
  <2>3. Known(server.meta)'
    BY <1>2, <1>10, <2>1
  <2>4. ASSUME NEW e \in Device
        PROVE /\ root'[e] # None => Known(root[e])'
              /\ check'[e] # None => Known(check[e].meta)'
              /\ running(e)' /\ op'[e].name = "clone" => Known(op[e].vault)'
              /\ key'[e] # None /\ ~unpublished(e)' => Known(key[e])'
    <3>1. root'[e] # None => Known(root[e])'
      BY <1>2, <1>10, <2>1
    <3>2. check'[e] # None => Known(check[e].meta)'
      <4>1. check'[e] # None => e # d /\ check'[e] = check[e]
        BY <1>7
      <4> QED
        BY <1>10, <2>1, <4>1
    <3>3. running(e)' /\ op'[e].name = "clone" => Known(op[e].vault)'
      <4>1. CASE e = d
        BY <1>4, <1>6, <1>10, <4>1
      <4>2. CASE e # d
        BY <1>6, <1>8, <1>10, <2>1, <4>2
      <4> QED
        BY <4>1, <4>2
    <3>4. key'[e] # None /\ ~unpublished(e)' => Known(key[e])'
      BY <1>6, <1>8, <1>10, <2>1, <2>2
    <3> QED
      BY <3>1, <3>2, <3>3, <3>4
  <2> QED
    BY <2>3, <2>4 DEF AllKnown
<1>13. RunKeysOK'
  <2>1. ASSUME NEW e \in Device, e # d, destructive(e)
        PROVE keyOf(op[e].vault)' = keyOf(op[e].vault)
    <3>1. op'[e] = op[e] /\ running(e) /\ op[e].name \in {"init", "clone"}
      BY <1>6, <2>1 DEF destructive, running, idle
    <3>2. op[e].vault \in 0 .. Len(vaults)
      <4>1. CASE op[e].name = "clone"
        BY <3>1, <4>1 DEF KeyInv, AllKnown, Known
      <4>2. CASE op[e].name = "init"
        <5>1. op[e].vault = Len(vaults)
          BY <2>1, <4>2 DEF KeyInv, InitsOK, initRuns
        <5> QED
          BY <1>9, <5>1
      <4> QED
        BY <3>1, <4>1, <4>2
    <3>3. vaults' \in {vaults, Append(vaults, enc[d])}
      BY <1>2
    <3>4. ASSUME NEW w \in 0 .. Len(vaults) PROVE keyOf(w)' = keyOf(w)
      BY <1>9, <3>3, KeysStay DEF Kept
    <3> QED
      BY <3>1, <3>2, <3>4
  <2>2. key'[d] = keyOf(op[d].vault)'
    BY <1>6 DEF runKey, keyOf
  <2> QED
    BY <1>6, <1>7, <1>8, <1>10, <2>1, <2>2 DEF KeyInv, RunKeysOK
<1>14. SessionsOK'
  <2>1. \A e \in Device \ {d} : check[e] # None => Known(check[e].meta)
    BY DEF KeyInv, AllKnown
  <2> QED
    BY <1>2, <1>6, <1>7, <1>10, <2>1 DEF KeyInv, SessionsOK, rootChanged
<1>15. KeysOK'
  BY <1>2, <1>6, <1>8 DEF KeyInv, KeysOK
<1>16. KeyOfRoot'
  BY <1>2, <1>7, <1>10 DEF KeyInv, KeyOfRoot, live, AllKnown
<1> QED
  BY <1>11, <1>12, <1>13, <1>14, <1>15, <1>16 DEF KeyInv

\* A step of an Init, where it leads.
LEMMA InitStepTo ==
  ASSUME Kept, KeyInv, NEW d \in Device, NEW from, NEW s \in {"recreated", "published"},
         at(d, "init", from), from \in {"emptied", "recreated"}, stepTo(d, s)
  PROVE  /\ op'[d].name = "init" /\ op'[d].vault = op[d].vault /\ op'[d].step = s
         /\ \A e \in Device \ {d} : op'[e] = op[e]
         /\ \A e \in Device : /\ destructive(e)' <=> destructive(e)
                              /\ running(e)' <=> running(e)
                              /\ initRuns(e)' <=> initRuns(e)
                              /\ e # d => (unpublished(e)' <=> unpublished(e))
         /\ unpublished(d) /\ (unpublished(d)' <=> s = "recreated")
         /\ initRuns(d) /\ destructive(d) /\ op[d].step = from
         /\ op[d].vault = Len(vaults)
<1>1. running(d) /\ destructive(d) /\ op[d].name = "init" /\ op[d].step = from /\ op[d] # None
  BY RunningAt
<1>2. /\ \A e \in Device \ {d} : op'[e] = op[e]
      /\ op'[d].name = op[d].name /\ op'[d].vault = op[d].vault /\ op'[d].step = s
  BY <1>1, StepToKeeps
<1>3. op'[d] # None
  <2>1. op' = [op EXCEPT ![d].step = s] /\ op \in [Device -> Op \cup {None}]
    BY DEF stepTo, Kept, VolatileOK
  <2>2. op'[d] \in Op
    BY <1>1, <2>1 DEF Op
  <2> QED
    BY <2>2, NoneIsNothing
<1> QED
  BY <1>1, <1>2, <1>3 DEF destructive, running, idle, unpublished, initRuns, KeyInv, InitsOK

LEMMA RecreateRemoteSeals ==
  ASSUME Kept, KeyInv, NEW d \in Device, "legacy" \notin Windows, RecreateRemote(d)
  PROVE  KeyInv'
<1>1. /\ at(d, "init", "emptied") /\ stepTo(d, "recreated")
      /\ \A e \in Device \ {d} : root[e] = None => key[e] = None /\ check[e] = None
      /\ server'.meta = 0
      /\ UNCHANGED <<conn, root, enc, key, check, session, vaults>>
  BY DEF RecreateRemote, settings
<1>2. /\ op'[d].name = "init" /\ op'[d].vault = op[d].vault /\ op'[d].step = "recreated"
      /\ \A e \in Device \ {d} : op'[e] = op[e]
      /\ \A e \in Device : /\ destructive(e)' <=> destructive(e)
                           /\ running(e)' <=> running(e)
                           /\ initRuns(e)' <=> initRuns(e)
                           /\ unpublished(e)' <=> unpublished(e)
      /\ initRuns(d) /\ destructive(d) /\ op[d].vault = Len(vaults)
  BY <1>1, InitStepTo
<1>3. \A v : keyOf(v)' = keyOf(v) /\ (Known(v) => Known(v)')
  BY <1>1, <1>2 DEF keyOf, Known
<1>4. Known(0)'
  <2>1. Len(vaults) \in Nat /\ 0 < Len(vaults)
    BY DEF Kept, RemoteOK, Vault
  <2> QED
    BY <1>1, <2>1 DEF Known
<1>5. InitsOK'
  BY <1>1, <1>2 DEF KeyInv, InitsOK
<1>6. AllKnown'
  BY <1>1, <1>2, <1>3, <1>4 DEF KeyInv, AllKnown
<1>7. RunKeysOK'
  BY <1>1, <1>2, <1>3 DEF KeyInv, RunKeysOK
<1>8. check[d] = None
  BY <1>2 DEF KeyInv, RunKeysOK
<1>9. SessionsOK'
  BY <1>1, <1>3, <1>8 DEF KeyInv, SessionsOK, rootChanged
<1>10. KeysOK'
  BY <1>1, <1>2 DEF KeyInv, KeysOK
<1>11. KeyOfRoot'
  BY <1>1, <1>3 DEF KeyInv, KeyOfRoot, live
<1> QED
  BY <1>5, <1>6, <1>7, <1>9, <1>10, <1>11 DEF KeyInv

LEMMA PublishMetaSeals ==
  ASSUME Kept, KeyInv, NEW d \in Device, PublishMeta(d)
  PROVE  KeyInv'
<1>1. /\ at(d, "init", "recreated") /\ stepTo(d, "published")
      /\ UNCHANGED <<conn, root, enc, key, check, session, vaults>>
  BY DEF PublishMeta, settings
<1>2. /\ op'[d].name = "init" /\ op'[d].vault = op[d].vault /\ op'[d].step = "published"
      /\ \A e \in Device \ {d} : op'[e] = op[e]
      /\ \A e \in Device : /\ destructive(e)' <=> destructive(e)
                           /\ running(e)' <=> running(e)
                           /\ initRuns(e)' <=> initRuns(e)
                           /\ e # d => (unpublished(e)' <=> unpublished(e))
      /\ initRuns(d) /\ destructive(d) /\ op[d].vault = Len(vaults)
      /\ ~unpublished(d)' /\ op[d].step = "recreated"
  BY <1>1, InitStepTo
<1>3. server.meta = 0 /\ server'.meta = Len(vaults)
  <2>1. server.meta = 0
    BY <1>2 DEF KeyInv, InitsOK
  <2>2. server' = [server EXCEPT !.meta = op[d].vault, !.feed = Append(@, metaRow(op[d].vault))]
    BY <2>1 DEF PublishMeta
  <2>3. server \in [db: Nat, meta: Vault \cup {0}, feed: Seq(Row)]
    BY DEF Kept, RemoteOK
  <2> QED
    BY <1>2, <2>1, <2>2, <2>3
<1>4. \A e \in Device : ~unpublished(e)' /\ (initRuns(e)' => e = d)
  BY <1>2 DEF KeyInv, InitsOK, unpublished
<1>5. Len(vaults) \in Nat
  BY DEF Kept, RemoteOK
<1>6. \A v : keyOf(v)' = keyOf(v) /\ (Known(v) => Known(v)')
  BY <1>1, <1>3, <1>4 DEF keyOf, Known
<1>7. Known(Len(vaults))'
  BY <1>1, <1>3, <1>4, <1>5 DEF Known
<1>8. InitsOK'
  BY <1>1, <1>2, <1>3, <1>4 DEF InitsOK
<1>9. AllKnown'
  <2>1. Known(server.meta)'
    BY <1>1, <1>3, <1>5, <1>4 DEF Known
  <2>2. key[d] # None => Known(key[d])'
    <3>1. key'[d] = key[d] /\ (key[d] # None => key[d] = Len(vaults'))
      BY <1>1, <1>2 DEF KeyInv, RunKeysOK, keyOf
    <3> QED
      BY <1>7, <3>1
  <2>3. \A e \in Device : e # d /\ key[e] # None => Known(key[e])'
    <3>1. \A e \in Device : e # d => ~unpublished(e) /\ key'[e] = key[e]
      BY <1>1, <1>2, <1>4
    <3> QED
      BY <1>6, <3>1 DEF KeyInv, AllKnown
  <2> QED
    BY <1>1, <1>2, <1>6, <2>1, <2>2, <2>3 DEF KeyInv, AllKnown
<1>10. RunKeysOK'
  BY <1>1, <1>2, <1>6 DEF KeyInv, RunKeysOK
<1>11. SessionsOK'
  BY <1>1, <1>3, <1>6 DEF KeyInv, SessionsOK, rootChanged
<1>12. KeysOK'
  <2>1. \A e \in Device : key[e] # 0
    BY VaultsAreNumbers DEF Kept, VolatileOK, Vault
  <2> QED
    BY <1>1, <1>2, <1>3, <2>1 DEF KeyInv, KeysOK
<1>13. KeyOfRoot'
  BY <1>1, <1>6 DEF KeyInv, KeyOfRoot, live
<1> QED
  BY <1>8, <1>9, <1>10, <1>11, <1>12, <1>13 DEF KeyInv

LEMMA SettleSeals ==
  ASSUME Kept, KeyInv, NEW d \in Device, Settle(d)
  PROVE  KeyInv'
<1> DEFINE v == op[d].vault
<1>1. /\ running(d) /\ destructive(d) /\ op[d] # None /\ op[d].name \in {"init", "clone"}
      /\ op[d].step = "filled"
  BY RunningAt DEF Settle
<1>2. /\ key[d] = keyOf(v) /\ session[d].phase = "off" /\ check[d] = None
  BY <1>1 DEF KeyInv, RunKeysOK
<1>3. /\ root'[d] = v /\ op'[d] = None
      /\ \A e \in Device \ {d} : /\ root'[e] = root[e] /\ op'[e] = op[e]
                                 /\ enc'[e] = enc[e] /\ conn'[e] = conn[e]
      /\ UNCHANGED <<key, check, session, server, vaults>>
  BY DEF Settle, Kept, SettingsOK, VolatileOK
<1>4. /\ \A e \in Device \ {d} : /\ destructive(e)' <=> destructive(e)
                                 /\ running(e)' <=> running(e)
                                 /\ initRuns(e)' <=> initRuns(e)
                                 /\ unpublished(e)' <=> unpublished(e)
      /\ ~destructive(d)' /\ ~running(d)' /\ ~initRuns(d)' /\ ~unpublished(d)'
      /\ ~unpublished(d)
  BY <1>1, <1>3 DEF destructive, running, idle, unpublished, initRuns
<1>5. \A w : keyOf(w)' = keyOf(w) /\ (Known(w) => Known(w)')
  BY <1>3, <1>4, KnownAlike DEF keyOf
<1>6. Known(v)
  <2>1. CASE op[d].name = "clone"
    BY <1>1, <2>1 DEF KeyInv, AllKnown
  <2>2. CASE op[d].name = "init"
    BY <1>1, <2>2 DEF KeyInv, AllKnown, InitsOK, initRuns
  <2> QED
    BY <1>1, <2>1, <2>2
<1>7. v # None /\ v \in Nat
  BY <1>6, BindingAssumption DEF Known
<1> HIDE DEF v
<1>8. InitsOK'
  BY <1>3, <1>4 DEF KeyInv, InitsOK
<1>9. AllKnown'
  BY <1>3, <1>4, <1>5, <1>6 DEF KeyInv, AllKnown
<1>10. RunKeysOK'
  BY <1>3, <1>4, <1>5 DEF KeyInv, RunKeysOK
<1>11. SessionsOK'
  BY <1>2, <1>3, <1>5 DEF KeyInv, SessionsOK, rootChanged
<1>12. KeysOK'
  BY <1>2, <1>3, <1>4, <1>7 DEF KeyInv, KeysOK, keyOf
<1>13. KeyOfRoot'
  BY <1>2, <1>3, <1>5 DEF KeyInv, KeyOfRoot, live
<1> QED
  BY <1>8, <1>9, <1>10, <1>11, <1>12, <1>13 DEF KeyInv

LEMMA QuietSeals ==
  ASSUME Kept, KeyInv,
         UNCHANGED vars \/ \E d \in Device : PullCommit(d) \/ Push(d) \/ ConfigStarts(d) \/ ConfigEnds(d)
  PROVE  KeyInv'
<1>1. UNCHANGED <<settings, key, op, check, session, vaults>> /\ server'.meta = server.meta
  <2>1. CASE UNCHANGED vars
    BY <2>1 DEF vars, volatile
  <2>2. CASE \E d \in Device : PullCommit(d) \/ Push(d) \/ ConfigStarts(d) \/ ConfigEnds(d)
    BY <2>2 DEF PullCommit, Push, ConfigStarts, ConfigEnds, volatile, Kept, RemoteOK
  <2> QED
    BY <2>1, <2>2
<1>2. InitsOK' /\ AllKnown' /\ RunKeysOK'
  BY <1>1, OthersAlike DEF KeyInv, InitsOK, AllKnown, RunKeysOK, settings
<1>3. SessionsOK' /\ KeysOK' /\ KeyOfRoot'
  BY <1>1, OthersAlike DEF KeyInv, SessionsOK, KeysOK, KeyOfRoot, settings, rootChanged, live
<1> QED
  BY <1>2, <1>3 DEF KeyInv

-----------------------------------------------------------------------------
LEMMA InitSeals == Init => KeyInv
<1> SUFFICES ASSUME Init PROVE KeyInv
  OBVIOUS
<1>1. PICK e \in Encryptions : vaults = <<e>>
  BY DEF Init
<1>2. e \in BOOLEAN /\ Len(vaults) = 1 /\ vaults[1] = e
  BY <1>1, BindingAssumption
<1>3. \A d \in Device : /\ ~destructive(d) /\ ~running(d) /\ ~initRuns(d) /\ ~unpublished(d)
                        /\ check[d] = None
  BY DEF Init, destructive, running, idle, initRuns, unpublished
<1>4. Known(1) /\ server.meta = 1
  BY <1>2, <1>3 DEF Known, Init
<1>5. \A d \in Device : /\ root[d] \in {None, 1} /\ key[d] \in {None, keyOf(1)}
                        /\ root[d] = None => key[d] = None /\ session[d].phase = "off"
                        /\ root[d] = 1 => session[d].key = keyOf(1)
                        /\ session[d].phase # "off" => conn[d] = "syncing"
  <2> SUFFICES ASSUME NEW d \in Device
               PROVE /\ root[d] \in {None, 1} /\ key[d] \in {None, keyOf(1)}
                     /\ root[d] = None => key[d] = None /\ session[d].phase = "off"
                     /\ root[d] = 1 => session[d].key = keyOf(1)
                     /\ session[d].phase # "off" => conn[d] = "syncing"
    OBVIOUS
  <2>1. CASE d \in Unrecorded
    BY <2>1, BindingAssumption DEF Init
  <2>2. CASE d \notin Unrecorded
    BY <2>2, BindingAssumption DEF Init
  <2> QED
    BY <2>1, <2>2
<1>6. InitsOK /\ RunKeysOK /\ SessionsOK
  BY <1>3, <1>5 DEF InitsOK, RunKeysOK, SessionsOK
<1>7. AllKnown
  BY <1>3, <1>4, <1>5 DEF AllKnown, keyOf
<1>8. KeysOK
  BY <1>5 DEF KeysOK, keyOf
<1>9. KeyOfRoot
  BY <1>5 DEF KeyOfRoot, live
<1> QED
  BY <1>6, <1>7, <1>8, <1>9 DEF KeyInv

LEMMA NextSeals ==
  ASSUME Kept, KeyInv, Windows \subseteq {"batch"}, [Next]_vars
  PROVE  KeyInv'
<1> "check" \notin Windows /\ "inits" \notin Windows /\ "legacy" \notin Windows
  OBVIOUS
<1>1. CASE UNCHANGED vars
  BY <1>1, QuietSeals
<1>2. CASE Next
  <2>1. PICK d \in Device :
          \/ Setup(d) \/ User(d) \/ Session(d) \/ NotUnlocked(d)
          \/ Push(d) \/ SessionRestarts(d)
          \/ Crash(d) \/ Reload(d)
    BY <1>2 DEF Next
  <2>2. CASE Setup(d)
    <3>1. \/ \E name \in {"init", "clone"} : Prepare(d, name)
          \/ Confirm(d) \/ EmptyLocal(d) \/ RecreateRemote(d) \/ PublishMeta(d)
          \/ PushVault(d) \/ PullVault(d) \/ Settle(d) \/ Fail(d)
      BY <2>2 DEF Setup, init, clone, setupInit, setupClone
    <3> QED
      BY <3>1, BeginsSeals, ConfirmSeals, RunGoesOnSeals, RecreateRemoteSeals,
         PublishMetaSeals, SettleSeals, FailSeals
  <2>3. CASE User(d)
    <3>1. \/ LiveOn(d) \/ LiveOff(d) \/ CheckDatabase(d) \/ CheckedDatabase(d)
          \/ \E e \in Encryptions : ChangeCodecSetting(d, e)
          \/ \E state \in Conn : Apply(d, state)
          \/ ConfigStarts(d) \/ ConfigEnds(d) \/ DeleteLocal(d)
      BY <2>3 DEF User, applyDatabase, applyServer, Conn
    <3> QED
      BY <3>1, LiveOnSeals, LiveOffSeals, BeginsSeals, ChangeCodecSettingSeals, ApplySeals,
         QuietSeals, DeleteLocalSeals
  <2>4. CASE Session(d)
    BY <2>4, FetchMetaSeals, UnlocksSeals, CheckEndsSeals, PullFetchSeals, QuietSeals
       DEF Session
  <2> QED
    BY <2>1, <2>2, <2>3, <2>4, CheckEndsSeals, QuietSeals, SessionRestartsSeals,
       CrashSeals, ReloadSeals
<1> QED
  BY <1>1, <1>2

(***************************************************************************)
(* The key ring: a live session on an encrypted vault seals under the key  *)
(* of the vault its device is bound to, and on a plain one under none,     *)
(* whatever was unlocked, failed or replaced before.  The overlaps in      *)
(* which it does not are named by the windows that are closed here.        *)
(***************************************************************************)
THEOREM SealsUnderItsOwnKey ==
  ASSUME Windows \subseteq {"batch"}
  PROVE  Spec => []KeyOfRoot
<1>1. KeyInv => KeyOfRoot
  BY DEF KeyInv
<1>2. KeyInv /\ Kept /\ [Next]_vars => KeyInv'
  BY NextSeals
<1> QED
  BY <1>1, <1>2, InitSeals, SpecKeeps, PTL DEF Spec
=============================================================================
