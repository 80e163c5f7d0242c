---------------------------- MODULE ConfigMerge ----------------------------
(***************************************************************************)
(* The three-way merge of one settings file and the two decisions built on *)
(* it: what a Pull makes of the disk and what a Push sends.                *)
(*                                                                         *)
(* A file's content is a function from its keys to values, Missing where a *)
(* key is absent.  The code walks JSON objects to any depth and addresses  *)
(* a position by its JSON Pointer; here the positions are the leaves.  A    *)
(* set of plugin ids is a content whose keys are its members, and a file    *)
(* that is not merged key by key is a content with one key.                 *)
(***************************************************************************)

CONSTANTS Missing,  \* no value at this key
          NoFile,   \* no file on the disk
          None      \* no base, no document

(* What jsonEqual tells apart, key by key. *)
diffJson(base, local) == {k \in DOMAIN local : base[k] # local[k]}

(* With a base: the side that changed a key wins, and a key both changed
   keeps the local value.  A bug kept for the mutants: the remote value
   wins at every key that differs. *)
merge3_remote(base, local, remote) == remote

merge3(base, local, remote) ==
    [k \in DOMAIN local |-> IF base[k] = local[k] THEN remote[k] ELSE local[k]]

conflicts3(base, local, remote) ==
    {k \in DOMAIN local : local[k] # remote[k] /\ base[k] # local[k] /\ base[k] # remote[k]}

(* Without one: a key only one side has is kept, and the rule settles the
   others. *)
merge2(local, remote, localFirst) ==
    [k \in DOMAIN local |->
        IF local[k] = Missing \/ (remote[k] # Missing /\ ~localFirst)
        THEN remote[k] ELSE local[k]]

conflicts2(local, remote, localFirst) ==
    {k \in DOMAIN local : /\ localFirst /\ local[k] # remote[k]
                          /\ local[k] # Missing /\ remote[k] # Missing}

pinPointers(value, source, keys) ==
    [k \in DOMAIN value |-> IF k \in keys THEN source[k] ELSE value[k]]

mergeJson(base, local, remote, localFirst) ==
    IF base = None
    THEN [value |-> merge2(local, remote, localFirst),
          conflicts |-> conflicts2(local, remote, localFirst)]
    ELSE [value |-> merge3(base, local, remote), conflicts |-> conflicts3(base, local, remote)]

(* What the disk becomes after taking in `shared`.  Keys of `own` are
   declared this device's own, keys of `taken` take the shared value. *)
decidePull(base, local, shared, localFirst, own, taken) ==
    IF local = NoFile
    THEN [content |-> shared, conflicts |-> {}]
    ELSE LET kept   == own \ taken
             merged == mergeJson(base, local, shared, localFirst)
         IN [content |-> pinPointers(pinPointers(merged.value, local, kept), shared, taken),
             conflicts |-> merged.conflicts \ (kept \cup taken)]

(* What the disk changed: without a base the whole file is new. *)
diffForPush(base, local) == IF base = None THEN DOMAIN local ELSE diffJson(base, local)

(* The changes at some keys, put on the base. *)
applyJsonChanges(base, local, changes) ==
    [k \in DOMAIN base |-> IF k \in changes THEN local[k] ELSE base[k]]

(* What is sent for the changes selected. *)
pushContent(base, local, selected, own) ==
    IF base = None THEN local
    ELSE pinPointers(applyJsonChanges(base, local, selected), base, own)
=============================================================================
