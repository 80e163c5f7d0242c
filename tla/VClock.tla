------------------------------- MODULE VClock -------------------------------
(***************************************************************************)
(* Vector clocks as src/sync/vector-clock.ts computes with them.           *)
(*                                                                         *)
(* The code's clock is a sparse record: a device without an entry counts 0 *)
(* in every comparison and merge, so a clock is modelled as a total        *)
(* function from the devices to Nat and the empty record is ZeroClock.     *)
(***************************************************************************)
EXTENDS Naturals

CONSTANT Device     \* the devices that share one remote vault

Clock == [Device -> Nat]

ZeroClock == [d \in Device |-> 0]

\* a has seen everything b has seen.
Includes(a, b) == \A d \in Device : a[d] >= b[d]

Dominates(a, b) == Includes(a, b) /\ ~Includes(b, a)

Concurrent(a, b) == ~Includes(a, b) /\ ~Includes(b, a)

(***************************************************************************)
(* compareVC: one pass over the keys sets anyGreater and anyLess; the two  *)
(* flags decide the relation.                                              *)
(***************************************************************************)
compareVC(a, b) ==
  LET anyGreater == \E d \in Device : a[d] > b[d]
      anyLess    == \E d \in Device : a[d] < b[d]
  IN CASE anyGreater /\ anyLess   -> "concurrent"
       [] anyGreater /\ ~anyLess  -> "dominates"
       [] ~anyGreater /\ anyLess  -> "dominated"
       [] ~anyGreater /\ ~anyLess -> "equal"

mergeVC(a, b) == [d \in Device |-> IF a[d] >= b[d] THEN a[d] ELSE b[d]]

incrementVC(base, device) == [base EXCEPT ![device] = @ + 1]

=============================================================================
