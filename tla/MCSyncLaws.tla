----------------------------- MODULE MCSyncLaws -----------------------------
(* SyncLaws on two devices and two contents; counters 0 and 1 already make *)
(* two clocks equal, ordered either way and concurrent.                    *)
EXTENDS SyncLaws

MCCount == 0..1

=============================================================================
