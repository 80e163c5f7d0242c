---------------------------- MODULE LiveSession ----------------------------
(***************************************************************************)
(* What the sync engine promises about its sessions: there is at most one, *)
(* it comes up once it has caught up, it is closed before another one      *)
(* opens, and the status shows "connected" only since it came up: a        *)
(* restart may keep showing it until the next session opens.               *)
(***************************************************************************)
CONSTANTS Session, None

VARIABLES
  link,    \* the session, or None
  up,      \* it has caught up with the server
  shown    \* the status says connected

vars == <<link, up, shown>>

Init == link = None /\ up = FALSE /\ shown = FALSE

Open  == /\ link = None
         /\ link' \in Session
         /\ up' = FALSE /\ shown' = FALSE

Up    == /\ link # None /\ ~up
         /\ up' = TRUE /\ shown' = TRUE
         /\ UNCHANGED link

\* A trouble the session may survive is shown before it is closed, or not.
Fault == /\ shown' = FALSE
         /\ UNCHANGED <<link, up>>

Close == /\ link # None
         /\ link' = None
         /\ up' = FALSE /\ shown' \in {shown, FALSE}

Next == Open \/ Up \/ Fault \/ Close

Spec == Init /\ [][Next]_vars

=============================================================================
