---------------------------- MODULE MCCouchClient ----------------------------
(***************************************************************************)
(* Two places for calls of one client.                                     *)
(***************************************************************************)
EXTENDS CouchClient
CONSTANTS c1, c2
Slots == {c1, c2}
=============================================================================
