---------------------------- MODULE MCRequestNodes ----------------------------
(* An instance of RequestNodes for TLC: every handler.                       *)
EXTENDS RequestNodes
MCKinds == DOMAIN Handlers
==============================================================================
