---------------------------- MODULE MCGdbusWatch ----------------------------
EXTENDS GdbusWatch

CONSTANTS n, u, v, t

(* Signals from the owner of a name, and from anybody.                       *)
MCSignalRules == {<<n, t>>, <<NULL, NULL>>}
=============================================================================
