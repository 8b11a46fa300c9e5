---------------------------- MODULE MCGdbusCalls ----------------------------
(* Two calls: answers and authorizations can come in either order.           *)
EXTENDS GdbusCalls

CONSTANTS c1, c2
=============================================================================
