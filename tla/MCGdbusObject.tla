---------------------------- MODULE MCGdbusObject ----------------------------
EXTENDS GdbusObject

CONSTANTS root, a, b, i1, i2, i3

(* "/", "/a" and "/a/b".                                                     *)
MCAbove == [p \in Path |-> CASE p = root -> <<>> [] p = a -> <<root>> [] p = b -> <<a, root>>]

MCOffered == {<<a, i2>>, <<a, i3>>, <<b, i1>>, <<b, i2>>}
=============================================================================
