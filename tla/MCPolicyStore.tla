---------------------------- MODULE MCPolicyStore ----------------------------
(* Versions of different lengths; one that wipes the directory (no array),   *)
(* one cut off by an element that is no object, one with an object that has  *)
(* no "Id", one without a body.                                              *)
EXTENDS PolicyStore

CONSTANTS s1, u1, j1, j2, j3, j4

MCTypeOf == [id \in {s1, u1} |-> IF id = s1 THEN "selinux" ELSE "user"]

MCAnswer ==
  <<<<[id |-> s1, json |-> j1], [id |-> u1, json |-> j1]>>,
    <<[id |-> u1, json |-> j2], NotObject>>,
    <<[id |-> NoId, json |-> j2], [id |-> s1, json |-> j2]>>,
    NotArray,
    NULL,
    <<[id |-> u1, json |-> j3], [id |-> u1, json |-> j4]>>>>
=============================================================================
