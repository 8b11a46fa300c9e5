--------------------------- MODULE MCPolicyMessage ---------------------------
(* Two ids of one type, one of each other type: ties, gaps and ids of no     *)
(* known type in every order. Every document is sent once nothing is to be   *)
(* selected; the selection itself does not look at documents.                *)
EXTENDS PolicyMessage

CONSTANTS s1, s2, u1, g1, x1, w1, w2, r1

MCPolicyId == {s1, s2, u1, g1, x1}
MCTypeOf == [id \in MCPolicyId |-> CASE id \in {s1, s2} -> "selinux"
                                     [] id = u1 -> "user"
                                     [] id = g1 -> "group"
                                     [] OTHER -> "other"]

Value(t, v) == [type |-> t, value |-> v]
Upto(n, S) == UNION {[1 .. k -> S] : k \in 0 .. n}
Arrays(n, S) == {Value("array", a) : a \in Upto(n, S)}
Objects(keys, S) == {Value("object", f) : f \in UNION {[K -> S] : K \in SUBSET keys}}

Word == {Value("string", w1), Value("string", w2)}
Leaf == Word \cup {Value("null", 0), Value("true", TRUE), Value("false", FALSE),
                   Value("integer", 1), Value("integer", 2^(IntBits - 1)), Value("real", r1)}
Flat == Leaf \cup Arrays(2, Leaf) \cup Objects({"k"}, Leaf)

(* Every array of two values at two levels, every list of three values, of   *)
(* words and of an object's entries.                                         *)
Documents ==
  Leaf \cup Arrays(2, Flat) \cup Objects({"k"}, Arrays(2, Arrays(2, Leaf)))
  \cup Arrays(3, Leaf) \cup Objects({"AllowedBearers", "k"}, Arrays(3, Word) \cup Leaf)

Plain == Value("object", [key \in {} |-> NULL])

MCInit ==
  /\ Init /\ message = NULL
  /\ IF policy_ids = <<>> /\ \A id \in PolicyId : id_to_policy[id] = NULL
     THEN document \in Documents ELSE document = Plain

MCSpec == MCInit /\ [][MessageNext]_allVars
=============================================================================
