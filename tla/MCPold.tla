------------------------------- MODULE MCPold -------------------------------
EXTENDS PoldProperties, TLC

CONSTANTS a1, a2, p1, p2, pold, r1, r2, s1, u1, u2, g1, j1, j2, j3, garbage, empty

MCPolicyId == {s1, u1, u2, g1}
MCTypeOf == [id \in MCPolicyId |->
  CASE id = s1 -> "selinux" [] id \in {u1, u2} -> "user" [] id = g1 -> "group"]

(* p1 has a context, p2 does not; they belong to different users of a group. *)
MCSelinuxId == [app \in App |-> IF app = p1 THEN s1 ELSE NULL]
MCUserId == [app \in App |-> IF app = p1 THEN u1 ELSE u2]
MCGroupId == [app \in App |-> g1]

(* An agent's name is a prefix of its own ids only.                          *)
MCText == Agent \cup {garbage, empty}
MCPrefixFree == [t \in MCText |->
  IF t \in Agent THEN {t} ELSE IF t = empty THEN Agent ELSE {}]
(* ":1.1" is a prefix of ":1.10/...": every id of a2 starts with a1.         *)
MCPrefixed == [t \in MCText |->
  IF t = a1 THEN Agent ELSE IF t = a2 THEN {a2}
  ELSE IF t = empty THEN Agent ELSE {}]

MCSenderIntact == [a \in Agent |-> {a}]
MCSenderAny == [a \in Agent |-> MCText]

(* The selinux policy comes and goes, the user policy changes its document.  *)
MCInitialFiles == {[id |-> u1, json |-> j1]}
MCGoodResponses ==
  {<<[id |-> s1, json |-> j2], [id |-> u1, json |-> j1]>>, <<>>}

(* Every policy is withdrawn: all apps fall back to the default policy.      *)
MCWithdrawal == {<<>>}

(* One object without an "Id" among the others: some loads fail midway.      *)
MCBadResponses ==
  {<<[id |-> u1, json |-> j2], [id |-> NoId, json |-> j1]>>,
   <<[id |-> u1, json |-> j1]>>}

(* Agents whose names are no prefixes of each other are interchangeable.     *)
MCSymmetry == Permutations(Agent)
=============================================================================
