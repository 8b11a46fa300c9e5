------------------------- MODULE PolicyDistribution -------------------------
(* What the policy daemon promises its agents: a subscriber (an agent, for   *)
(* one of its applications) always knows the policy in force for it. Policies*)
(* change for all subscribers in one step, and all of them learn of it.      *)
CONSTANTS Subscriber, Document

VARIABLES
  in_force,   \* the policy in force for each current subscriber
  known       \* the policy the subscriber was told last

vars == <<in_force, known>>

Init == in_force = <<>> /\ known = <<>>

Restricted(f, S) == [s \in S |-> f[s]]

Subscribe(k) ==
  /\ k \notin DOMAIN in_force
  /\ in_force' \in [DOMAIN in_force \cup {k} -> Document]
  /\ Restricted(in_force', DOMAIN in_force) = in_force
  /\ known' = [s \in DOMAIN known \cup {k} |->
                 IF s = k THEN in_force'[k] ELSE known[s]]

Publish ==
  /\ in_force' \in [DOMAIN in_force -> Document]
  /\ known' = in_force'

Leave(gone) ==
  /\ in_force' = Restricted(in_force, DOMAIN in_force \ gone)
  /\ known' = Restricted(known, DOMAIN known \ gone)

Next ==
  \/ \E k \in Subscriber : Subscribe(k)
  \/ Publish
  \/ \E gone \in SUBSET DOMAIN in_force : Leave(gone)

Spec == Init /\ [][Next]_vars
=============================================================================
