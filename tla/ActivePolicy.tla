----------------------------- MODULE ActivePolicy -----------------------------
(* get_active_policy of src/policy.c, one step per round of its loop over    *)
(* app->policy_ids.                                                          *)
EXTENDS PolicyMatch

CONSTANT MaxIds   \* bound on the length of the lists enumerated

VARIABLES
  policy_ids,     \* app->policy_ids
  id_to_policy,   \* the table of loaded policies
  pos,            \* the list node "ids" points at; past the end when done
  policy,         \* the best policy so far, by its id; NULL if none
  max_priority    \* its priority

vars == <<policy_ids, id_to_policy, pos, policy, max_priority>>

Lists == UNION {[1 .. n -> PolicyId] : n \in 0 .. MaxIds}

ASSUME BoundAssumption == MaxIds \in Nat

Init ==
  /\ policy_ids \in Lists
  /\ id_to_policy \in Table
  /\ pos = 1
  /\ policy = NULL
  /\ max_priority = -1

(* A stored policy of a strictly higher priority replaces the best one.      *)
AtLeastAsGood(id) ==
  /\ get_policy_priority(id) >= max_priority
  /\ get_policy_priority(id) >= 0
  /\ id_to_policy[id] # NULL
Better(id) ==
  /\ get_policy_priority(id) > max_priority
  /\ id_to_policy[id] # NULL

(* One round of the loop.                                                    *)
Round ==
  LET id == policy_ids[pos]
  IN  /\ pos <= Len(policy_ids)
      /\ policy' = IF Better(id) THEN id ELSE policy
      /\ max_priority' = IF Better(id) THEN get_policy_priority(id)
                                       ELSE max_priority
      /\ pos' = pos + 1
      /\ UNCHANGED <<policy_ids, id_to_policy>>

Next == Round
Spec == Init /\ [][Next]_vars

Done == pos > Len(policy_ids)

TypeOK ==
  /\ policy_ids \in Seq(PolicyId)
  /\ id_to_policy \in Table
  /\ pos \in 1 .. Len(policy_ids) + 1
  /\ policy \in PolicyId \cup {NULL}
  /\ max_priority \in -1 .. 2

(* What the loop keeps true of the nodes it has visited: policy is the first *)
(* of the highest priority among them, and max_priority its priority.        *)
BestSoFar ==
  \/ /\ policy = NULL /\ max_priority = -1
     /\ \A j \in 1 .. pos - 1 : ~Matches(policy_ids, id_to_policy, j)
  \/ \E i \in 1 .. pos - 1 :
       /\ IsFirstBest(policy_ids, id_to_policy, pos - 1, i)
       /\ policy = policy_ids[i]
       /\ max_priority = get_policy_priority(policy_ids[i])

(* "The active policy among those policies is the one whose type has the     *)
(* highest priority. If there are several policies which have the same       *)
(* highest priority type, the first one in the list wins" (policy.c:153-158),*)
(* whatever the list and the table; with no match it is the default policy.  *)
HighestPriorityWins ==
  Done => policy = ActiveId(policy_ids, id_to_policy)
=============================================================================
