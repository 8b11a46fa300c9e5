----------------------------- MODULE PolicyMatch -----------------------------
(* The vocabulary of src/policy.c: policy ids, their priorities, the table   *)
(* id_to_policy, and which policy is the active one of an application.       *)
(* The active policy is stated here as WHAT the comment of get_active_policy *)
(* promises; the loop that computes it is the state machine ActivePolicy.    *)
EXTENDS Integers, Sequences

CONSTANTS
  PolicyId,   \* the ids policies and applications can have ("user:foo", ...)
  Json,       \* policy documents, told apart by identity only
  NULL,       \* the NULL pointer
  TypeOf      \* the prefix of each id: "selinux", "user", "group" or "other"

PolicyType == {"selinux", "user", "group", "other"}

ASSUME NullAssumption == NULL \notin PolicyId /\ NULL \notin Json
ASSUME TypeAssumption == TypeOf \in [PolicyId -> PolicyType]

(* g_str_has_prefix on the three known types; -1 for everything else.        *)
get_policy_priority(id) ==
  CASE TypeOf[id] = "selinux" -> 2
    [] TypeOf[id] = "user"    -> 1
    [] TypeOf[id] = "group"   -> 0
    [] OTHER                  -> -1

(* id_to_policy: the document stored under an id, NULL if there is none.     *)
Table == [PolicyId -> Json \cup {NULL}]

(* A position of the list whose id has a type and a stored policy.           *)
Matches(ids, table, i) ==
  /\ table[ids[i]] # NULL
  /\ get_policy_priority(ids[i]) >= 0

(* Among the first n positions, i holds the highest priority, and is the     *)
(* first to do so.                                                           *)
IsFirstBest(ids, table, n, i) ==
  /\ i \in 1 .. n
  /\ Matches(ids, table, i)
  /\ \A j \in 1 .. n : Matches(ids, table, j) =>
       \/ get_policy_priority(ids[j]) < get_policy_priority(ids[i])
       \/ get_policy_priority(ids[j]) = get_policy_priority(ids[i]) /\ i <= j

(* The id of the active policy; NULL stands for the default policy.          *)
ActiveId(ids, table) ==
  IF \E i \in DOMAIN ids : IsFirstBest(ids, table, Len(ids), i)
  THEN ids[CHOOSE i \in DOMAIN ids : IsFirstBest(ids, table, Len(ids), i)]
  ELSE NULL

(* The document of the active policy.                                        *)
get_active_policy(ids, table, default_json) ==
  IF ActiveId(ids, table) = NULL
  THEN default_json
  ELSE table[ActiveId(ids, table)]
=============================================================================
