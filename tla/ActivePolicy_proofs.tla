------------------------- MODULE ActivePolicy_proofs -------------------------
(* The loop of get_active_policy finds the first policy of the highest       *)
(* priority, for lists of any length over any ids and any table.             *)
EXTENDS ActivePolicy, SequenceTheorems, TLAPS

LoopInvariant == TypeOK /\ BestSoFar

(* The lists the loop may start on are sequences.                            *)
LEMMA ListsAreSequences == Lists \subseteq Seq(PolicyId)
BY SeqDef DEF Lists

(* Priorities are the four values the comparison with max_priority needs.    *)
LEMMA PriorityRange == \A id \in PolicyId : get_policy_priority(id) \in -1 .. 2
BY DEF get_policy_priority

(* Before the first round nothing has been visited.                          *)
LEMMA LoopInit == Init => LoopInvariant
<1> SUFFICES ASSUME Init PROVE LoopInvariant
  OBVIOUS
<1>1. policy_ids \in Seq(PolicyId)
  BY ListsAreSequences DEF Init
<1>2. Len(policy_ids) \in Nat
  BY <1>1
<1>3. TypeOK
  BY <1>1, <1>2 DEF Init, TypeOK
<1>4. BestSoFar
  BY DEF Init, BestSoFar
<1> QED BY <1>3, <1>4 DEF LoopInvariant

(* A round extends the visited prefix by one node and keeps the invariant:   *)
(* a better node becomes the best of the longer prefix, and any other leaves *)
(* the best one where it was.                                                *)
LEMMA LoopStep == LoopInvariant /\ [Next]_vars => LoopInvariant'
<1> SUFFICES ASSUME LoopInvariant, [Next]_vars PROVE LoopInvariant'
  OBVIOUS
<1> USE DEF LoopInvariant
<1>1. CASE UNCHANGED vars
  BY <1>1 DEF vars, TypeOK, BestSoFar, IsFirstBest, Matches
<1>2. CASE Round
  <2> DEFINE id == policy_ids[pos]
  <2>1. /\ policy_ids' = policy_ids /\ id_to_policy' = id_to_policy
        /\ pos' = pos + 1 /\ pos \in 1 .. Len(policy_ids)
        /\ policy_ids \in Seq(PolicyId) /\ Len(policy_ids) \in Nat
    BY <1>2 DEF Round, TypeOK
  <2>2. id \in PolicyId /\ get_policy_priority(id) \in -1 .. 2
    BY <2>1, PriorityRange
  <2>3. TypeOK'
    BY <1>2, <2>1, <2>2 DEF Round, TypeOK
  <2>4. \A j \in 1 .. pos : j \in 1 .. pos - 1 \/ j = pos
    BY <2>1
  <2>5. CASE Better(id)
    <3>1. policy' = id /\ max_priority' = get_policy_priority(id)
      BY <1>2, <2>5 DEF Round
    <3>2. Matches(policy_ids, id_to_policy, pos)
      BY <2>2, <2>5 DEF Better, Matches, TypeOK
    <3>3. \A j \in 1 .. pos - 1 : Matches(policy_ids, id_to_policy, j) =>
            get_policy_priority(policy_ids[j]) < get_policy_priority(id)
      <4> SUFFICES ASSUME NEW j \in 1 .. pos - 1,
                          Matches(policy_ids, id_to_policy, j)
                   PROVE  get_policy_priority(policy_ids[j]) < get_policy_priority(id)
        OBVIOUS
      <4>1. policy_ids[j] \in PolicyId
        BY <2>1
      <4>2. get_policy_priority(policy_ids[j]) \in -1 .. 2
        BY <4>1, PriorityRange
      <4>3. get_policy_priority(policy_ids[j]) <= max_priority
        BY <4>2 DEF BestSoFar, IsFirstBest, TypeOK
      <4> QED BY <2>2, <2>5, <4>2, <4>3 DEF Better, TypeOK
    <3>4. IsFirstBest(policy_ids, id_to_policy, pos, pos)
      BY <2>1, <2>4, <3>2, <3>3 DEF IsFirstBest
    <3>5. BestSoFar'
      BY <2>1, <3>1, <3>4 DEF BestSoFar
    <3> QED BY <2>3, <3>5
  <2>6. CASE ~Better(id)
    <3>1. policy' = policy /\ max_priority' = max_priority
      BY <1>2, <2>6 DEF Round
    <3>2. Matches(policy_ids, id_to_policy, pos)
            => get_policy_priority(id) <= max_priority
      BY <2>2, <2>6 DEF Better, Matches, TypeOK
    <3>3. CASE policy = NULL /\ max_priority = -1
                 /\ \A j \in 1 .. pos - 1 : ~Matches(policy_ids, id_to_policy, j)
      <4>1. ~Matches(policy_ids, id_to_policy, pos)
        BY <2>2, <3>2, <3>3 DEF Matches
      <4>2. \A j \in 1 .. pos : ~Matches(policy_ids, id_to_policy, j)
        BY <2>4, <3>3, <4>1
      <4>3. BestSoFar'
        BY <2>1, <3>1, <3>3, <4>2 DEF BestSoFar, Matches
      <4> QED BY <2>3, <4>3
    <3>4. CASE \E i \in 1 .. pos - 1 :
                 /\ IsFirstBest(policy_ids, id_to_policy, pos - 1, i)
                 /\ policy = policy_ids[i]
                 /\ max_priority = get_policy_priority(policy_ids[i])
      <4>1. PICK i \in 1 .. pos - 1 :
              /\ IsFirstBest(policy_ids, id_to_policy, pos - 1, i)
              /\ policy = policy_ids[i]
              /\ max_priority = get_policy_priority(policy_ids[i])
        BY <3>4
      <4>2. Matches(policy_ids, id_to_policy, pos) =>
              \/ get_policy_priority(id) < get_policy_priority(policy_ids[i])
              \/ get_policy_priority(id) = get_policy_priority(policy_ids[i])
                   /\ i <= pos
        BY <2>1, <2>2, <3>2, <4>1 DEF TypeOK
      <4>3. IsFirstBest(policy_ids, id_to_policy, pos, i)
        BY <2>1, <2>4, <4>1, <4>2 DEF IsFirstBest
      <4>4. BestSoFar'
        BY <2>1, <3>1, <4>1, <4>3 DEF BestSoFar
      <4> QED BY <2>3, <4>4
    <3> QED BY <3>3, <3>4 DEF BestSoFar
  <2> QED BY <2>5, <2>6
<1> QED BY <1>1, <1>2 DEF Next

(* There is at most one first best position, so the CHOOSE of ActiveId can   *)
(* only return the one the loop found.                                       *)
LEMMA FirstBestUnique ==
  ASSUME NEW ids \in Seq(PolicyId), NEW table, NEW n \in Nat, n = Len(ids),
         NEW i, NEW j,
         IsFirstBest(ids, table, n, i), IsFirstBest(ids, table, n, j)
  PROVE  i = j
<1>1. i \in 1 .. n /\ j \in 1 .. n /\ ids[i] \in PolicyId /\ ids[j] \in PolicyId
  BY DEF IsFirstBest
<1>2. get_policy_priority(ids[i]) \in -1 .. 2 /\ get_policy_priority(ids[j]) \in -1 .. 2
  BY <1>1, PriorityRange
<1> QED BY <1>1, <1>2 DEF IsFirstBest

(* When the loop ends the whole list has been visited, and the invariant is  *)
(* the definition of the active policy.                                      *)
LEMMA LoopResult == LoopInvariant => HighestPriorityWins
<1> SUFFICES ASSUME LoopInvariant, Done
             PROVE  policy = ActiveId(policy_ids, id_to_policy)
  BY DEF HighestPriorityWins
<1>1. /\ policy_ids \in Seq(PolicyId) /\ Len(policy_ids) \in Nat
      /\ pos - 1 = Len(policy_ids) /\ DOMAIN policy_ids = 1 .. Len(policy_ids)
  BY DEF LoopInvariant, TypeOK, Done
<1>2. CASE policy = NULL
             /\ \A j \in 1 .. pos - 1 : ~Matches(policy_ids, id_to_policy, j)
  <2>1. ~\E i \in DOMAIN policy_ids :
           IsFirstBest(policy_ids, id_to_policy, Len(policy_ids), i)
    BY <1>1, <1>2 DEF IsFirstBest
  <2> QED BY <1>2, <2>1 DEF ActiveId
<1>3. CASE \E i \in 1 .. pos - 1 :
             IsFirstBest(policy_ids, id_to_policy, pos - 1, i) /\ policy = policy_ids[i]
  <2>1. PICK i \in DOMAIN policy_ids :
          /\ IsFirstBest(policy_ids, id_to_policy, Len(policy_ids), i)
          /\ policy = policy_ids[i]
    BY <1>1, <1>3
  <2> DEFINE c == CHOOSE k \in DOMAIN policy_ids :
                    IsFirstBest(policy_ids, id_to_policy, Len(policy_ids), k)
  <2>2. IsFirstBest(policy_ids, id_to_policy, Len(policy_ids), c)
    BY <2>1
  <2>3. c = i
    BY <1>1, <2>1, <2>2, FirstBestUnique
  <2>4. ActiveId(policy_ids, id_to_policy) = policy_ids[c]
    BY <2>1 DEF ActiveId
  <2> QED BY <2>1, <2>3, <2>4
<1> QED BY <1>2, <1>3 DEF LoopInvariant, BestSoFar

(* The loop invariant holds throughout.                                      *)
THEOREM LoopInvariantHolds == Spec => []LoopInvariant
BY LoopInit, LoopStep, PTL DEF Spec

(* After each round the candidate is the first best of the ids read so far.  *)
THEOREM BestSoFarHolds == Spec => []BestSoFar
<1>1. LoopInvariant => BestSoFar
  BY DEF LoopInvariant
<1> QED BY LoopInvariantHolds, <1>1, PTL

(* get_active_policy returns what its comment (policy.c:153-158) promises.   *)
THEOREM ActivePolicyCorrect == Spec => []HighestPriorityWins
BY LoopInvariantHolds, LoopResult, PTL
=============================================================================
