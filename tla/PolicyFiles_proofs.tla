------------------------- MODULE PolicyFiles_proofs -------------------------
(* Facts about the policies: what selecting, reading and saving them can     *)
(* result in. Pold and PolicyStore both rest on them.                        *)
EXTENDS PolicyFiles, SequenceTheorems, TLAPS

(* The active policy's document is one of the table or the default one.      *)
LEMMA ActiveType ==
  ASSUME NEW ids \in Seq(PolicyId), NEW table \in Table,
         NEW default \in Json \cup {NULL}
  PROVE  get_active_policy(ids, table, default) \in Json \cup {NULL}
<1>1. ActiveId(ids, table) \in PolicyId \cup {NULL}
  <2> DEFINE P(i) == IsFirstBest(ids, table, Len(ids), i)
  <2>1. CASE \E i \in DOMAIN ids : P(i)
    <3>1. (CHOOSE i \in DOMAIN ids : P(i)) \in DOMAIN ids
      BY <2>1
    <3>2. ids[CHOOSE i \in DOMAIN ids : P(i)] \in PolicyId
      BY <3>1
    <3>3. ActiveId(ids, table) = ids[CHOOSE i \in DOMAIN ids : P(i)]
      BY <2>1 DEF ActiveId
    <3> QED BY <3>2, <3>3
  <2>2. CASE ~\E i \in DOMAIN ids : P(i)
    BY <2>2 DEF ActiveId
  <2> QED BY <2>1, <2>2
<1> QED BY <1>1 DEF get_active_policy, Table

(* Reading files only produces tables of policies.                           *)
LEMMA TablesOfType == \A S \in SUBSET File : TablesOf(S) \subseteq Table
<1> SUFFICES ASSUME NEW S \in SUBSET File PROVE TablesOf(S) \subseteq Table
  OBVIOUS
<1>1. {file.json : file \in S} \subseteq Json
  BY DEF File
<1> QED BY <1>1 DEF TablesOf, Table

(* What load_policies leaves in the table is a table.                        *)
LEMMA LoadType ==
  ASSUME NEW S \in SUBSET File, NEW outcome \in load_policies(S)
  PROVE  outcome.table \in Table
<1> DEFINE good == {file \in S : load_policy(file)}
<1>1. CASE good = S
  BY <1>1, TablesOfType DEF load_policies
<1>2. CASE good # S
  <2>1. outcome.table \in UNION {TablesOf(R) : R \in SUBSET good}
    BY <1>2 DEF load_policies
  <2> QED BY <2>1, TablesOfType
<1> QED BY <1>1, <1>2

(* Whatever the server answers, a table is left in memory.                   *)
LEMMA OutcomeType ==
  ASSUME NEW table \in Table, NEW response \in Response,
         NEW outcome \in update_outcomes(table, response)
  PROVE  outcome.table \in Table
<1>1. CASE outcome \in [error : {TRUE}, table : {table}]
  BY <1>1
<1>2. CASE Accepted(response) /\ outcome \in load_policies(Saved(response))
  <2>1. response \in Seq(File \cup {NotObject})
    BY <1>2 DEF Response, Accepted
  <2>2. Saved(response) \subseteq File
    BY <1>2, <2>1 DEF Saved, Accepted
  <2> QED BY <1>2, <2>2, LoadType
<1> QED BY <1>1, <1>2 DEF update_outcomes

(* Every policy that a load leaves in the table comes from one of the files. *)
LEMMA LoadFromFiles ==
  ASSUME NEW S \in SUBSET File, NEW outcome \in load_policies(S), NEW id \in PolicyId,
         outcome.table[id] # NULL
  PROVE  [id |-> id, json |-> outcome.table[id]] \in S
<1>1. PICK R \in SUBSET S : outcome.table \in TablesOf(R)
  BY DEF load_policies
<1>2. PICK file \in R : file.id = id /\ file.json = outcome.table[id]
  BY <1>1 DEF TablesOf
<1>3. file = [id |-> id, json |-> outcome.table[id]]
  BY <1>2 DEF File
<1> QED BY <1>2, <1>3
=============================================================================
