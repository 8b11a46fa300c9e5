------------------------- MODULE PolicyStore_proofs -------------------------
(* The directory and the table never mix two versions of the policies, for   *)
(* any answers of the server and any number of crashes and failures.         *)
EXTENDS PolicyStore, PolicyFiles_proofs

(* How far an update has got with the answer of its version.                 *)
Saving ==
  /\ phase = "deleting" => counter = 0
  /\ phase \in {"saving", "loading"} =>
       /\ IsArray(target) /\ counter \in 0 .. Len(Answer[target])
       /\ phase = "loading" => counter = Len(Answer[target])
       /\ \A n \in Slot : disk[n] = IF n <= counter THEN Answer[target][n] ELSE NULL

(* A process that is not up has no update under way.                         *)
Stopped == process # "up" => phase = "idle"

StoreInvariant == TypeOK /\ Saving /\ Stopped /\ OneVersion
-----------------------------------------------------------------------------
(* An array of the server is a sequence that the directory has room for.     *)
LEMMA Arrays ==
  ASSUME NEW v \in Version, IsArray(v)
  PROVE  Answer[v] \in Seq(File \cup {NotObject}) /\ Len(Answer[v]) <= MaxFiles
<1>1. Answer[v] \in Response
  BY StoreAssumption
<1> QED BY <1>1, StoreAssumption DEF IsArray, Response

(* What is loaded from files of one version is of that version.              *)
LEMMA LoadsOneVersion ==
  ASSUME TypeOK, \E v \in Version : IsArray(v) /\ Files \subseteq Elements(v),
         NEW outcome \in load_policies(Files)
  PROVE  /\ outcome.table \in Table
         /\ \E v \in Version : IsArray(v) /\
              \A id \in PolicyId : outcome.table[id] = NULL \/
                [id |-> id, json |-> outcome.table[id]] \in Elements(v)
<1>1. Files \subseteq File
  BY DEF Files, TypeOK
<1>2. outcome.table \in Table
  BY <1>1, LoadType
<1>3. PICK v \in Version : IsArray(v) /\ Files \subseteq Elements(v)
  OBVIOUS
<1>4. \A id \in PolicyId : outcome.table[id] = NULL \/
        [id |-> id, json |-> outcome.table[id]] \in Elements(v)
  BY <1>1, <1>3, LoadFromFiles
<1> QED BY <1>2, <1>3, <1>4

(* While files are saved, the directory holds elements of one answer.        *)
LEMMA SavedAreElements ==
  ASSUME TypeOK, Saving, phase \in {"saving", "loading"}
  PROVE  /\ Files \subseteq Elements(target)
         /\ phase = "loading" => Files = Elements(target)
<1>1. /\ target \in Version /\ IsArray(target)
      /\ Answer[target] \in Seq(File \cup {NotObject}) /\ Len(Answer[target]) <= MaxFiles
  BY Arrays DEF Saving, TypeOK
<1>2. counter \in 0 .. Len(Answer[target])
      /\ \A n \in Slot : disk[n] = IF n <= counter THEN Answer[target][n] ELSE NULL
  BY DEF Saving
<1>3. \A n \in Slot : disk[n] # NULL => n \in DOMAIN Answer[target] /\ disk[n] = Answer[target][n]
  BY <1>1, <1>2 DEF Slot
<1>4. ASSUME phase = "loading" PROVE Elements(target) \subseteq Files
  <2>1. \A n \in DOMAIN Answer[target] : n \in Slot /\ disk[n] = Answer[target][n]
    BY <1>1, <1>2, <1>4, StoreAssumption DEF Slot, Saving
  <2>2. \A n \in Slot : disk[n] \in File \cup {NULL}
    BY DEF TypeOK
  <2>3. \A n \in DOMAIN Answer[target] : Answer[target][n] # NULL
    BY <1>1, StoreAssumption
  <2> QED BY <2>1, <2>3 DEF Elements, Files
<1> QED BY <1>3, <1>4 DEF Elements, Files
-----------------------------------------------------------------------------
LEMMA InitStore == Init => StoreInvariant
<1> SUFFICES ASSUME Init PROVE StoreInvariant
  OBVIOUS
<1>1. 1 \in Version /\ IsArray(1) /\ Answer[1] \in Seq(File) /\ Len(Answer[1]) <= MaxFiles
  <2>1. 1 \in Version /\ IsArray(1)
    BY StoreAssumption DEF Version, IsArray, Accepted
  <2>2. Answer[1] \in Seq(File \cup {NotObject}) /\ Len(Answer[1]) <= MaxFiles
    BY <2>1, Arrays
  <2>3. \A n \in DOMAIN Answer[1] : Answer[1][n] \in File
    BY <2>2, StoreAssumption DEF Accepted
  <2> QED BY <2>1, <2>2, <2>3
<1>2. Elements(1) \subseteq File
  BY <1>1 DEF Elements
<1>3. memory \in Table
  BY <1>2, TablesOfType DEF Init
<1>4. disk \in [Slot -> File \cup {NULL}] /\ Files \subseteq Elements(1)
  <2>1. disk = [n \in Slot |-> IF n \in DOMAIN Answer[1] THEN Answer[1][n] ELSE NULL]
    BY DEF Init
  <2>2. \A n \in DOMAIN Answer[1] : Answer[1][n] \in File
    BY <1>1
  <2>3. \A n \in Slot : disk[n] # NULL => n \in DOMAIN Answer[1] /\ disk[n] = Answer[1][n]
    BY <2>1
  <2>4. disk \in [Slot -> File \cup {NULL}]
    BY <2>1, <2>2
  <2> QED BY <2>3, <2>4 DEF Files, Elements
<1>5. \A id \in PolicyId : memory[id] = NULL \/ [id |-> id, json |-> memory[id]] \in Elements(1)
  <2> SUFFICES ASSUME NEW id \in PolicyId, memory[id] # NULL
               PROVE  [id |-> id, json |-> memory[id]] \in Elements(1)
    OBVIOUS
  <2> DEFINE named == {file \in Elements(1) : file.id = id}
  <2>1. memory \in TablesOf(Elements(1))
    BY DEF Init
  <2>2. IF named = {} THEN memory[id] = NULL ELSE memory[id] \in {file.json : file \in named}
    BY <2>1 DEF TablesOf
  <2>3. PICK file \in named : file.json = memory[id]
    BY <2>2
  <2> QED BY <1>2, <2>3 DEF File
<1>6. TypeOK
  <2>1. /\ server = 1 /\ target = 1 /\ answers = {} /\ fresh = FALSE /\ phase = "idle"
        /\ counter = 0 /\ process = "up" /\ faults = 0
    BY DEF Init
  <2>2. 0 \in 0 .. MaxFiles /\ 0 \in 0 .. MaxFaults
    BY StoreAssumption
  <2> QED BY <1>1, <1>3, <1>4, <2>1, <2>2 DEF TypeOK
<1>7. OneVersion
  BY <1>1, <1>4, <1>5 DEF OneVersion
<1> QED BY <1>6, <1>7 DEF Init, StoreInvariant, Saving, Stopped
-----------------------------------------------------------------------------
(* The two halves of OneVersion. *)
DiskOfOne == \E v \in Version : IsArray(v) /\ Files \subseteq Elements(v)
MemoryOfOne ==
  \E v \in Version : IsArray(v) /\
    \A id \in PolicyId : memory[id] = NULL \/ [id |-> id, json |-> memory[id]] \in Elements(v)

LEMMA OneVersionHalves == OneVersion <=> DiskOfOne /\ MemoryOfOne
BY DEF OneVersion, DiskOfOne, MemoryOfOne

(* A step that leaves the files and the table alone.                         *)
LEMMA LeavesData ==
  ASSUME StoreInvariant, TypeOK', Saving', Stopped', UNCHANGED <<disk, memory>>
  PROVE  StoreInvariant'
<1>1. DiskOfOne' /\ MemoryOfOne'
  BY OneVersionHalves DEF StoreInvariant, DiskOfOne, MemoryOfOne, Files
<1>2. OneVersion'
  BY <1>1 DEF OneVersion, DiskOfOne, MemoryOfOne
<1> QED BY <1>2 DEF StoreInvariant

LEMMA ServerSteps ==
  ASSUME StoreInvariant,
         \/ Publish \/ Age \/ pold_manager_get_policy_config \/ signal_update
         \/ \E v \in Version : update_policies_cb(v) \/ HttpError(v)
         \/ FileError
  PROVE  StoreInvariant'
<1>1. UNCHANGED <<disk, memory, process>>
  BY DEF Publish, Age, pold_manager_get_policy_config, signal_update, update_policies_cb,
         HttpError, FileError
<1>2. TypeOK'
  <2> USE DEF StoreInvariant, TypeOK, update
  <2>1. CASE Publish
    BY <2>1, StoreAssumption DEF Publish, Version
  <2>2. CASE Age \/ pold_manager_get_policy_config \/ signal_update
    BY <2>2 DEF Age, pold_manager_get_policy_config, signal_update
  <2>3. CASE \E v \in Version : update_policies_cb(v)
    BY <2>3, StoreAssumption DEF update_policies_cb
  <2>4. CASE FileError \/ \E v \in Version : HttpError(v)
    BY <2>4, StoreAssumption DEF FileError, HttpError
  <2> QED BY <2>1, <2>2, <2>3, <2>4
<1>3. \/ phase' = "idle" \/ (phase' = "deleting" /\ counter' = 0)
      \/ UNCHANGED <<phase, target, counter>>
  BY DEF Publish, Age, pold_manager_get_policy_config, signal_update, update_policies_cb,
         HttpError, FileError, update
<1>4. Saving'
  BY <1>1, <1>3 DEF StoreInvariant, Saving
<1>5. process = "up" \/ UNCHANGED phase
  BY DEF Publish, Age, Idle, pold_manager_get_policy_config, signal_update, update_policies_cb,
         HttpError, FileError, update
<1>6. Stopped'
  BY <1>1, <1>5 DEF StoreInvariant, Stopped
<1> QED BY <1>1, <1>2, <1>4, <1>6, LeavesData

LEMMA Deleting ==
  ASSUME StoreInvariant, deleted \/ \E n \in Slot : delete_policy(n)
  PROVE  StoreInvariant'
<1>1. CASE deleted
  <2>1. Files = {} /\ UNCHANGED <<disk, memory, process, target, counter>> /\ process = "up"
        /\ phase = "deleting" /\ phase' = IF IsArray(target) THEN "saving" ELSE "idle"
    BY <1>1 DEF deleted
  <2>2. TypeOK' /\ Stopped'
    BY <1>1 DEF StoreInvariant, TypeOK, Stopped, deleted
  <2>3. \A n \in Slot : disk[n] = NULL
    BY <2>1 DEF Files
  <2>4. IsArray(target) => Len(Answer[target]) \in Nat
    BY Arrays DEF StoreInvariant, TypeOK
  <2>5. Saving'
    BY <2>1, <2>3, <2>4 DEF StoreInvariant, Saving, Slot, IsArray
  <2> QED BY <2>1, <2>2, <2>5, LeavesData
<1>2. CASE \E n \in Slot : delete_policy(n)
  <2>1. PICK n \in Slot : delete_policy(n)
    BY <1>2
  <2>2. /\ disk' = [disk EXCEPT ![n] = NULL] /\ UNCHANGED <<memory, phase>> /\ phase = "deleting"
    BY <2>1 DEF delete_policy, update
  <2>3. TypeOK'
    BY <2>1 DEF StoreInvariant, TypeOK, delete_policy, update
  <2>4. Files' \subseteq Files
    BY <2>2 DEF Files, StoreInvariant, TypeOK
  <2>5. OneVersion'
    BY <2>2, <2>4 DEF StoreInvariant, OneVersion
  <2>6. Saving' /\ Stopped'
    BY <2>1, <2>2 DEF StoreInvariant, Saving, Stopped, delete_policy, update
  <2> QED BY <2>3, <2>5, <2>6 DEF StoreInvariant
<1> QED BY <1>1, <1>2

LEMMA SavingStep ==
  ASSUME StoreInvariant, save_policy \/ saved
  PROVE  StoreInvariant'
<1>1. /\ target \in Version /\ IsArray(target) /\ counter \in 0 .. Len(Answer[target])
      /\ Answer[target] \in Seq(File \cup {NotObject}) /\ Len(Answer[target]) <= MaxFiles
      /\ target' = target /\ process' = process /\ process = "up" /\ memory' = memory
  BY Arrays DEF StoreInvariant, Saving, TypeOK, save_policy, saved
<1>2. CASE saved
  <2>1. UNCHANGED <<disk, counter>> /\ phase = "saving" /\ phase' = "loading"
        /\ counter = Len(Answer[target])
    BY <1>2 DEF saved
  <2>2. TypeOK'
    BY <1>2 DEF StoreInvariant, TypeOK, saved
  <2>3. Saving' /\ Stopped'
    BY <1>1, <2>1 DEF StoreInvariant, Saving, Stopped, IsArray
  <2> QED BY <1>1, <2>1, <2>2, <2>3, LeavesData
<1>3. CASE save_policy /\ Answer[target][counter + 1] = NotObject
  <2>1. UNCHANGED <<disk, counter>> /\ phase' = "idle"
    BY <1>3 DEF save_policy
  <2>2. TypeOK'
    BY <1>3 DEF StoreInvariant, TypeOK, save_policy
  <2> QED BY <1>1, <2>1, <2>2, LeavesData DEF Saving, Stopped
<1>4. CASE save_policy /\ Answer[target][counter + 1] # NotObject
  <2>1. /\ phase = "saving" /\ phase' = phase /\ counter < Len(Answer[target])
        /\ counter' = counter + 1 /\ fresh' = TRUE
        /\ disk' = [disk EXCEPT ![counter + 1] = Answer[target][counter + 1]]
        /\ UNCHANGED <<server, answers, faults>>
    BY <1>4 DEF save_policy
  <2>2. counter + 1 \in Slot /\ Answer[target][counter + 1] \in File
        /\ counter' \in 0 .. MaxFiles /\ counter' \in 0 .. Len(Answer[target])
    BY <1>1, <1>4, <2>1, StoreAssumption DEF Slot
  <2>3. TypeOK'
    BY <1>1, <2>1, <2>2 DEF StoreInvariant, TypeOK
  <2>4. \A n \in Slot : disk'[n] = IF n <= counter' THEN Answer[target][n] ELSE NULL
    BY <1>1, <2>1, <2>2 DEF StoreInvariant, Saving, TypeOK, Slot
  <2>5. Saving' /\ Stopped'
    BY <1>1, <2>1, <2>2, <2>4 DEF StoreInvariant, Saving, Stopped, IsArray
  <2>6. DiskOfOne' /\ MemoryOfOne'
    <3>1. Files' \subseteq Elements(target')
      <4>1. Files \subseteq Elements(target)
        BY <2>1, SavedAreElements DEF StoreInvariant
      <4>2. Files' \subseteq Files \cup {Answer[target][counter + 1]}
        BY <2>1, <2>2 DEF Files, StoreInvariant, TypeOK
      <4>3. Answer[target][counter + 1] \in Elements(target) /\ Elements(target') = Elements(target)
        BY <1>1, <2>1 DEF Elements
      <4> QED BY <4>1, <4>2, <4>3
    <3>2. MemoryOfOne'
      BY <1>1, OneVersionHalves DEF StoreInvariant, MemoryOfOne
    <3> QED BY <1>1, <3>1, <3>2 DEF DiskOfOne, IsArray
  <2>7. OneVersion'
    BY <2>6 DEF OneVersion, DiskOfOne, MemoryOfOne
  <2> QED BY <2>3, <2>5, <2>7 DEF StoreInvariant
<1> QED BY <1>2, <1>3, <1>4

LEMMA Loading ==
  ASSUME StoreInvariant, loaded \/ pold_policy_init \/ Crash
  PROVE  StoreInvariant'
<1>1. /\ UNCHANGED disk /\ phase' = "idle"
      /\ UNCHANGED <<server, fresh, target, counter>>
      /\ answers' \in {answers, {}} /\ faults' \in 0 .. MaxFaults
      /\ process' \in {"up", "down", "refused"}
  BY StoreAssumption DEF StoreInvariant, Stopped, TypeOK, loaded, pold_policy_init, Crash, update
<1>2. \/ memory' = memory
      \/ memory' = NoPolicies
      \/ \E outcome \in load_policies(Files) : memory' = outcome.table
  BY DEF loaded, pold_policy_init, Crash
<1>3. DiskOfOne /\ MemoryOfOne
  BY OneVersionHalves DEF StoreInvariant
<1>4. memory' \in Table /\ MemoryOfOne'
  <2>1. CASE memory' = memory
    BY <1>3, <2>1 DEF StoreInvariant, TypeOK, MemoryOfOne
  <2>2. CASE memory' = NoPolicies
    BY <1>3, <2>2 DEF NoPolicies, Table, MemoryOfOne
  <2>3. CASE \E outcome \in load_policies(Files) : memory' = outcome.table
    BY <1>3, <2>3, LoadsOneVersion DEF StoreInvariant, DiskOfOne, MemoryOfOne
  <2> QED BY <1>2, <2>1, <2>2, <2>3
<1>5. TypeOK'
  BY <1>1, <1>4 DEF StoreInvariant, TypeOK
<1>6. OneVersion'
  BY <1>1, <1>3, <1>4 DEF OneVersion, DiskOfOne, MemoryOfOne, Files
<1> QED BY <1>1, <1>5, <1>6 DEF StoreInvariant, Saving, Stopped
-----------------------------------------------------------------------------
LEMMA StoreHolds == Spec => []StoreInvariant
<1>1. StoreInvariant /\ [Next]_vars => StoreInvariant'
  <2> SUFFICES ASSUME StoreInvariant, [Next]_vars PROVE StoreInvariant'
    OBVIOUS
  <2>1. CASE \/ Publish \/ Age \/ pold_manager_get_policy_config \/ signal_update
             \/ \E v \in Version : update_policies_cb(v) \/ HttpError(v)
             \/ FileError
    BY <2>1, ServerSteps
  <2>2. CASE deleted \/ \E n \in Slot : delete_policy(n)
    BY <2>2, Deleting
  <2>3. CASE save_policy \/ saved
    BY <2>3, SavingStep
  <2>4. CASE loaded \/ pold_policy_init \/ Crash
    BY <2>4, Loading
  <2>5. CASE UNCHANGED vars
    <3>1. TypeOK' /\ Saving' /\ Stopped' /\ UNCHANGED <<disk, memory>>
      BY <2>5 DEF vars, update, StoreInvariant, TypeOK, Saving, Stopped
    <3> QED BY <3>1, LeavesData
  <2> QED BY <2>1, <2>2, <2>3, <2>4, <2>5 DEF Next, Update, Fault
<1> QED BY InitStore, <1>1, PTL DEF Spec

(* All variables keep their types.                                           *)
THEOREM StoreTypes == Spec => []TypeOK
<1>1. StoreInvariant => TypeOK
  BY DEF StoreInvariant
<1> QED BY <1>1, StoreHolds, PTL

(* Neither the directory nor the table ever mixes the policies of two        *)
(* versions, wherever an update or the process was stopped.                  *)
THEOREM NeverMixed == Spec => []OneVersion
<1>1. StoreInvariant => OneVersion
  BY DEF StoreInvariant
<1> QED BY <1>1, StoreHolds, PTL

(* Policies are loaded only from the whole of an answer.                     *)
THEOREM WholeAnswerLoaded == Spec => []LoadsWholeAnswer
<1>1. StoreInvariant => LoadsWholeAnswer
  BY SavedAreElements DEF StoreInvariant, LoadsWholeAnswer
<1> QED BY <1>1, StoreHolds, PTL
=============================================================================
