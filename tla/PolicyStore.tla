----------------------------- MODULE PolicyStore -----------------------------
(* The policies of src/policy.c in three places: on the server, in the files *)
(* of the policy directory, and in the table in memory. An update deletes    *)
(* the files, writes the new ones and loads them, one file operation after   *)
(* another; the process may die, and an operation may fail, between any two. *)
EXTENDS PolicyFiles

CONSTANTS
  Answer,      \* Answer[v]: what the server answers once at version v
  Newest,      \* the server's last version
  MaxFiles,    \* as many files as the longest answer needs
  MaxFaults    \* bound: crashes, failed requests and failed file operations

Version == 1 .. Newest

ASSUME StoreAssumption ==
  /\ Newest \in Nat \ {0} /\ MaxFiles \in Nat /\ MaxFaults \in Nat
  /\ Answer \in [Version -> Response] /\ Accepted(Answer[1])
  /\ \A v \in Version : Answer[v] \notin {NULL, NotArray} => Len(Answer[v]) <= MaxFiles
  /\ NULL \notin File \cup {NotObject}

VARIABLES
  server,     \* the version the server answers with
  answers,    \* versions whose answers are on their way to pold
  disk,       \* the files 0.policy, 1.policy, ... of the policy directory
  fresh,      \* its modification time is at most POLICY_TIMEOUT_IN_SECONDS old
  memory,     \* id_to_policy
  phase,      \* "idle", "deleting", "saving" or "loading"
  target,     \* the version being installed, or the last one
  counter,    \* how many of its policies have been saved
  process,    \* "up", "down", or "refused": it gave up at start
  faults

vars == <<server, answers, disk, fresh, memory, phase, target, counter, process, faults>>
update == <<phase, target, counter>>

Slot == 1 .. MaxFiles      \* file n-1 of the directory
Files == {disk[n] : n \in Slot} \ {NULL}
NoPolicies == [id \in PolicyId |-> NULL]
Elements(v) == {Answer[v][n] : n \in DOMAIN Answer[v]}
IsArray(v) == Answer[v] \notin {NULL, NotArray}

(* pold starts with the first version installed.                             *)
Init ==
  /\ server = 1 /\ target = 1 /\ answers = {}
  /\ disk = [n \in Slot |-> IF n \in DOMAIN Answer[1] THEN Answer[1][n] ELSE NULL]
  /\ memory \in TablesOf(Elements(1))
  /\ fresh = FALSE
  /\ phase = "idle" /\ counter = 0
  /\ process = "up" /\ faults = 0
-----------------------------------------------------------------------------
Idle == process = "up" /\ phase = "idle"

Publish ==
  /\ server < Newest
  /\ server' = server + 1
  /\ UNCHANGED <<answers, disk, fresh, memory, update, process, faults>>

Age ==
  /\ fresh /\ fresh' = FALSE
  /\ UNCHANGED <<server, answers, disk, memory, update, process, faults>>

(* A GetPolicyConfig call fetches policies when need_http_policy_update says *)
(* so; SIGUSR2 always does.                                                  *)
AsksWhenFresh ==
  /\ Idle /\ fresh
  /\ answers' = answers \cup {server}
  /\ UNCHANGED <<server, disk, fresh, memory, update, process, faults>>
pold_manager_get_policy_config ==
  /\ Idle /\ ~fresh
  /\ answers' = answers \cup {server}
  /\ UNCHANGED <<server, disk, fresh, memory, update, process, faults>>

signal_update ==
  /\ Idle
  /\ answers' = answers \cup {server}
  /\ UNCHANGED <<server, disk, fresh, memory, update, process, faults>>

(* update_policies_cb is called with an answer. Without one (an error status *)
(* or no body) it gives up at once.                                          *)
update_policies_cb(v) ==
  /\ Idle /\ v \in answers
  /\ answers' = answers \ {v}
  /\ IF Answer[v] = NULL
     THEN UNCHANGED update
     ELSE phase' = "deleting" /\ target' = v /\ counter' = 0
  /\ UNCHANGED <<server, disk, fresh, memory, process, faults>>

HttpError(v) ==
  /\ Idle /\ v \in answers /\ faults < MaxFaults
  /\ answers' = answers \ {v}
  /\ faults' = faults + 1
  /\ UNCHANGED <<server, disk, fresh, memory, update, process>>

(* delete_all_policies unlinks the files in the order the directory lists.   *)
delete_policy(n) ==
  /\ process = "up" /\ phase = "deleting" /\ disk[n] # NULL
  /\ disk' = [disk EXCEPT ![n] = NULL]
  /\ fresh' = TRUE
  /\ UNCHANGED <<server, answers, memory, update, process, faults>>

(* All deleted: only now is the text parsed, and refused if it is no array.  *)
KeepsOldFiles ==
  /\ process = "up" /\ phase = "deleting"
  /\ phase' = IF IsArray(target) THEN "saving" ELSE "idle"
  /\ UNCHANGED <<server, answers, disk, fresh, memory, target, counter, process, faults>>
deleted ==
  /\ process = "up" /\ phase = "deleting" /\ Files = {}
  /\ phase' = IF IsArray(target) THEN "saving" ELSE "idle"
  /\ UNCHANGED <<server, answers, disk, fresh, memory, target, counter, process, faults>>

(* One round of save_policies: the next element is written, or ends the loop *)
(* with an error when it is not an object.                                   *)
save_policy ==
  /\ process = "up" /\ phase = "saving" /\ counter < Len(Answer[target])
  /\ IF Answer[target][counter + 1] = NotObject
     THEN phase' = "idle" /\ UNCHANGED <<disk, fresh, counter>>
     ELSE /\ disk' = [disk EXCEPT ![counter + 1] = Answer[target][counter + 1]]
          /\ fresh' = TRUE
          /\ counter' = counter + 1
          /\ UNCHANGED phase
  /\ UNCHANGED <<server, answers, memory, target, process, faults>>

SavedTooFew ==
  /\ process = "up" /\ phase = "saving" /\ counter + 1 >= Len(Answer[target])
  /\ phase' = "loading"
  /\ UNCHANGED <<server, answers, disk, fresh, memory, target, counter, process, faults>>
saved ==
  /\ process = "up" /\ phase = "saving" /\ counter = Len(Answer[target])
  /\ phase' = "loading"
  /\ UNCHANGED <<server, answers, disk, fresh, memory, target, counter, process, faults>>

FileError ==
  /\ process = "up" /\ phase \in {"deleting", "saving"} /\ faults < MaxFaults
  /\ phase' = "idle"
  /\ faults' = faults + 1
  /\ UNCHANGED <<server, answers, disk, fresh, memory, target, counter, process>>

(* load_policies: memory takes what is on disk; a bad file ends it early.    *)
loaded ==
  /\ process = "up" /\ phase = "loading"
  /\ \E outcome \in load_policies(Files) : memory' = outcome.table
  /\ phase' = "idle"
  /\ UNCHANGED <<server, answers, disk, fresh, target, counter, process, faults>>

FreesTable ==
  /\ process = "up" /\ faults < MaxFaults
  /\ process' = "down"
  /\ faults' = faults + 1
  /\ answers' = {} /\ memory' = NULL /\ phase' = "idle"
  /\ UNCHANGED <<server, disk, fresh, target, counter>>
Crash ==
  /\ process = "up" /\ faults < MaxFaults
  /\ process' = "down"
  /\ faults' = faults + 1
  /\ answers' = {} /\ memory' = NoPolicies /\ phase' = "idle"
  /\ UNCHANGED <<server, disk, fresh, target, counter>>

(* pold_policy_init: the daemon exits when the directory cannot be loaded.   *)
pold_policy_init ==
  /\ process = "down"
  /\ \E outcome \in load_policies(Files) :
       IF outcome.error
       THEN process' = "refused" /\ UNCHANGED memory
       ELSE process' = "up" /\ memory' = outcome.table
  /\ UNCHANGED <<server, answers, disk, fresh, update, faults>>

Update ==
  \/ \E v \in Version : update_policies_cb(v) 
  \/ \E n \in Slot : delete_policy(n)
  \/ deleted \/ save_policy \/ saved \/ loaded

Fault == \/ \E v \in Version : HttpError(v)
         \/ FileError \/ Crash

Next ==
  \/ Publish \/ Age
  \/ pold_manager_get_policy_config \/ signal_update
  \/ Update \/ Fault \/ pold_policy_init

Spec == Init /\ [][Next]_vars

(* Time passes, agents go on asking, an update once begun runs to its end,   *)
(* and the init system starts the daemon again.                              *)
FairSpec ==
  /\ Spec
  /\ WF_vars(Age) /\ WF_vars(pold_manager_get_policy_config)
  /\ WF_vars(Update) /\ WF_vars(pold_policy_init)
-----------------------------------------------------------------------------
TypeOK ==
  /\ server \in Version /\ target \in Version
  /\ answers \in SUBSET Version
  /\ disk \in [Slot -> File \cup {NULL}]
  /\ fresh \in BOOLEAN
  /\ memory \in Table
  /\ phase \in {"idle", "deleting", "saving", "loading"}
  /\ counter \in 0 .. MaxFiles
  /\ process \in {"up", "down", "refused"}
  /\ faults \in 0 .. MaxFaults

(* Wherever an update stops - a crash, a failed operation, an answer refused *)
(* halfway - neither the directory nor the table ever mixes the policies of  *)
(* two versions: every old file is gone before the first new one is written. *)
OneVersion ==
  /\ \E v \in Version : IsArray(v) /\ Files \subseteq Elements(v)
  /\ \E v \in Version : IsArray(v) /\
       \A id \in PolicyId : memory[id] = NULL \/
         [id |-> id, json |-> memory[id]] \in Elements(v)

(* Policies are loaded only from a directory that holds the whole answer.    *)
LoadsWholeAnswer == phase = "loading" => Files = Elements(target)

(* However updates and processes failed before, and although a failed update *)
(* makes the directory look fresh: when the server stays at its newest       *)
(* version, the policies in memory come to be that version, for good - unless*)
(* the daemon refuses to start on a directory it was left with.              *)
Converges ==
  <>(server = Newest) /\ [](process # "refused")
    => <>[](memory \in TablesOf(Elements(Newest)))
=============================================================================
