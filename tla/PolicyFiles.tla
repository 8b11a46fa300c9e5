----------------------------- MODULE PolicyFiles -----------------------------
(* The policy documents of src/policy.c on their way from the server to the  *)
(* policy directory and from there into the table id_to_policy.              *)
EXTENDS PolicyMatch

CONSTANTS
  NoId,       \* the "Id" of an object that has none, or one that is no string
  NotObject,  \* an element of the server's array that is not a JSON object
  NotArray    \* a response that is not a JSON array

ASSUME FilesAssumption ==
  /\ NoId \notin PolicyId
  /\ NotObject \notin [id : PolicyId \cup {NoId}, json : Json]
  /\ NULL # NotArray

(* What one file of the policy directory holds.                              *)
File == [id : PolicyId \cup {NoId}, json : Json]

(* What the server may answer: no body or a status other than 200 (NULL),    *)
(* text that is not an array, or an array.                                   *)
Response == Seq(File \cup {NotObject}) \cup {NULL, NotArray}

(* load_policy succeeds on an object whose "Id" is a string.                 *)
load_policy(file) == file.id # NoId

(* The tables that reading the good files S can leave: of several files with *)
(* the same Id the one that g_dir_read_name returns last wins, and that      *)
(* order is not defined.                                                     *)
TablesOf(S) ==
  {table \in [PolicyId -> {file.json : file \in S} \cup {NULL}] :
     \A id \in PolicyId :
       LET named == {file \in S : file.id = id}
       IN  IF named = {} THEN table[id] = NULL
                         ELSE table[id] \in {file.json : file \in named}}

(* load_policies on a directory with the files S: the table is emptied and   *)
(* refilled; the first bad file ends the loop with an error and leaves the   *)
(* table with whatever was read before it.                                   *)
load_policies(S) ==
  LET good == {file \in S : load_policy(file)}
  IN  IF good = S
      THEN [error : {FALSE}, table : TablesOf(S)]
      ELSE [error : {TRUE}, table : UNION {TablesOf(R) : R \in SUBSET good}]

(* The elements save_policies writes before it fails or ends.                *)
Saved(response) ==
  {response[i] : i \in {n \in DOMAIN response :
                          \A m \in 1 .. n : response[m] # NotObject}}

(* save_policies accepts an array of objects and nothing else.               *)
Accepted(response) ==
  /\ response \notin {NULL, NotArray}
  /\ \A i \in DOMAIN response : response[i] # NotObject

(* update_policies_cb up to its last "goto out": delete, save, load. An I/O  *)
(* failure of the first two, or a response they reject, leaves the table in  *)
(* memory alone.                                                             *)
update_outcomes(table, response) ==
  [error : {TRUE}, table : {table}] \cup
  (IF Accepted(response) THEN load_policies(Saved(response)) ELSE {})
=============================================================================
