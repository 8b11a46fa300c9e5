--------------------------- MODULE PolicyMessage ---------------------------
(* What an agent is sent: the active policy's document, converted into the   *)
(* arguments of a message (pold_policy_append_to_message of src/policy.c).   *)
EXTENDS ActivePolicy, DbusJson

VARIABLES
  document,   \* the json of the policy in force
  message     \* the arguments of the message, NULL before they are appended

allVars == <<vars, document, message>>

Select == Round /\ UNCHANGED <<document, message>>

pold_policy_append_to_message ==
  /\ Done /\ message = NULL
  /\ message' = pold_dbus_json_append_string(document)
  /\ UNCHANGED <<vars, document>>

MessageNext == Select \/ pold_policy_append_to_message

(* The list of bearers in a document, if it is one of strings. One bearer    *)
(* alone is put into a variant, which the agent refuses.                     *)
HasBearers ==
  /\ document.type = "object" /\ "AllowedBearers" \in DOMAIN document.value
  /\ document.value["AllowedBearers"].type = "array"
  /\ \A b \in ToSet(document.value["AllowedBearers"].value) : b.type = "string"
Bearers == document.value["AllowedBearers"].value

(* A document arrives as it is: the arrays of the message hold what their    *)
(* signature says, it reads as the document if its integers fit an int, and  *)
(* the agent gets the same bearers if there are none or several. The program *)
(* is aborted by a null and by nothing else.                                 *)
DocumentArrives ==
  message # NULL /\ document.type \in {"array", "object"} =>
    /\ message = Aborted <=> HasNull(document)
    /\ message # Aborted =>
         /\ WellFormed(message)
         /\ FitsInt(document) => Says(message, document)
         /\ HasBearers /\ Len(Bearers) # 1 =>
              parse_bearers(message.value["AllowedBearers"].value)
                = [i \in DOMAIN Bearers |-> Bearers[i].value]
=============================================================================
