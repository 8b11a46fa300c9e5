------------------------------ MODULE DbusJson ------------------------------
(* The conversion of a JSON document to the arguments of a D-Bus message     *)
(* (src/dbus-json.c), and how the session plugin reads the list of bearers   *)
(* out of one. A JSON value is a record of its type and its value; a D-Bus   *)
(* value one of its signature and its value, as libdbus would be given them. *)
EXTENDS Integers, SequencesExt

CONSTANTS
  IntBits,   \* the bits of an int
  Aborted,   \* the result of a failed assertion
  Nothing    \* no argument at all

ASSUME WidthAssumption == IntBits \in Nat \ {0}

Basic == {"null", "true", "false", "integer", "real", "string"}

Wrapped(n) == ((n + 2^(IntBits - 1)) % 2^IntBits) - 2^(IntBits - 1)

ComparesEnds(array) ==
  IF Len(array) > 1 /\ array[1].type = array[Len(array)].type THEN array[1].type ELSE "mixed"

(* One value has nothing to be compared with, and keeps type = -1.           *)
get_array_type(array) ==
  IF Len(array) > 1 /\ \A i \in 2 .. Len(array) : array[i].type = array[i - 1].type
  THEN array[1].type ELSE "mixed"

BasicSignature(v) ==
  CASE v.type \in {"true", "false"} -> "b" [] v.type = "integer" -> "i"
    [] v.type = "real" -> "d" [] v.type = "string" -> "s"

(* A null, or an array of nulls, fails the assertion.                        *)
json_array_to_dbus_type_signature(array) ==
  LET type == get_array_type(array)
  IN  CASE type = "null" -> Aborted
        [] type \in Basic \ {"null"} -> <<"a", BasicSignature(array[1])>>
        [] OTHER -> <<"a", "v">>

json_value_to_dbus_type_signature(v) ==
  CASE v.type = "null" -> Aborted
    [] v.type \in Basic \ {"null"} -> <<BasicSignature(v)>>
    [] v.type = "array" -> json_array_to_dbus_type_signature(v.value)
    [] v.type = "object" -> <<"a", "{sv}">>

Dbus(signature, value) == [signature |-> signature, value |-> value]
Variant(v) == Dbus(<<"v">>, v)

RECURSIVE append_json_value(_)

(* Entries go into variants of their own if the array has no inner type.     *)
append_array(v) ==
  LET signature == json_array_to_dbus_type_signature(v.value)
      entries == [i \in DOMAIN v.value |-> append_json_value(v.value[i])]
  IN  IF signature = Aborted \/ \E i \in DOMAIN entries : entries[i] = Aborted THEN Aborted
      ELSE IF signature = <<"a", "v">>
      THEN Dbus(signature, [i \in DOMAIN entries |-> Variant(entries[i])])
      ELSE Dbus(signature, entries)

append_object(v) ==
  LET entries == [key \in DOMAIN v.value |-> append_json_value(v.value[key])]
  IN  IF \E key \in DOMAIN entries : entries[key] = Aborted THEN Aborted
      ELSE Dbus(<<"a", "{sv}">>, [key \in DOMAIN entries |-> Variant(entries[key])])

append_json_value(v) ==
  CASE v.type = "null" -> Aborted
    [] v.type = "integer" -> Dbus(<<"i">>, Wrapped(v.value))
    [] v.type \in Basic \ {"null", "integer"} -> Dbus(<<BasicSignature(v)>>, v.value)
    [] v.type = "array" -> append_array(v)
    [] v.type = "object" -> append_object(v)

(* jansson loads an array or an object.                                      *)
pold_dbus_json_append_string(document) ==
  IF document.type \notin {"array", "object"} THEN Nothing ELSE append_json_value(document)
-----------------------------------------------------------------------------
(* The agent's side: parse_bearers takes strings only.                       *)
Einval == <<"EINVAL">>
parse_bearers(v) ==
  IF \E i \in DOMAIN v.value : v.value[i].signature # <<"s">> THEN Einval
  ELSE [i \in DOMAIN v.value |-> v.value[i].value]
-----------------------------------------------------------------------------
(* What the message should say, stated over documents and messages alone.    *)

RECURSIVE HasNull(_), FitsInt(_), Says(_, _), WellFormed(_)

Children(v) ==
  IF v.type \in {"array", "object"} THEN {v.value[i] : i \in DOMAIN v.value} ELSE {}
HasNull(v) == v.type = "null" \/ \E c \in Children(v) : HasNull(c)
FitsInt(v) ==
  /\ v.type = "integer" => v.value \in -(2^(IntBits - 1)) .. 2^(IntBits - 1) - 1
  /\ \A c \in Children(v) : FitsInt(c)

(* libdbus takes into an array only what has its inner signature.            *)
WellFormed(m) ==
  CASE m.signature[1] = "v" -> WellFormed(m.value)
    [] m.signature[1] = "a" ->
         \A i \in DOMAIN m.value :
           /\ WellFormed(m.value[i])
           /\ m.value[i].signature = IF m.signature[2] = "{sv}" THEN <<"v">> ELSE Tail(m.signature)
    [] OTHER -> TRUE

(* The message reads as the document, variants looked through.               *)
Says(m, v) ==
  CASE m.signature = <<"v">> -> Says(m.value, v)
    [] v.type = "array" ->
         /\ m.signature[1] = "a" /\ m.signature # <<"a", "{sv}">>
         /\ Len(m.value) = Len(v.value) /\ \A i \in DOMAIN v.value : Says(m.value[i], v.value[i])
    [] v.type = "object" ->
         /\ m.signature = <<"a", "{sv}">> /\ DOMAIN m.value = DOMAIN v.value
         /\ \A key \in DOMAIN v.value : Says(m.value[key], v.value[key])
    [] OTHER -> m = Dbus(<<BasicSignature(v)>>, v.value)
=============================================================================
