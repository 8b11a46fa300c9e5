---------------------------- MODULE SessionPlugin ----------------------------
(* ConnMan's session policy plugin (connman/0001-session_policy_pold...): it *)
(* registers with pold as an agent whenever pold appears, and gets a policy  *)
(* for every session ConnMan creates. Messages come in the order the bus     *)
(* sent them; a call to an absent peer is answered with an error by the bus. *)
EXTENDS Naturals, SequencesExt

CONSTANTS
  App,           \* the applications
  Self,          \* pold, which opens a session like an application
  NULL

ASSUME PluginAssumption ==
  Self \notin App /\ NULL \notin App \cup {Self}

VARIABLES
  pold,              \* the number of pold's process, 0 while none runs
  connman,           \* the same for ConnMan
  agent_registered,
  interface,         \* is the agent's interface registered at its path?
  register_call,     \* is RegisterAgent under way?
  session_hash,      \* the policy_config of each session's owner
  session,           \* ConnMan's own record of an owner's session
  created,           \* how many sessions each owner has created
  caller,            \* pold's process and call that its session was created by
  silent,            \* history: whose session waits though its request was answered
  to_connman, to_pold,  \* messages sent and not yet handled
  faults             \* history: what went wrong on the way, see below

plugin == <<agent_registered, interface, register_call>>
sessions == <<session_hash, session, created, caller, silent>>

Owner == App \cup {Self}

(* cbd: the request waits for the agent's registration; pending: the number  *)
(* of the request under way; config: where and when the policy is from.      *)
policy_config(c, p) == [cbd |-> c, pending |-> p, config |-> NULL]

(* What the plugin makes of a policy: it is refused if parse_policy_config   *)
(* fails or no Id is in it, and missing if the message lacks the argument.   *)
Document == {"valid", "refused", "missing"}
PolicyFrom(process, version, d) == [process |-> process, version |-> version, document |-> d]
Missing(policy) == policy # NULL /\ policy.document = "missing"
Accepted(policy) == IF policy # NULL /\ policy.document = "valid" THEN policy ELSE NULL

Message(type, owner, number, value) ==
  [type |-> type, owner |-> owner, number |-> number, value |-> value]
Receive(type) == to_connman # <<>> /\ Head(to_connman).type = type

(* Calls made while the first message is handled; lost ones come back.       *)
NoAnswer(call) ==
  Message(IF call.type = "RegisterAgent" THEN "Registered" ELSE "Policy",
          call.owner, call.number, NULL)
CallPold(rest, calls) ==
  IF pold # 0 THEN to_pold' = to_pold \o calls /\ to_connman' = rest
  ELSE to_connman' = rest \o [i \in DOMAIN calls |-> NoAnswer(calls[i])] /\ UNCHANGED to_pold
ReplyToPold(process, replies) ==
  to_pold' = IF pold = process THEN to_pold \o replies ELSE to_pold

GetPolicyConfig(o) == Message("GetPolicyConfig", o, created'[o], connman)
-----------------------------------------------------------------------------
(* Sessions. *)

Create(o, rest) ==
  /\ session[o] = "none"
  /\ created' = [created EXCEPT ![o] = @ + 1]
  /\ session' = [session EXCEPT ![o] = "creating"]
  /\ session_hash' = [session_hash EXCEPT ![o] =
       policy_config(~agent_registered, IF agent_registered THEN created'[o] ELSE 0)]
  /\ CallPold(rest, IF agent_registered THEN <<GetPolicyConfig(o)>> ELSE <<>>)
  /\ UNCHANGED silent

policy_pold_create(o) ==
  /\ connman # 0 /\ o \in App /\ Create(o, to_connman)
  /\ UNCHANGED <<caller, pold, connman, plugin, faults>>

(* pold's own call; an owner has one session.                                *)
CreateSession ==
  /\ Receive("CreateSession")
  /\ LET m == Head(to_connman)
     IN  \/ Create(Self, Tail(to_connman)) /\ caller' = [process |-> m.value, number |-> m.number]
         \/ /\ session[Self] # "none"
            /\ to_connman' = Tail(to_connman)
            /\ ReplyToPold(m.value, <<Message("Session", Self, m.number, NULL)>>)
            /\ UNCHANGED sessions
  /\ UNCHANGED <<pold, connman, plugin, faults>>

KeepsPolicy(o) ==
  /\ session' = [session EXCEPT ![o] = "none"] /\ silent' = silent \ {o}
  /\ UNCHANGED <<session_hash, created, caller>>

(* cleanup_config cancels a pending call.                                    *)
Destroyed(o) ==
  /\ session' = [session EXCEPT ![o] = "none"]
  /\ session_hash' = [session_hash EXCEPT ![o] = NULL]
  /\ silent' = silent \ {o}
  /\ UNCHANGED <<created, caller>>

policy_pold_destroy(o) ==
  /\ o \in App /\ session[o] # "none" /\ Destroyed(o)
  /\ UNCHANGED <<pold, connman, plugin, to_connman, to_pold, faults>>

OwnerLeft ==
  /\ Receive("OwnerLeft") /\ to_connman' = Tail(to_connman)
  /\ Destroyed(Self)
  /\ UNCHANGED <<pold, connman, plugin, to_pold, faults>>

ReleaseSession ==
  /\ session[Self] = "created" /\ Destroyed(Self)
  /\ ReplyToPold(caller.process, <<Message("Release", Self, 0, NULL)>>)
  /\ UNCHANGED <<pold, connman, plugin, to_connman, faults>>

(* The callback of the creation: ConnMan drops the session on an error, and  *)
(* the caller gets its answer. A session is named by who made it.            *)
Finish(o, config) ==
  /\ IF config = NULL THEN Destroyed(o)
     ELSE /\ session' = [session EXCEPT ![o] = "created"]
          /\ session_hash' = [session_hash EXCEPT ![o] = [policy_config(FALSE, 0) EXCEPT !.config = config]]
          /\ UNCHANGED <<created, caller, silent>>
  /\ IF o = Self
     THEN ReplyToPold(caller.process, <<Message("Session", Self, caller.number,
                                                IF config = NULL THEN NULL ELSE connman)>>)
     ELSE UNCHANGED to_pold

(* Cancelled calls and answers that come too late find no pending call.      *)
Awaited(o, number) == session_hash[o] # NULL /\ session_hash[o].pending = number

(* Of a reply without arguments ConnMan is not told, and it has no timer.    *)
NeverAnswered(o) ==
  /\ session_hash' = [session_hash EXCEPT ![o].pending = 0]
  /\ silent' = silent \cup {o}
  /\ UNCHANGED <<session, created, caller, to_pold>>

get_policy_cb ==
  /\ Receive("Policy") /\ to_connman' = Tail(to_connman)
  /\ LET m == Head(to_connman)
     IN  IF ~Awaited(m.owner, m.number) THEN UNCHANGED <<sessions, to_pold>>
         ELSE IF Missing(m.value) THEN NeverAnswered(m.owner)
         ELSE Finish(m.owner, Accepted(m.value))
  /\ UNCHANGED <<pold, connman, plugin, faults>>

(* A timer fires when nothing is left to dispatch.                           *)
PolicyTimeout(o) ==
  /\ to_connman = <<>>
  /\ session_hash[o] # NULL /\ session_hash[o].pending # 0
  /\ Finish(o, NULL)
  /\ faults' = faults \cup {"timeout"}
  /\ UNCHANGED <<pold, connman, plugin, to_connman>>
-----------------------------------------------------------------------------
(* The agent. *)

RegistersAnyway ==
  /\ Receive("appeared")
  /\ IF agent_registered THEN UNCHANGED plugin /\ CallPold(Tail(to_connman), <<>>)
     ELSE /\ interface' = TRUE /\ register_call' = TRUE
          /\ CallPold(Tail(to_connman), <<Message("RegisterAgent", NULL, 0, connman)>>)
          /\ UNCHANGED agent_registered
  /\ UNCHANGED <<pold, connman, sessions, faults>>

pold_appeared ==
  /\ Receive("appeared")
  /\ IF agent_registered \/ interface
     THEN UNCHANGED plugin /\ CallPold(Tail(to_connman), <<>>)
     ELSE /\ interface' = TRUE /\ register_call' = TRUE
          /\ CallPold(Tail(to_connman), <<Message("RegisterAgent", NULL, 0, connman)>>)
          /\ UNCHANGED agent_registered
  /\ UNCHANGED <<pold, connman, sessions, faults>>

StaysRegistered ==
  /\ Receive("disappeared") /\ to_connman' = Tail(to_connman)
  /\ register_call' = FALSE
  /\ UNCHANGED <<interface, agent_registered, pold, connman, sessions, to_pold, faults>>

(* The interface stays if the registration was not answered yet, and keeps   *)
(* pold_appeared from registering ever again.                                *)
pold_disappeared ==
  /\ Receive("disappeared") /\ to_connman' = Tail(to_connman)
  /\ interface' = (interface /\ ~agent_registered)
  /\ agent_registered' = FALSE /\ register_call' = FALSE
  /\ faults' = IF interface' THEN faults \cup {"abandoned"} ELSE faults
  /\ UNCHANGED <<pold, connman, sessions, to_pold>>

Refused ==
  /\ interface' = FALSE /\ register_call' = FALSE
  /\ UNCHANGED <<agent_registered, sessions>>

ForgetsWaiting ==
  /\ Receive("Registered") /\ CallPold(Tail(to_connman), <<>>)
  /\ IF ~register_call THEN UNCHANGED <<plugin, sessions>>
     ELSE IF Head(to_connman).value = NULL THEN Refused
     ELSE agent_registered' = TRUE /\ register_call' = FALSE /\ UNCHANGED <<interface, sessions>>
  /\ UNCHANGED <<pold, connman, faults>>

(* Registered at last: the policies that wait are asked for.                 *)
agent_register_cb ==
  /\ Receive("Registered")
  /\ IF ~register_call
     THEN UNCHANGED <<plugin, sessions>> /\ CallPold(Tail(to_connman), <<>>)
     ELSE IF Head(to_connman).value = NULL
     THEN Refused /\ CallPold(Tail(to_connman), <<>>)
     ELSE LET waiting == {o \in Owner : session_hash[o] # NULL /\ session_hash[o].cbd}
          IN  /\ agent_registered' = TRUE /\ register_call' = FALSE
              /\ session_hash' = [o \in Owner |->
                   IF o \in waiting THEN policy_config(FALSE, created[o]) ELSE session_hash[o]]
              /\ UNCHANGED <<interface, session, created, caller, silent>>
              /\ CallPold(Tail(to_connman), SetToSeq({GetPolicyConfig(o) : o \in waiting}))
  /\ UNCHANGED <<pold, connman, faults>>

RegisterTimeout ==
  /\ to_connman = <<>> /\ register_call /\ Refused
  /\ faults' = faults \cup {"unregistered"}
  /\ UNCHANGED <<pold, connman, to_connman, to_pold>>

(* What an update leaves of a policy: of one that is refused, nothing if its *)
(* Id is bad, no bearers if they are, and all if it only lacks the Id.       *)
Updated(old, new) ==
  CASE new.document = "valid" -> {new}
    [] new.document = "missing" -> {old}
    [] new.document = "refused" ->
         {old, new} \cup (IF old = NULL THEN {} ELSE {[old EXCEPT !.document = "refused"]})

(* Without the interface, the call fails.                                    *)
agent_update ==
  /\ Receive("Update") /\ to_connman' = Tail(to_connman)
  /\ LET m == Head(to_connman)
     IN  IF interface /\ session_hash[m.owner] # NULL
         THEN \E config \in Updated(session_hash[m.owner].config, m.value) :
                session_hash' = [session_hash EXCEPT ![m.owner].config = config]
         ELSE UNCHANGED session_hash
  /\ UNCHANGED <<pold, connman, plugin, session, created, caller, silent, to_pold, faults>>

(* What session_policy_pold_exit sends when ConnMan stops in good order.     *)
agent_unregister ==
  IF agent_registered THEN <<Message("UnregisterAgent", NULL, 0, connman)>> ELSE <<>>

PluginInit ==
  /\ agent_registered = FALSE /\ interface = FALSE /\ register_call = FALSE
  /\ session_hash = [o \in Owner |-> NULL] /\ session = [o \in Owner |-> "none"]
  /\ created = [o \in Owner |-> 0] /\ caller = [process |-> 0, number |-> 0] /\ silent = {}
PluginReset ==
  /\ agent_registered' = FALSE /\ interface' = FALSE /\ register_call' = FALSE
  /\ session_hash' = [o \in Owner |-> NULL] /\ session' = [o \in Owner |-> "none"]
  /\ created' = [o \in Owner |-> 0] /\ caller' = [process |-> 0, number |-> 0] /\ silent' = {}
=============================================================================
