---------------------------- MODULE PoldAndConnman ----------------------------
(* pold and ConnMan together: each serves the other. ConnMan's plugin is an  *)
(* agent of pold, and pold (session.c, connman-manager.c,                    *)
(* connman-notification.c) opens a session with ConnMan for itself, which    *)
(* makes the plugin ask pold for pold's own policy. Both may stop and start  *)
(* again at any time. What pold does for its agents is modelled in Pold; it  *)
(* appears here as far as an agent sees it.                                  *)
EXTENDS SessionPlugin, FiniteSets

CONSTANTS
  MaxStarts,     \* bound: how often the two are started together
  MaxEvents,     \* bound: starts of the two and sessions of an application
  MaxPolicies    \* bound: versions of the policies

ASSUME BoundsAssumption == {MaxStarts, MaxEvents, MaxPolicies} \subseteq Nat \ {0}

(* ConnMan has sessions of finitely many; NULL is no process and no record.  *)
ASSUME OwnersAssumption == IsFiniteSet(App)
ASSUME NullAssumption ==
  LET Policies == [process : Nat, version : Nat, document : Document]
  IN  /\ NULL \notin Nat /\ NULL \notin Policies
      /\ NULL \notin [cbd : BOOLEAN, pending : Nat, config : Policies \cup {NULL}]

VARIABLES
  started,       \* how often each of the two was started
  starting,      \* which of the two wait for GetNameOwner on the other
  session_path,  \* whose session pold believes to have
  create_calls,  \* pold's CreateSession calls under way
  calls,         \* how many pold has made
  agents,        \* the processes of ConnMan registered with pold
  apps,          \* the applications pold watches, each for an agent
  asked,         \* GetPolicyConfig calls pold works on
  policies,      \* the version of the policies
  document       \* what they have for each application

client == <<session_path, create_calls, calls>>
manager == <<agents, apps, asked, policies, document>>
lives == <<pold, connman, started, starting>>
vars == <<lives, plugin, sessions, client, manager, to_connman, to_pold, faults>>

PoldReceives(type) ==
  /\ to_pold # <<>> /\ Head(to_pold).type = type
  /\ to_pold' = Tail(to_pold)

(* What pold sends is lost unless that process of ConnMan still runs.        *)
SendToConnman(process, messages) ==
  to_connman' = IF connman = process THEN to_connman \o messages ELSE to_connman
-----------------------------------------------------------------------------
(* pold as a client of ConnMan. *)

connman_appeared ==
  /\ to_pold # <<>> /\ Head(to_pold).type = "appeared"
  /\ calls' = calls + 1 /\ create_calls' = create_calls \cup {calls'}
  /\ IF connman = 0
     THEN /\ to_pold' = Tail(to_pold) \o <<Message("Session", Self, calls', NULL)>>
          /\ UNCHANGED to_connman
     ELSE /\ to_pold' = Tail(to_pold)
          /\ SendToConnman(connman, <<Message("CreateSession", Self, calls', pold)>>)
  /\ faults' = IF create_calls # {} \/ session_path = connman THEN faults \cup {"twice"} ELSE faults
  /\ UNCHANGED <<lives, plugin, sessions, session_path, manager>>

(* The path is kept until ConnMan is back and has answered.                  *)
connman_disappeared ==
  PoldReceives("disappeared")
  /\ UNCHANGED <<lives, plugin, sessions, client, manager, to_connman, faults>>

create_session_cb ==
  /\ PoldReceives("Session")
  /\ LET m == Head(to_pold)
     IN  IF m.number \in create_calls
         THEN session_path' = m.value /\ create_calls' = create_calls \ {m.number}
         ELSE UNCHANGED <<session_path, create_calls>>
  /\ UNCHANGED <<lives, plugin, sessions, calls, manager, to_connman, faults>>

CreateTimeout ==
  /\ to_pold = <<>>
  /\ \E n \in create_calls : create_calls' = create_calls \ {n}
  /\ session_path' = NULL
  /\ faults' = faults \cup {"timeout"}
  /\ UNCHANGED <<lives, plugin, sessions, calls, manager, to_connman, to_pold>>

KeepsPath ==
  PoldReceives("Release")
  /\ UNCHANGED <<lives, plugin, sessions, client, manager, to_connman, faults>>
release ==
  /\ PoldReceives("Release") /\ session_path' = NULL
  /\ UNCHANGED <<lives, plugin, sessions, create_calls, calls, manager, to_connman, faults>>
-----------------------------------------------------------------------------
(* pold's manager, as an agent sees it. *)

pold_manager_register_agent ==
  /\ PoldReceives("RegisterAgent")
  /\ LET c == Head(to_pold).value
     IN  /\ c \notin agents /\ agents' = agents \cup {c}
         /\ SendToConnman(c, <<Message("Registered", NULL, 0, pold)>>)
  /\ UNCHANGED <<lives, plugin, sessions, client, apps, asked, policies, document, faults>>

Forget(c) == agents' = agents \ {c} /\ apps' = {a \in apps : a[1] # c}

pold_manager_unregister_agent ==
  /\ PoldReceives("UnregisterAgent")
  /\ IF Head(to_pold).value \in agents THEN Forget(Head(to_pold).value)
     ELSE UNCHANGED <<agents, apps>>
  /\ UNCHANGED <<lives, plugin, sessions, client, asked, policies, document, to_connman, faults>>

owner_disconnect ==
  /\ PoldReceives("AgentLeft") /\ Forget(Head(to_pold).value)
  /\ UNCHANGED <<lives, plugin, sessions, client, asked, policies, document, to_connman, faults>>

(* pold asked about itself answers at once, from a policy of its own that    *)
(* never changes; it is as shipped one of which the plugin may refuse the    *)
(* bearers, a plain "*". (Asked for the name of an earlier pold it would     *)
(* answer late, with an error, and just as vainly: that session is over.)    *)
pold_manager_get_policy_config ==
  /\ PoldReceives("GetPolicyConfig")
  /\ LET m == Head(to_pold)
     IN  \/ /\ m.owner = Self
            /\ \E d \in {"valid", "refused"} :
                 SendToConnman(m.value, <<Message("Policy", Self, m.number, PolicyFrom(pold, 0, d))>>)
            /\ UNCHANGED asked
         \/ m.owner \in App /\ asked' = asked \cup {m} /\ UNCHANGED to_connman
  /\ UNCHANGED <<lives, plugin, sessions, client, agents, apps, policies, document, faults>>

(* The end of the chain of callbacks: watch and answer, or an error.         *)
Policy(o, n) == Message("Policy", o, n, PolicyFrom(pold, policies, document[o]))
AnswersUnwatched(m) ==
  /\ asked' = asked \ {m}
  /\ \/ SendToConnman(m.value, <<Policy(m.owner, m.number)>>)
     \/ SendToConnman(m.value, <<NoAnswer(m)>>)
  /\ UNCHANGED <<lives, plugin, sessions, client, agents, apps, policies, document, to_pold, faults>>
user_cb(m) ==
  /\ asked' = asked \ {m}
  /\ \/ /\ apps' = apps \cup {<<m.value, m.owner>>}
        /\ SendToConnman(m.value, <<Policy(m.owner, m.number)>>)
     \/ /\ SendToConnman(m.value, <<NoAnswer(m)>>)
        /\ UNCHANGED apps
  /\ UNCHANGED <<lives, plugin, sessions, client, agents, policies, document, to_pold, faults>>

(* The server has new policies: all agents are told, up to the first that is *)
(* not registered.                                                           *)
Update(o) == Message("Update", o, 0, PolicyFrom(pold, policies', document'[o]))
update_policies_cb ==
  /\ pold # 0 /\ policies < MaxPolicies
  /\ policies' = policies + 1 /\ document' \in [App -> Document]
  /\ LET told == {a \in apps : a[1] \in agents}
     IN  \E S \in IF told = apps THEN {apps} ELSE SUBSET told :
           /\ SendToConnman(connman, SetToSeq({Update(a[2]) : a \in {b \in S : b[1] = connman}}))
           /\ faults' = IF S = apps THEN faults ELSE faults \cup {"orphaned"}
  /\ UNCHANGED <<lives, plugin, sessions, client, agents, apps, asked, to_pold>>
-----------------------------------------------------------------------------
(* The two processes come and go. A service watch asks for the owner and is  *)
(* told of changes, so that it may hear of an appearance twice.              *)
GetNameOwner(p) ==
  /\ p \in starting /\ starting' = starting \ {p}
  /\ to_connman' = IF p = "connman" /\ pold # 0
                   THEN Append(to_connman, Message("appeared", NULL, 0, NULL)) ELSE to_connman
  /\ to_pold' = IF p = "pold" /\ connman # 0
                THEN Append(to_pold, Message("appeared", NULL, 0, NULL)) ELSE to_pold
  /\ UNCHANGED <<pold, connman, started, plugin, sessions, client, manager, faults>>

ToConnman(messages) == to_connman' = IF connman = 0 THEN <<>> ELSE to_connman \o messages

Starts == started.pold + started.connman
MayStart == Starts < MaxStarts /\ \A o \in App : Starts + created[o] < MaxEvents

PoldStarts ==
  /\ pold = 0 /\ MayStart
  /\ pold' = started.pold + 1 /\ started' = [started EXCEPT !.pold = pold']
  /\ starting' = starting \cup {"pold"}
  /\ ToConnman(<<Message("appeared", NULL, 0, NULL)>>)
  /\ UNCHANGED <<connman, plugin, sessions, client, manager, to_pold, faults>>

(* The bus answers the calls that are lost with their receiver.              *)
LostCalls ==
  (IF register_call THEN <<Message("Registered", NULL, 0, NULL)>> ELSE <<>>)
  \o SetToSeq({Message("Policy", o, session_hash[o].pending, NULL) :
                 o \in {x \in Owner : session_hash[x] # NULL /\ session_hash[x].pending # 0}})
PoldStops ==
  /\ pold # 0
  /\ pold' = 0 /\ starting' = starting \ {"pold"} /\ to_pold' = <<>>
  /\ session_path' = NULL /\ create_calls' = {}
  /\ agents' = {} /\ apps' = {} /\ asked' = {}
  /\ ToConnman(<<Message("disappeared", NULL, 0, NULL), Message("OwnerLeft", NULL, 0, NULL)>>
               \o LostCalls)
  /\ UNCHANGED <<connman, started, plugin, sessions, calls, policies, document, faults>>

ConnmanStarts ==
  /\ connman = 0 /\ MayStart
  /\ connman' = started.connman + 1 /\ started' = [started EXCEPT !.connman = connman']
  /\ starting' = starting \cup {"connman"}
  /\ to_pold' = IF pold = 0 THEN <<>> ELSE Append(to_pold, Message("appeared", NULL, 0, NULL))
  /\ UNCHANGED <<pold, plugin, sessions, client, manager, to_connman, faults>>

(* In good order the plugin unregisters first. pold only hears of an agent   *)
(* that leaves while it is registered.                                       *)
ConnmanStops ==
  /\ connman # 0
  /\ connman' = 0 /\ starting' = starting \ {"connman"} /\ to_connman' = <<>>
  /\ PluginReset
  /\ \E last \in {<<>>, agent_unregister} :
       to_pold' = IF pold = 0 THEN <<>>
                  ELSE to_pold \o last \o <<Message("disappeared", NULL, 0, NULL)>>
                       \o (IF connman \in agents THEN <<Message("AgentLeft", NULL, 0, connman)>> ELSE <<>>)
                       \o SetToSeq({Message("Session", Self, n, NULL) : n \in create_calls})
  /\ UNCHANGED <<pold, started, client, manager, faults>>

Init ==
  /\ pold = 0 /\ connman = 0 /\ started = [pold |-> 0, connman |-> 0] /\ starting = {} /\ to_connman = <<>> /\ to_pold = <<>>
  /\ PluginInit
  /\ session_path = NULL /\ create_calls = {} /\ calls = 0
  /\ agents = {} /\ apps = {} /\ asked = {}
  /\ policies = 1 /\ document \in [App -> Document]
  /\ faults = {}

PluginHandles ==
  \/ CreateSession \/ OwnerLeft \/ get_policy_cb
  \/ pold_appeared \/ pold_disappeared \/ agent_register_cb \/ agent_update
PoldHandles ==
  \/ connman_appeared \/ connman_disappeared \/ create_session_cb \/ release
  \/ pold_manager_register_agent \/ pold_manager_unregister_agent \/ owner_disconnect
  \/ pold_manager_get_policy_config
Connman ==
  \/ PluginHandles \/ ReleaseSession \/ RegisterTimeout
  \/ \E o \in Owner : policy_pold_destroy(o) \/ PolicyTimeout(o)

Next ==
  \/ Connman /\ UNCHANGED <<started, starting, client, manager>>
  \/ \E o \in App :
       /\ Starts + created[o] < MaxEvents /\ policy_pold_create(o)
       /\ UNCHANGED <<started, starting, client, manager>>
  \/ PoldHandles \/ CreateTimeout \/ update_policies_cb
  \/ \E m \in asked : user_cb(m)
  \/ \E p \in starting : GetNameOwner(p)
  \/ PoldStarts \/ PoldStops \/ ConnmanStarts \/ ConnmanStops

Spec == Init /\ [][Next]_vars
-----------------------------------------------------------------------------
Both == pold # 0 /\ connman # 0
Pending(o) == session_hash[o] # NULL /\ session_hash[o].pending # 0
Quiet ==
  /\ Both /\ to_connman = <<>> /\ to_pold = <<>> /\ asked = {} /\ starting = {}
  /\ ~register_call /\ \A o \in Owner : ~Pending(o)

(* All variables keep their types, and a session has a policy_config exactly *)
(* while ConnMan knows of it.                                                *)
TypeOK ==
  /\ pold \in 0 .. MaxStarts /\ connman \in 0 .. MaxStarts
  /\ {agent_registered, interface, register_call} \subseteq BOOLEAN
  /\ session \in [Owner -> {"none", "creating", "created"}]
  /\ \A o \in Owner : session_hash[o] = NULL <=> session[o] = "none"
  /\ silent \subseteq App /\ session_path \in 0 .. MaxStarts \cup {NULL}
  /\ agents \subseteq 1 .. MaxStarts /\ apps \subseteq (1 .. MaxStarts) \X App
  /\ policies \in 1 .. MaxPolicies /\ document \in [App -> Document]
  /\ faults \subseteq {"timeout", "unregistered", "abandoned", "orphaned", "twice"}

(* Whatever starts and stops, pold never gets RegisterAgent from an agent it *)
(* has registered: it would dispatch that message for ever (see Pold). If  *)
(* RegisterAgent timed out, hearing twice that pold appeared brings another. *)
NeverRegistersTwice ==
  "unregistered" \notin faults /\ to_pold # <<>> /\ Head(to_pold).type = "RegisterAgent" => Head(to_pold).value \notin agents

(* When all is quiet, the plugin is registered and pold knows it - unless    *)
(* pold left the plugin's registration unanswered, or it timed out.          *)
AgentKnown ==
  Quiet /\ faults \cap {"abandoned", "unregistered"} = {} =>
    agent_registered /\ interface /\ connman \in agents

(* When all is quiet, pold does not believe in a session ConnMan no longer   *)
(* has; and it knows the one it has, unless it was told twice that ConnMan   *)
(* appeared (the second session is refused) or a timer fired.                *)
PathKnown ==
  Quiet /\ create_calls = {} =>
    LET mine == session[Self] = "created" /\ caller.process = pold
    IN  /\ session_path # NULL => session_path = connman /\ mine
        /\ faults \cap {"twice", "timeout"} = {} => (mine => session_path = connman)

(* When all is quiet, every application whose session has a policy from this *)
(* process of pold has the newest one, if that is one the plugin accepts.    *)
(* (A policy from an earlier process is not renewed when pold is back, and a *)
(* refused update leaves the old one or half of it.) pold may give up        *)
(* telling agents at an orphaned app, and cannot tell an agent whose         *)
(* registration timed out.                                                   *)
PoliciesCurrent ==
  Quiet /\ faults \cap {"orphaned", "unregistered"} = {} =>
    \A o \in App :
      session[o] = "created" /\ session_hash[o].config.process = pold /\ document[o] = "valid" =>
        session_hash[o].config = PolicyFrom(pold, policies, "valid")

(* When all is quiet, no session is left waiting, pold's own neither: what   *)
(* was put off until the agent is registered has been asked for since. Only  *)
(* a session whose request got a reply without arguments waits for ever.     *)
NothingWaits ==
  Quiet /\ faults \cap {"abandoned", "unregistered"} = {} =>
    create_calls = {} /\ \A o \in Owner : session[o] = "creating" => o \in silent
=============================================================================
