-------------------------------- MODULE Pold --------------------------------
(* The policy daemon at run time: the registry of watched applications       *)
(* (src/policy.c), the agents and the GetPolicyConfig callback chain         *)
(* (src/pold-manager.c, src/fdo-dbus.c), policy updates (src/policy.c,       *)
(* src/http-client.c), together with the bus, the agents and the             *)
(* applications around it. pold is one main loop: each of its actions is the *)
(* whole dispatch of one message or of one HTTP completion.                  *)
EXTENDS PolicyFiles, FiniteSets

CONSTANTS
  Agent, App,        \* unique bus names of agents and of applications
  pold_unique_bus,   \* pold's own bus name; an agent may name it as the app
  Path,              \* object paths agents register
  Request,           \* GetPolicyConfig calls that may be in flight at once
  SelinuxId,         \* "selinux:..." of an application, NULL if it has none
  UserId, GroupId,   \* "user:..." and "group:..." of an application
  ValidId,           \* the ids the regular expression valid_policy_ids accepts
  DefaultId,         \* "Id" of the default policy; NoId stands for ""
  DefaultJson,       \* its document
  InitialFiles,      \* the policy directory when pold starts
  Responses,         \* what the policy server may answer
  Text,              \* what a char * may read as: agent names and others
  Prefixed,          \* Prefixed[t]: the agents whose app ids start with t
  SenderRead,        \* what owner_disconnect may read through its user_data
  FreedAppRead,      \* what stop_watching_app may do with a freed app
  Untold,            \* an agent was told nothing about an application
  MaxInbox,          \* bound: clients call while pold's queue is shorter
  MaxWatches,        \* bound: registrations of one agent
  MaxSignals         \* bound: updates by SIGUSR2 under way at once

ASSUME NamesAssumption ==
  /\ Agent \cap App = {}
  /\ NULL \notin Path
  /\ Agent \subseteq Text
  /\ Prefixed \in [Text -> SUBSET Agent]
  /\ SenderRead \in [Agent -> (SUBSET Text) \ {{}}]
ASSUME IdsAssumption ==
  /\ SelinuxId \in [App -> PolicyId \cup {NULL}]
  /\ UserId \in [App -> PolicyId]
  /\ GroupId \in [App -> PolicyId]
  /\ ValidId \subseteq PolicyId
  /\ DefaultId \in PolicyId \cup {NoId}
  /\ DefaultJson \in Json
  /\ Untold \notin Json \cup {NULL}
ASSUME ServerAssumption ==
  /\ Responses \subseteq Response
  /\ InitialFiles \subseteq {file \in File : load_policy(file)}
ASSUME FreedAssumption == FreedAppRead \subseteq {"nothing", "reused", "crash"}
ASSUME BoundsAssumption ==
  MaxInbox \in Nat /\ MaxWatches \in Nat /\ MaxSignals \in Nat

VARIABLES
  object_paths,    \* path each registered agent is notified on
  agent_watches,   \* how many owner_disconnect watches each agent's name has
  app_id_to_app,   \* the watched applications, per agent
  id_to_apps,      \* the applications listed under each policy id
  id_to_policy,    \* the table of loaded policies
  default_policy,  \* the shared default policy
  stale,           \* freed apps whose disconnect watch still points at them
  reused,          \* <<s, k>>: app k may lie where the freed app s did
  request,         \* the config_data of each call in flight, with its stage
  updating,        \* how many updates triggered by SIGUSR2 are under way
  inbox,           \* messages the bus has delivered and pold not dispatched
  bus,             \* names connected to the bus; a unique name never returns
  told,            \* history: the policy each agent last got for each app
  status           \* "running", "spinning" or "crashed"

registry == <<app_id_to_app, id_to_apps, stale, reused, told>>
policies == <<id_to_policy, default_policy>>
agents   == <<object_paths, agent_watches>>
vars == <<agents, registry, policies, request, updating, inbox, bus, status>>

Key == Agent \X App     \* app->id, "agent_owner/app_owner"
Name == Agent \cup App

AppRecord == [policy_ids : Seq(PolicyId), agent_policy_json : Json \cup {NULL}]

(* How far a call has come: "queued", "selinux_replied" and "user_replied"   *)
(* wait in the inbox, "http" for the policy server, the others for the bus.  *)
Stage == {"queued", "http", "selinux", "selinux_replied", "user", "user_replied"}
ConfigData == [agent : Agent, app : App, stage : Stage,
               selinux : PolicyId \cup {NULL}]

ASSUME RecordsAssumption == NULL \notin AppRecord /\ NULL \notin ConfigData

AgentCall  == [type : {"RegisterAgent", "UnregisterAgent"},
               sender : Agent, path : Path]
ConfigCall == [type : {"GetPolicyConfig"}, request : Request]
SelinuxReply == [type : {"SelinuxReply"}, request : Request,
                 context : PolicyId \cup {NULL}]
UserReply  == [type : {"UserReply"}, request : Request, known : BOOLEAN]
Departure  == [type : {"NameOwnerChanged"}, name : Name]
Message == AgentCall \cup ConfigCall \cup SelinuxReply \cup UserReply \cup Departure

Init ==
  /\ object_paths = [a \in Agent |-> NULL]
  /\ agent_watches = [a \in Agent |-> 0]
  /\ app_id_to_app = [k \in Key |-> NULL]
  /\ id_to_apps = [id \in PolicyId |-> {}]
  /\ id_to_policy \in TablesOf(InitialFiles)
  /\ default_policy = [id |-> DefaultId, json |-> DefaultJson]
  /\ stale = {} /\ reused = {}
  /\ request = [r \in Request |-> NULL]
  /\ updating = 0
  /\ inbox = <<>>
  /\ bus = Name
  /\ told = [k \in Key |-> Untold]
  /\ status = "running"
-----------------------------------------------------------------------------
(* Reading the registry. *)

Watched == {k \in Key : app_id_to_app[k] # NULL}

(* The ids an application is listed under.                                   *)
Ids(k) == IF app_id_to_app[k] = NULL THEN {}
          ELSE {app_id_to_app[k].policy_ids[i] :
                  i \in DOMAIN app_id_to_app[k].policy_ids}

(* The document of the policy in force for a watched app.                    *)
Active(k, table, default) ==
  get_active_policy(app_id_to_app[k].policy_ids, table, default)

(* fill_apps_to_remove: it walks the lists of id_to_apps, so an app without  *)
(* a valid id is not found, and it compares a prefix of the app's id.        *)
OnlyWithPolicy(names) ==
  {k \in UNION {id_to_apps[id] : id \in {i \in PolicyId : id_to_policy[i] # NULL}} :
     \E n \in names : k[1] \in Prefixed[n]}
EveryListed(names) == UNION {id_to_apps[id] : id \in PolicyId}
fill_apps_to_remove(names) ==
  {k \in UNION {id_to_apps[id] : id \in PolicyId} :
     \E n \in names : k[1] \in Prefixed[n]}

(* The apps that mark_update_apps marks, given a freshly loaded table.       *)
mark_update_apps(table) ==
  {k \in Watched : app_id_to_app[k].agent_policy_json
                     # Active(k, table, default_policy.json)}

(* Whether the app's agent can be told: without an object path no message    *)
(* can be created.                                                           *)
pold_manager_update_agent(k) == object_paths[k[1]] # NULL

(* The sets of apps update_agent_policies may have served when it returns.   *)
(* It walks the marked apps in hash order and gives up at the first one      *)
(* whose agent cannot be told.                                               *)
FirstMarkedOnly(table) ==
  LET sendable == {k \in mark_update_apps(table) : pold_manager_update_agent(k)}
  IN  {S \in SUBSET sendable : Cardinality(S) <= 1}
update_agent_policies(table) ==
  LET marked == mark_update_apps(table)
      sendable == {k \in marked : pold_manager_update_agent(k)}
  IN  IF sendable = marked THEN {marked} ELSE SUBSET sendable
-----------------------------------------------------------------------------
(* Changing the registry. *)

(* What stop_watching_app does to the two tables, for the apps K.            *)
UnlistFirstId(K) ==
  /\ app_id_to_app' = [k \in Key |-> IF k \in K THEN NULL ELSE app_id_to_app[k]]
  /\ id_to_apps' = [id \in PolicyId |->
       {k \in id_to_apps[id] :
          ~(k \in K /\ app_id_to_app[k] # NULL
              /\ id = app_id_to_app[k].policy_ids[1])}]
stop_watching(K) ==
  /\ app_id_to_app' = [k \in Key |-> IF k \in K THEN NULL ELSE app_id_to_app[k]]
  /\ id_to_apps' = [id \in PolicyId |->
       {k \in id_to_apps[id] : ~(k \in K /\ id \in Ids(k))}]

(* Nobody but an agent present remembers what it was told.                   *)
Forget(keys) == told' = [k \in Key |-> IF k \in keys THEN Untold ELSE told[k]]

(* pold_remove_agent_apps for each of the texts read as the owner's name;    *)
(* the disconnect watches of the apps are left behind.                       *)
pold_remove_agent_apps(names) ==
  LET K == fill_apps_to_remove(names)
  IN  /\ stop_watching(K)
      /\ stale' = stale \cup K
      /\ reused' = {p \in reused : p[2] \notin K}

(* A new record may be given the memory of any app freed before it (only     *)
(* recorded where a freed app may read as another).                          *)
Occupy(k) == reused' = reused \cup
  {<<s, k>> : s \in IF "reused" \in FreedAppRead THEN stale ELSE {}}

(* The end of update_policies_cb: on success the apps are marked and their   *)
(* agents told; on failure the table stays as it was left.                   *)
TellsOldPolicy(outcome) ==
  /\ id_to_policy' = outcome.table
  /\ \E S \in IF outcome.error THEN {{}} ELSE update_agent_policies(outcome.table) :
       /\ app_id_to_app' =
            [k \in Key |->
               IF k \in S
               THEN [app_id_to_app[k] EXCEPT !.agent_policy_json =
                       Active(k, outcome.table, default_policy.json)]
               ELSE app_id_to_app[k]]
       /\ told' = [k \in Key |->
                     IF k \in S
                     THEN Active(k, id_to_policy, default_policy.json)
                     ELSE told[k]]
  /\ UNCHANGED <<id_to_apps, stale, reused, default_policy>>
apply_update(outcome) ==
  /\ id_to_policy' = outcome.table
  /\ \E S \in IF outcome.error THEN {{}} ELSE update_agent_policies(outcome.table) :
       /\ app_id_to_app' =
            [k \in Key |->
               IF k \in S
               THEN [app_id_to_app[k] EXCEPT !.agent_policy_json =
                       Active(k, outcome.table, default_policy.json)]
               ELSE app_id_to_app[k]]
       /\ told' = [k \in Key |->
                     IF k \in S
                     THEN Active(k, outcome.table, default_policy.json)
                     ELSE told[k]]
  /\ UNCHANGED <<id_to_apps, stale, reused, default_policy>>
-----------------------------------------------------------------------------
(* The clients and the bus. Once pold has stopped, what they do no longer    *)
(* matters.                                                                  *)

Up == status = "running"

Send(m) == inbox' = Append(inbox, m)

CallAgentMethod(a, method, p) ==
  /\ Up /\ a \in bus /\ Len(inbox) < MaxInbox
  /\ method = "RegisterAgent" =>
       agent_watches[a] + Cardinality({i \in DOMAIN inbox :
           inbox[i] = [type |-> method, sender |-> a, path |-> p]}) < MaxWatches
  /\ Send([type |-> method, sender |-> a, path |-> p])
  /\ UNCHANGED <<agents, registry, policies, request, updating, bus, status>>

CallGetPolicyConfig(r, a, app) ==
  /\ Up /\ a \in bus /\ Len(inbox) < MaxInbox
  /\ request[r] = NULL
  /\ request' = [request EXCEPT ![r] =
       [agent |-> a, app |-> app, stage |-> "queued", selinux |-> NULL]]
  /\ Send([type |-> "GetPolicyConfig", request |-> r])
  /\ UNCHANGED <<agents, registry, policies, updating, bus, status>>

(* pold has a match rule for the name's NameOwnerChanged signal.             *)
Matched(n) ==
  \/ n \in Agent /\ agent_watches[n] > 0
  \/ \E k \in Watched \cup stale : k[2] = n

(* A client leaves the bus. Without a match rule pold never learns of it.    *)
Disconnect(n) ==
  /\ Up /\ n \in bus /\ n # pold_unique_bus
  /\ bus' = bus \ {n}
  /\ IF Matched(n) THEN Send([type |-> "NameOwnerChanged", name |-> n])
                   ELSE UNCHANGED inbox
  /\ UNCHANGED <<agents, registry, policies, request, updating, status>>

(* GetConnectionSELinuxSecurityContext; an error is a NULL context.          *)
BusSelinuxReply(r) ==
  /\ Up /\ request[r] # NULL /\ request[r].stage = "selinux"
  /\ request' = [request EXCEPT ![r].stage = "selinux_replied"]
  /\ Send([type |-> "SelinuxReply", request |-> r,
           context |-> IF request[r].app \in bus
                       THEN SelinuxId[request[r].app] ELSE NULL])
  /\ UNCHANGED <<agents, registry, policies, updating, bus, status>>

(* GetConnectionUnixUser; an error unless the name is still connected.       *)
BusUserReply(r) ==
  /\ Up /\ request[r] # NULL /\ request[r].stage = "user"
  /\ request' = [request EXCEPT ![r].stage = "user_replied"]
  /\ Send([type |-> "UserReply", request |-> r,
           known |-> request[r].app \in bus])
  /\ UNCHANGED <<agents, registry, policies, updating, bus, status>>
-----------------------------------------------------------------------------
(* pold dispatches the oldest message. *)

Receive(type) ==
  /\ Up /\ inbox # <<>>
  /\ Head(inbox).type = type
  /\ inbox' = Tail(inbox)

Answer(r) == request' = [request EXCEPT ![r] = NULL]

(* Already registered: the handler returns NULL for a method that must be    *)
(* answered, the message goes back to the queue's head, and message_dispatch *)
(* handles it again, for ever.                                               *)
RegisterTwice ==
  LET a == Head(inbox).sender
  IN  /\ Up /\ inbox # <<>> /\ Head(inbox).type = "RegisterAgent"
      /\ object_paths[a] # NULL
      /\ status' = "spinning"
      /\ UNCHANGED <<agents, registry, policies, request, updating, inbox, bus>>

pold_manager_register_agent ==
  LET m == Head(inbox)
  IN  /\ Receive("RegisterAgent")
      /\ object_paths[m.sender] = NULL
      /\ object_paths' = [object_paths EXCEPT ![m.sender] = m.path]
      /\ agent_watches' = [agent_watches EXCEPT ![m.sender] = @ + 1]
      /\ UNCHANGED <<registry, policies, request, updating, bus, status>>

(* The agent and its apps are removed if it names the path it registered;    *)
(* otherwise it gets an error. Its disconnect watch stays.                   *)
pold_manager_unregister_agent ==
  LET m == Head(inbox)
  IN  /\ Receive("UnregisterAgent")
      /\ IF object_paths[m.sender] = m.path
         THEN /\ object_paths' = [object_paths EXCEPT ![m.sender] = NULL]
              /\ pold_remove_agent_apps({m.sender})
              /\ Forget({m.sender} \X App)
         ELSE UNCHANGED <<object_paths, registry>>
      /\ UNCHANGED <<agent_watches, policies, request, updating, bus, status>>

(* An agent's name left the bus: each of its watches runs owner_disconnect   *)
(* with whatever the memory of the freed registration message now reads.     *)
KeepsObjectPath ==
  LET a == Head(inbox).name
  IN  /\ Receive("NameOwnerChanged") /\ a \in Agent
      /\ pold_remove_agent_apps({a})
      /\ Forget({a} \X App)
      /\ agent_watches' = [agent_watches EXCEPT ![a] = 0]
      /\ UNCHANGED <<object_paths, policies, request, updating, bus, status>>
owner_disconnect ==
  LET a == Head(inbox).name
  IN  /\ Receive("NameOwnerChanged") /\ a \in Agent
      /\ \E names \in SUBSET SenderRead[a] :
           /\ names # {} /\ Cardinality(names) <= agent_watches[a]
           /\ object_paths' = [b \in Agent |->
                IF b \in names THEN NULL ELSE object_paths[b]]
           /\ pold_remove_agent_apps(names)
      /\ Forget({a} \X App)
      /\ agent_watches' = [agent_watches EXCEPT ![a] = 0]
      /\ UNCHANGED <<policies, request, updating, bus, status>>

(* An application's name left the bus. Its records are dropped; a watch of a *)
(* freed record may find nothing, drop the record that took its place, or    *)
(* bring the process down.                                                   *)
stop_watching_app ==
  LET app == Head(inbox).name
      own == {k \in Watched : k[2] = app}
      dangling == {k \in stale : k[2] = app}
      exposed == IF "reused" \in FreedAppRead
                 THEN {p[2] : p \in {q \in reused : q[1] \in dangling}} ELSE {}
  IN  /\ Receive("NameOwnerChanged") /\ app \in App
      /\ \E hit \in SUBSET exposed :
           /\ Cardinality(hit) <= Cardinality(dangling)
           /\ stop_watching(own \cup hit)
           /\ stale' = (stale \ dangling) \cup {k \in hit : k[2] # app}
           /\ reused' = {p \in reused : p[1] \notin dangling
                                          /\ p[2] \notin own \cup hit}
      /\ Forget({k \in Key : k[2] = app})
      /\ UNCHANGED <<agents, policies, request, updating, bus, status>>

CrashOnFreedApp ==
  /\ Receive("NameOwnerChanged")
  /\ \E k \in stale : k[2] = Head(inbox).name
  /\ "crash" \in FreedAppRead
  /\ status' = "crashed"
  /\ UNCHANGED <<agents, registry, policies, request, updating, bus>>

(* A question about pold itself is answered at once. Otherwise policies      *)
(* older than POLICY_TIMEOUT_IN_SECONDS are first fetched again.             *)
NotAsync ==
  LET r == Head(inbox).request
  IN  /\ Up /\ inbox # <<>> /\ Head(inbox).type = "GetPolicyConfig"
      /\ IF request[r].app = pold_unique_bus
         THEN Answer(r)
         ELSE \E next \in {"http", "selinux"} :
                request' = [request EXCEPT ![r].stage = next]
      /\ UNCHANGED <<agents, registry, policies, updating, inbox, bus, status>>
pold_manager_get_policy_config ==
  LET r == Head(inbox).request
  IN  /\ Receive("GetPolicyConfig")
      /\ IF request[r].app = pold_unique_bus
         THEN Answer(r)
         ELSE \E next \in {"http", "selinux"} :
                request' = [request EXCEPT ![r].stage = next]
      /\ UNCHANGED <<agents, registry, policies, updating, bus, status>>

(* With or without a context, the user is asked for next.                    *)
GiveUpWithoutContext ==
  LET m == Head(inbox)
  IN  /\ Receive("SelinuxReply")
      /\ request' = IF m.context = NULL THEN request
                    ELSE [request EXCEPT ![m.request].stage = "user",
                                         ![m.request].selinux = m.context]
      /\ UNCHANGED <<agents, registry, policies, updating, bus, status>>
selinux_cb ==
  LET m == Head(inbox)
  IN  /\ Receive("SelinuxReply")
      /\ request' = [request EXCEPT ![m.request].stage = "user",
                                    ![m.request].selinux = m.context]
      /\ UNCHANGED <<agents, registry, policies, updating, bus, status>>

UserFailed ==
  /\ Receive("UserReply") /\ ~Head(inbox).known
  /\ Answer(Head(inbox).request)
  /\ UNCHANGED <<agents, registry, policies, updating, bus, status>>

ValidOnly(id) == IF id \in ValidId THEN <<id>> ELSE <<>>

(* replace_id_if_empty: only the default policy can have an empty id. The    *)
(* document cannot be rewritten the way the code tries to and becomes NULL.  *)
ForgetsId(id, is_default) ==
  IF is_default /\ default_policy.id = NoId
  THEN [id |-> NULL, json |-> default_policy.json]
  ELSE default_policy
replace_id_if_empty(id, is_default) ==
  IF is_default /\ default_policy.id = NoId
  THEN [id |-> id, json |-> NULL]
  ELSE default_policy

(* The app is watched under its valid ids, unless it already is: then       *)
(* nothing about it changes, the policy remembered for its agent included.   *)
pold_policy_watch_app(k, ids) ==
  IF app_id_to_app[k] # NULL
  THEN UNCHANGED <<app_id_to_app, id_to_apps, reused>>
  ELSE /\ app_id_to_app' = [app_id_to_app EXCEPT ![k] =
             [policy_ids |-> ids, agent_policy_json |->
                get_active_policy(ids, id_to_policy, default_policy.json)]]
       /\ id_to_apps' = [id \in PolicyId |->
             IF \E i \in DOMAIN ids : ids[i] = id
             THEN id_to_apps[id] \cup {k} ELSE id_to_apps[id]]
       /\ Occupy(k)

(* The user is known: the app is watched unless it already is, and the agent *)
(* gets the active policy.                                                   *)
user_cb ==
  LET r == Head(inbox).request
      data == request[r]
      k == <<data.agent, data.app>>
      ids == IF app_id_to_app[k] # NULL THEN app_id_to_app[k].policy_ids
             ELSE ValidOnly(data.selinux) \o ValidOnly(UserId[data.app])
                    \o ValidOnly(GroupId[data.app])
      default == replace_id_if_empty(UserId[data.app],
                                     ActiveId(ids, id_to_policy) = NULL)
  IN  /\ Receive("UserReply") /\ Head(inbox).known
      /\ pold_policy_watch_app(k, ids)
      /\ default_policy' = default
      /\ told' = [told EXCEPT ![k] =
                    get_active_policy(ids, id_to_policy, default.json)]
      /\ Answer(r)
      /\ UNCHANGED <<agents, id_to_policy, stale, updating, bus, status>>
-----------------------------------------------------------------------------
(* pold handles the policy server's answers, in any order, and SIGUSR2. *)

update_from_server_cb(r, response) ==
  /\ Up /\ request[r] # NULL /\ request[r].stage = "http"
  /\ \E outcome \in update_outcomes(id_to_policy, response) :
       /\ apply_update(outcome)
       /\ IF outcome.error
          THEN Answer(r)
          ELSE request' = [request EXCEPT ![r].stage = "selinux"]
  /\ UNCHANGED <<agents, updating, inbox, bus, status>>

signal_update ==
  /\ Up /\ updating < MaxSignals
  /\ updating' = updating + 1
  /\ UNCHANGED <<agents, registry, policies, request, inbox, bus, status>>

signal_update_done(response) ==
  /\ Up /\ updating > 0
  /\ \E outcome \in update_outcomes(id_to_policy, response) : apply_update(outcome)
  /\ updating' = updating - 1
  /\ UNCHANGED <<agents, request, inbox, bus, status>>
-----------------------------------------------------------------------------
Dispatch ==
  \/ RegisterTwice
  \/ pold_manager_register_agent
  \/ pold_manager_unregister_agent
  \/ owner_disconnect
  \/ stop_watching_app
  \/ CrashOnFreedApp
  \/ pold_manager_get_policy_config
  \/ selinux_cb
  \/ UserFailed
  \/ user_cb

HttpAnswer(r) == \E response \in Responses : update_from_server_cb(r, response)
SignalAnswer == \E response \in Responses : signal_update_done(response)

Environment ==
  \/ \E a \in Agent, p \in Path, method \in {"RegisterAgent", "UnregisterAgent"} :
       CallAgentMethod(a, method, p)
  \/ \E r \in Request, a \in Agent, app \in App : CallGetPolicyConfig(r, a, app)
  \/ \E n \in Name : Disconnect(n)
  \/ \E r \in Request : BusSelinuxReply(r) \/ BusUserReply(r)

(* message_dispatch never leaves its loop: nothing else happens any more.    *)
Spin == status = "spinning" /\ UNCHANGED vars

Next ==
  \/ Environment
  \/ Dispatch
  \/ \E r \in Request : HttpAnswer(r)
  \/ signal_update
  \/ SignalAnswer
  \/ Spin
Spec == Init /\ [][Next]_vars

(* The main loop keeps dispatching, the bus answers and libsoup completes    *)
(* every message, with an error status if need be. Clients owe nothing.      *)
Fairness ==
  /\ WF_vars(Dispatch)
  /\ \A r \in Request : WF_vars(BusSelinuxReply(r) \/ BusUserReply(r))
                          /\ WF_vars(HttpAnswer(r))
FairSpec == Spec /\ Fairness
=============================================================================
