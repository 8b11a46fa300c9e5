--------------------------- MODULE PoldProperties ---------------------------
(* What the daemon modelled in Pold must guarantee, and the discipline of    *)
(* the clients under which it can.                                           *)
EXTENDS Pold

(* The type of every variable.                                               *)
TypeOK ==
  /\ object_paths \in [Agent -> Path \cup {NULL}]
  /\ agent_watches \in [Agent -> Nat]
  /\ app_id_to_app \in [Key -> AppRecord \cup {NULL}]
  /\ id_to_apps \in [PolicyId -> SUBSET Key]
  /\ id_to_policy \in Table
  /\ default_policy \in [id : PolicyId \cup {NoId}, json : Json \cup {NULL}]
  /\ stale \in SUBSET Key
  /\ reused \in SUBSET (Key \X Key)
  /\ request \in [Request -> ConfigData \cup {NULL}]
  /\ updating \in Nat
  /\ inbox \in Seq(Message)
  /\ bus \in SUBSET Name
  /\ told \in [Key -> Json \cup {NULL, Untold}]
  /\ status \in {"running", "spinning", "crashed"}

(* The two tables of the registry agree in both directions: an application   *)
(* is listed under a policy id exactly while it is watched and has that id   *)
(* among its potential ones. fill_apps_to_remove, which walks one table and  *)
(* frees what the other owns, reads a freed app when they disagree.          *)
IndexExact ==
  \A id \in PolicyId, k \in Key : k \in id_to_apps[id] <=> id \in Ids(k)

(* The config_data of a call is always in the hands of one callback: while a *)
(* message for it waits in the inbox, the call is in the stage that message  *)
(* ends, and no second message for it waits. Otherwise a callback would work *)
(* on data that another one has freed.                                       *)
CarriesCall(m) == m.type \in {"GetPolicyConfig", "SelinuxReply", "UserReply"}
WaitingAs(type) == CASE type = "GetPolicyConfig" -> "queued"
                     [] type = "SelinuxReply"    -> "selinux_replied"
                     [] type = "UserReply"       -> "user_replied"
OneOwner ==
  /\ \A i \in DOMAIN inbox : CarriesCall(inbox[i]) =>
       /\ request[inbox[i].request] # NULL
       /\ request[inbox[i].request].stage = WaitingAs(inbox[i].type)
  /\ \A i, j \in DOMAIN inbox :
       CarriesCall(inbox[i]) /\ CarriesCall(inbox[j])
         /\ inbox[i].request = inbox[j].request => i = j

(* An agent that got a policy for an application still connected, and has    *)
(* stayed registered since, is among those that updates reach: the app is    *)
(* watched, whatever other agents and applications did meanwhile.            *)
Subscribed ==
  \A k \in Key :
    told[k] # Untold /\ object_paths[k[1]] # NULL /\ {k[1], k[2]} \subseteq bus
      => k \in Watched

(* "Remove all apps that correspond to a given agent" (policy.c:536): when   *)
(* an agent unregisters or leaves, none of its apps stays watched.           *)
AgentAppsRemoved ==
  [][\A k \in Key : object_paths[k[1]] # NULL /\ object_paths'[k[1]] = NULL
                      => app_id_to_app'[k] = NULL]_vars

(* ... and no others: an app stops being watched only because its agent      *)
(* unregistered, or because its agent or the app itself left the bus.        *)
OtherAppsKept ==
  [][\A k \in Watched : app_id_to_app'[k] = NULL =>
        \/ object_paths[k[1]] # NULL /\ object_paths'[k[1]] = NULL
        \/ ~({k[1], k[2]} \subseteq bus)]_vars

(* "Sends the updated policy to all agents who are not yet updated"          *)
(* (policy.c:369): when new policies have been loaded, every registered      *)
(* agent has been told the policy now in force for each of its watched apps, *)
(* whatever it was told before.                                              *)
UpdateReachesAll ==
  [][id_to_policy' # id_to_policy =>
       \A k \in Watched : object_paths[k[1]] # NULL =>
         told'[k] = Active(k, id_to_policy', default_policy'.json)]_vars

(* What mark_update_apps relies on (policy.c:187-188): if the policy stored  *)
(* for an app equals the policy in force, its agent was told that policy.    *)
RecordIsWhatAgentKnows ==
  \A k \in Watched :
    told[k] # Untold
      /\ app_id_to_app[k].agent_policy_json
           = Active(k, id_to_policy, default_policy.json)
      => told[k] = app_id_to_app[k].agent_policy_json

(* Agents and apps that left the bus are forgotten once their signal has     *)
(* been handled: no object path and no watched app of theirs remains.        *)
Leaving(n) == \E i \in DOMAIN inbox :
                inbox[i] = [type |-> "NameOwnerChanged", name |-> n]
DepartedForgotten ==
  /\ \A a \in Agent : a \notin bus /\ ~Leaving(a) => object_paths[a] = NULL
  /\ \A k \in Watched : k[2] \in bus \/ Leaving(k[2])

(* The default policy's document is one of those that were loaded: answering *)
(* with it never destroys it.                                                *)
DefaultIntact == default_policy.json # NULL

(* Every GetPolicyConfig call is answered, by a policy or by an error, as    *)
(* long as the daemon runs.                                                  *)
Answered ==
  \A r \in Request :
    request[r] # NULL ~> (request[r] = NULL \/ status # "running")
-----------------------------------------------------------------------------
(* Clients as the ConnMan plugin behaves: an agent asks only while it is     *)
(* registered, and neither it nor the app in question leaves, nor does the   *)
(* agent unregister, before the answer; it does not leave with a             *)
(* registration still queued.                                                *)
Orderly ==
  /\ \A r \in Request : request[r] # NULL =>
       /\ {request[r].agent, request[r].app} \subseteq bus
       /\ object_paths[request[r].agent] # NULL
       /\ \A i \in DOMAIN inbox : inbox[i].type = "UnregisterAgent"
                                    => inbox[i].sender # request[r].agent
  /\ \A i \in DOMAIN inbox :
       inbox[i].type = "RegisterAgent" => inbox[i].sender \in bus

OrderlySpec == Init /\ [][Next /\ Orderly']_vars

(* With orderly clients and policies that load, every agent always knows the *)
(* policy in force for each app it asked about.                              *)
Distribution == INSTANCE PolicyDistribution WITH
  Subscriber <- Key,
  Document <- Json \cup {NULL},
  in_force <- [k \in Watched |-> Active(k, id_to_policy, default_policy.json)],
  known <- [k \in Watched |-> told[k]]
ImplementsDistribution == Distribution!Spec
=============================================================================
